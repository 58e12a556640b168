---------------------------- MODULE MCHistorySink ----------------------------
(***************************************************************************)
(* Values of HistorySink's constants for TLC. Timestamps are small, and    *)
(* the sizes are such that a leaf holds two intervals.                     *)
(***************************************************************************)
EXTENDS HistorySink

Offered(ranges, sizes) ==
    {[key |-> 0, begin |-> range[1], end |-> range[2],
      size |-> size] : range \in ranges, size \in sizes}

\* Every range of the timestamps 0..last, those of length zero too.
RangesTo(last) == {range \in (0..last) \X (0..last) : range[1] <= range[2]}

ShortString == 64  \* an interval header and 40 bytes of variable data

AllRanges2 == Offered(RangesTo(2), {ShortString})

\* Long intervals, which go up the branch, and short ones, which make it grow.
LongAndShort ==
    Offered({<<0, 1>>, <<0, 2>>, <<1, 2>>, <<0, 3>>, <<2, 3>>}, {ShortString})
=============================================================================
