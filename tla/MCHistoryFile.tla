---------------------------- MODULE MCHistoryFile ----------------------------
(***************************************************************************)
(* Values of HistoryFile's constants for TLC. The sizes are such that a    *)
(* node holds one interval, so that few intervals make a deep tree.        *)
(***************************************************************************)
EXTENDS HistoryFile

LongString == 136  \* an interval header and 112 bytes of variable data

Offered(keyedRanges) ==
    {[key |-> range[1], begin |-> range[2], end |-> range[3],
      size |-> LongString] : range \in keyedRanges}

\* Two keys with one long interval each, and a third, for the program's own type.
Mixed3 == Offered({<<1, 0, 1>>, <<1, 1, 2>>, <<2, 0, 2>>, <<3, 1, 1>>})

\* The leaves that take the first one begin where it does, and are many.
Short1 == Offered({<<1, 0, 0>>, <<1, 0, 1>>})
=============================================================================
