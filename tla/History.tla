------------------------------- MODULE History -------------------------------
(***************************************************************************)
(* What a history being built promises (interface IHistorySink, attributes *)
(* of AbstractHistory): a set of intervals and a time range. A call either *)
(* takes effect at once or throws and changes nothing. How the intervals   *)
(* are laid out in nodes and in a file is left to the implementation.      *)
(***************************************************************************)
EXTENDS Integers

CONSTANTS Submissions,  \* the intervals that may be added: [serial, key, begin, end, size]
          BeginTimes,   \* the begin timestamps given to open
          CloseTimes    \* the end timestamps given to close

VARIABLES opened, begin, end, contents, outcome

vars == <<opened, begin, end, contents, outcome>>

Init ==
    /\ opened = FALSE
    /\ begin = 0 /\ end = 0
    /\ contents = {}
    /\ outcome = "ok"

\* A new history is empty, whatever the previous one held.
Open(ts) ==
    /\ ~opened
    /\ opened' = TRUE
    /\ begin' = ts /\ end' = ts
    /\ contents' = {}
    /\ outcome' = "ok"

\* An interval is added once, and never one that ends before the last one.
Add(interval) ==
    /\ opened
    /\ interval \notin contents
    /\ interval.begin >= begin /\ interval.end >= end
    /\ contents' = contents \cup {interval}
    /\ end' = interval.end
    /\ outcome' = "ok"
    /\ UNCHANGED <<opened, begin>>

Close(ts) ==
    /\ opened
    /\ opened' = FALSE
    /\ end' = IF ts > end THEN ts ELSE end
    /\ outcome' = "ok"
    /\ UNCHANGED <<begin, contents>>

Throw(exception) ==
    /\ outcome' = exception
    /\ UNCHANGED <<opened, begin, end, contents>>

\* The file is created before the serializer's type is looked at.
OpenTruncates ==
    /\ ~opened
    /\ contents' = {}
    /\ outcome' = "UnknownNodeSerDesType"
    /\ UNCHANGED <<opened, begin, end>>

Next ==
    \/ \E ts \in BeginTimes : Open(ts)
    \/ \E interval \in Submissions : Add(interval)
    \/ \E ts \in CloseTimes \cup {end} : Close(ts)
    \/ \E exception \in {"IO", "IntervalOutOfRange", "NodeFull"} : Throw(exception)
    \/ OpenTruncates

Spec == Init /\ [][Next]_vars

\* What a query at ts must return (IHistorySource).
At(ts) == {interval \in contents : interval.begin <= ts /\ ts < interval.end}
=============================================================================
