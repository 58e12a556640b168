----------------------------- MODULE HistoryFile -----------------------------
(***************************************************************************)
(* A history file between the sink that writes it and a source that reads  *)
(* it. The program, or two of them, calls both in any order; only while a  *)
(* source has the history opened does no sink write to its file: nothing   *)
(* in the library makes the two agree. The sink's process may crash.       *)
(***************************************************************************)
EXTENDS HistorySource

CONSTANTS Offers, BeginTimes, CloseTimes, MaxChildrenValues, MaxAdds  \* see HistorySink

\* With less, addInterval throws half-way and the file may have holes.
ASSUME TwoChildrenAssumption == \A max \in MaxChildrenValues : max >= 2

VARIABLES sinkStreamOpen, sinkOpened, sinkBegin, sinkEnd, sinkMaxChildren,
          sinkNodeCount, sinkRoot, latestBranch, sinkPc, intr, index, adds, sinkOutcome

Sink == INSTANCE HistorySink WITH
            streamOpen <- sinkStreamOpen, opened <- sinkOpened,
            begin <- sinkBegin, end <- sinkEnd, maxChildren <- sinkMaxChildren,
            nodeCount <- sinkNodeCount, root <- sinkRoot, pc <- sinkPc, outcome <- sinkOutcome

\* What HistorySink assumes of these constants.
ASSUME SinkAssumption ==
    /\ NodeSize \in Nat
    /\ SizeMod \in Nat \ {0}
    /\ MaxChildrenValues \subseteq Nat
    /\ MaxAdds \in Nat
    /\ BeginTimes \subseteq Int /\ CloseTimes \subseteq Int
    /\ Offers \subseteq [key : Nat, begin : Int, end : Int, size : Nat]
    /\ \A offer \in Offers : offer.begin <= offer.end

\* The null pointer is no node.
ASSUME NoNodeAssumption == NoNode \notin Sink!WrittenNode

sinkVars == <<sinkStreamOpen, sinkOpened, sinkBegin, sinkEnd, sinkMaxChildren,
              sinkNodeCount, sinkRoot, latestBranch, sinkPc, intr, index, adds, sinkOutcome>>
vars == <<disk, sourceVars, sinkVars>>

FileInit == Sink!Init /\ Init

SinkStep ==
    /\ Sink!Next
    /\ opened => disk' = disk
    /\ UNCHANGED sourceVars

SourceStep == Next /\ UNCHANGED sinkVars

\* The sink's process dies before its header is written. Each seek of the stream
\* writes what it has buffered: one node at most never reaches the file.
Crash ==
    /\ sinkOpened
    /\ sinkStreamOpen' = FALSE /\ sinkOpened' = FALSE
    /\ sinkBegin' = 0 /\ sinkEnd' = 0 /\ sinkMaxChildren' = 0
    /\ sinkNodeCount' = 0 /\ sinkRoot' = 0
    /\ latestBranch' = <<>>
    /\ sinkPc' = "idle" /\ intr' = NoInterval /\ index' = 0
    /\ sinkOutcome' = "ok"
    /\ \E lost \in C!AtMostOneOf(DOMAIN file) :
          file' = [seq \in DOMAIN file \ lost |-> file[seq]]
    /\ UNCHANGED <<header, adds, sourceVars>>

\* A sink whose open has failed with its stream open is destroyed, and another
\* is built. (One that is opened is closed first: see Close of HistorySink.)
DestroySink ==
    /\ sinkPc = "idle" /\ ~sinkOpened
    /\ sinkStreamOpen /\ sinkStreamOpen' = FALSE
    /\ sinkOutcome' = "ok"
    /\ UNCHANGED <<disk, sinkOpened, sinkBegin, sinkEnd, sinkMaxChildren,
                   sinkNodeCount, sinkRoot, latestBranch, sinkPc, intr, index, adds, sourceVars>>

FileNext == SinkStep \/ SourceStep \/ Crash \/ DestroySink

Spec == FileInit /\ [][FileNext]_vars

\* A call of the source that has started goes on.
FairSpec == Spec /\ WF_vars(CallStep /\ UNCHANGED sinkVars)

(***************************************************************************)
(* Properties. The history a file holds is the abstract one its sink       *)
(* implements (History): its contents, and what a query must find in them. *)
(***************************************************************************)
At(t) == Sink!H!At(t)

Interval ==
    [serial : Nat, key : Nat, begin : Int, end : Int, size : Nat]

IsJar(intervals) ==
    /\ DOMAIN intervals \subseteq Nat
    /\ \A k \in DOMAIN intervals :
          intervals[k] \in Interval /\ intervals[k].key = k

\* Every variable of the source has its type, and a jar holds its intervals by
\* their keys.
TypeOK ==
    /\ streamOpen \in BOOLEAN /\ failed \in BOOLEAN /\ opened \in BOOLEAN
    /\ opened => streamOpen
    /\ begin \in Int /\ end \in Int /\ nodeCount \in Nat /\ root \in Nat
    /\ buffer \in Range(file) \cup {NoNode} \/ ~opened
    /\ cacheSize \in Nat /\ Cardinality(DOMAIN cached) <= cacheSize
    /\ pc \in {"idle", "opening", "findAll", "findOne", "undefined"}
    /\ pc # "idle" => opened
    /\ next \in Nat
    /\ ts \in QueryTimes \cup {0} /\ key \in Keys \cup {0}
    /\ IsJar(given) /\ IsJar(jar)
    /\ found \in Interval
    /\ outcome \in {"ok", "found", "none", "IO", "TimestampOutOfRange",
                    "UnknownIntervalType"}

\* The root of the file can be read back.
RootCreatable == header.root \in DOMAIN file /\ Creatable(file[header.root])

\* A source that has been opened has the range of the history in the file, and
\* accepts the same timestamps, unless reading the root has thrown.
RangeIsHistorys ==
    opened /\ pc # "opening" /\ RootCreatable => begin = sinkBegin /\ end = sinkEnd

\* A query only needs nodes that are in the file: it never reads past its end,
\* which would break the stream, and never uses bytes it has not read. A file
\* a sink has left unfinished is not read at all.
NodesAreThere == pc # "undefined" /\ (opened => ~failed)

\* A query fails only on an interval of a type without a factory.
FailsForCustom ==
    outcome' = "UnknownIntervalType" /\
        \E interval \in Sink!Contents : interval.key \in CustomKeys

\* findAll adds to the jar only intervals that intersect the timestamp, the jar then
\* has every key that has one, and if it was empty, findAll says whether there is
\* one. If it throws, the jar has a part of them.
FindAllIsRight ==
    [][pc = "findAll" /\ pc' = "idle" =>
          /\ \A k \in DOMAIN jar' \ DOMAIN given : jar'[k] \in At(ts)
          /\ \/ FailsForCustom
             \/ /\ {interval.key : interval \in At(ts)} \subseteq DOMAIN jar'
                /\ given = EmptyJar =>
                      outcome' = IF At(ts) = {} THEN "none" ELSE "found"]_vars

\* findOne finds an interval that has the key and intersects the timestamp, if
\* there is one.
FindOneIsRight ==
    [][pc = "findOne" /\ pc' = "idle" =>
          LET matching == {interval \in At(ts) : interval.key = key}
          IN  \/ FailsForCustom /\ found' = NoInterval
              \/ IF matching = {} THEN found' = NoInterval /\ outcome' = "none"
                 ELSE found' \in matching /\ outcome' = "found"]_vars

\* A query that has started ends with an answer.
QueriesAnswer ==
    [][(pc = "findAll" \/ pc = "findOne") /\ pc' = "idle" =>
          outcome' = "found" \/ outcome' = "none"]_vars

\* A source that is not opened can be opened: a call that has failed leaves no
\* file to its stream, except the open of a file with a bad magic number. That
\* source can only be destroyed.
StreamFollowsOpened ==
    [][\/ streamOpen' = opened'
       \/ streamOpen' /\ ~opened /\ (streamOpen \/ (~TooSmall /\ ~KnownMagic))]_vars

\* A query returns, and so does open.
QueryReturns == pc # "idle" ~> pc = "idle"

\* Whatever the cache holds, what a query adds intersects the timestamp.
FoundIntersects ==
    [][pc = "findAll" /\ pc' = "idle" =>
          \A k \in DOMAIN jar' \ DOMAIN given :
              jar'[k].begin <= ts /\ ts < jar'[k].end]_vars
=============================================================================
