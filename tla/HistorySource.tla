---------------------------- MODULE HistorySource ----------------------------
(***************************************************************************)
(* A history file opened for input (class HistoryFileSource): its          *)
(* attributes, its stream, the cache its nodes come through and the query  *)
(* in progress. The cache is any one that keeps what NodeCache promises.   *)
(*                                                                         *)
(* open and the queries get one node per step: pc is the call in progress, *)
(* next the sequence number of the node it needs.                          *)
(***************************************************************************)
EXTENDS Node

CONSTANTS
    QueryTimes,     \* the timestamps asked
    Keys,           \* the keys asked
    CustomKeys,     \* the keys whose intervals have a type of the program's own
    Garbage,        \* what the memory of a new source may hold
    CacheSize,      \* the size of a cache given to open
    CacheChoices,   \* the caches given to open: "none", "new" or the "same" again
    NoNode          \* the null pointer; a buffer nothing has been read into

ASSUME QueryAssumption ==
    /\ QueryTimes \subseteq Int /\ Garbage \subseteq Int
    /\ Keys \subseteq Nat /\ CustomKeys \subseteq Nat

ASSUME CacheAssumption ==
    CacheSize \in Nat /\ CacheChoices \subseteq {"none", "new", "same"}

VARIABLES
    file,           \* the nodes in the file, by sequence number
    header,         \* the header in the file, or NoHeader
    streamOpen,     \* the input stream has a file
    failed,         \* the input stream's failbit
    opened,         \* isOpened()
    begin,          \* getBegin()
    end,            \* getEnd()
    nodeCount,      \* getNodeCount()
    root,           \* getRootNodeSeqNumber()
    buffer,         \* the node whose bytes the buffer holds
    cacheSize,      \* the size of the cache: 0 is the pass-through one
    cached,         \* the nodes in the cache, by sequence number
    pc,             \* "idle", "opening", "findAll", "findOne" or "undefined"
    next,           \* the node the call needs
    ts,             \* the timestamp of the query
    key,            \* the key of findOne
    given,          \* the jar given to findAll
    jar,            \* the same jar, with what has been found since
    found,          \* what findOne returned, NoInterval if a null pointer
    outcome         \* how the last call ended: "ok", "found" or "none" for a
                    \* query that returned, or the exception thrown

disk == <<file, header>>
attributes == <<begin, end, nodeCount, root>>
reading == <<failed, buffer, cached>>
query == <<ts, key, given, jar, found>>
sourceVars == <<streamOpen, opened, attributes, reading, cacheSize, pc, next,
                query, outcome>>

NoHeader == [nodeCount |-> 0, root |-> RootParent]
NoInterval == [serial |-> 0, key |-> 0, begin |-> 0, end |-> 0, size |-> 0]
EmptyJar == <<>>

\* The constructor leaves the range as it finds it. (The node count and the root
\* number too, but open sets them before anything reads them.)
Init ==
    /\ streamOpen = FALSE /\ failed = FALSE /\ opened = FALSE
    /\ begin \in Garbage /\ end \in Garbage /\ nodeCount = 0 /\ root = 0
    /\ buffer = NoNode
    /\ cacheSize = 0 /\ cached = <<>>
    /\ pc = "idle" /\ next = 0
    /\ ts = 0 /\ key = 0 /\ given = EmptyJar /\ jar = EmptyJar
    /\ found = NoInterval
    /\ outcome = "ok"

(***************************************************************************)
(* getNode: the nodes of the file, through the cache.                      *)
(***************************************************************************)

\* Mutant of MayExist: one node less.
MayExistShort(seq) == seq < nodeCount - 1

\* The sequence number after the last one passes the test.
MayExist(seq) == seq <= nodeCount

\* Reading past the end of the file sets the failbit, for good.
ReadFails(seq) == failed \/ seq \notin DOMAIN file

\* A read that fails leaves the buffer as it is.
NodeRead(seq) == IF ReadFails(seq) THEN buffer ELSE file[seq]

NodeFromFile(seq) == IF MayExist(seq) THEN NodeRead(seq) ELSE NoNode

C == INSTANCE NodeCache WITH
        Seqs <- Nat, size <- cacheSize, answer <- NoNode,
        owner <- [seq \in {next} |-> NodeFromFile(seq)]

\* The node the call needs.
Got == C!Lookup(next)

FromCache == C!Hit(next) /\ UNCHANGED <<failed, buffer>>

NotInFile == C!MissUnknown(next) /\ ~MayExist(next) /\ UNCHANGED <<failed, buffer>>

\* The source's node deserializer has the standard factories, and the program
\* has no way to register one of its own there.
Creatable(node) ==
    \A k \in 1..Len(node.intervals) : node.intervals[k].key \notin CustomKeys

FromFile ==
    /\ MayExist(next)
    /\ C!MissKnown(next)
    /\ Creatable(NodeRead(next))
    /\ failed' = ReadFails(next)
    /\ buffer' = NodeRead(next)

\* What has never been written to the buffer is deserialized.
ReadGarbage ==
    /\ pc \in {"opening", "findAll", "findOne"}
    /\ next \notin DOMAIN cached
    /\ MayExist(next) /\ NodeRead(next) = NoNode
    /\ pc' = "undefined"
    /\ UNCHANGED <<disk, streamOpen, opened, attributes, reading, cacheSize,
                   next, query, outcome>>

(***************************************************************************)
(* open.                                                                   *)
(***************************************************************************)
\* A call that ends without having started.
Throw(exception) ==
    /\ pc = "idle"
    /\ outcome' = exception
    /\ UNCHANGED <<disk, opened, attributes, buffer, cached, cacheSize, pc, next, query>>

\* Already opened, or a stream that already has a file, or a bad path.
OpenFails ==
    /\ Throw("IO")
    /\ failed' = (~opened \/ failed)
    /\ UNCHANGED streamOpen

\* No node and no header has been written.
TooSmall == header = NoHeader /\ DOMAIN file = {}

\* Mutant of KnownMagic: the magic number is not looked at.
AnyMagic == TRUE

KnownMagic == header # NoHeader

\* Mutant of OpenTooSmall: the stream is not closed.
OpenTooSmallNotClosed ==
    /\ ~opened /\ ~streamOpen /\ TooSmall
    /\ streamOpen' = TRUE /\ failed' = FALSE
    /\ Throw("IO")

\* Opening the stream has cleared its failbit.
OpenTooSmall ==
    /\ ~opened /\ ~streamOpen /\ TooSmall
    /\ failed' = FALSE
    /\ Throw("IO")
    /\ UNCHANGED streamOpen

\* The stream is left open.
OpenBadMagic ==
    /\ ~opened /\ ~streamOpen /\ ~TooSmall /\ ~KnownMagic
    /\ streamOpen' = TRUE
    /\ failed' = FALSE
    /\ Throw("IO")

\* The cache given: a cache given again keeps its nodes.
SetCache(choice) ==
    CASE choice = "none" -> cacheSize' = 0 /\ cached' = <<>>
      [] choice = "new"  -> cacheSize' = CacheSize /\ cached' = <<>>
      [] choice = "same" -> UNCHANGED <<cacheSize, cached>>

\* The source is opened before its root has been read.
Open(choice) ==
    /\ pc = "idle"
    /\ ~opened /\ ~streamOpen /\ ~TooSmall /\ KnownMagic
    /\ streamOpen' = TRUE /\ failed' = FALSE
    /\ nodeCount' = header.nodeCount /\ root' = header.root
    /\ buffer' = NoNode
    /\ SetCache(choice)
    /\ opened' = TRUE
    /\ pc' = "opening" /\ next' = header.root
    /\ UNCHANGED <<disk, begin, end, query, outcome>>

GetRoot ==
    /\ pc = "opening"
    /\ FromCache \/ FromFile
    /\ begin' = Got.begin /\ end' = Got.end
    /\ pc' = "idle"
    /\ outcome' = "ok"
    /\ UNCHANGED <<disk, streamOpen, opened, nodeCount, root, cacheSize, next, query>>

\* The program drops the answers it has got: a bound of the model.
Close ==
    /\ pc = "idle"
    /\ opened
    /\ streamOpen' = FALSE /\ opened' = FALSE
    /\ jar' = EmptyJar /\ found' = NoInterval
    /\ outcome' = "ok"
    /\ UNCHANGED <<disk, attributes, reading, cacheSize, pc, next, ts, key, given>>

\* The source is destroyed, closed first if it is opened, and another is built.
Destroy ==
    /\ pc = "idle"
    /\ streamOpen' = FALSE /\ failed' = FALSE /\ opened' = FALSE
    /\ begin' \in Garbage /\ end' \in Garbage /\ nodeCount' = 0 /\ root' = 0
    /\ buffer' = NoNode
    /\ next' = 0
    /\ jar' = EmptyJar /\ found' = NoInterval
    /\ outcome' = "ok"
    /\ UNCHANGED <<disk, cached, cacheSize, pc, ts, key, given>>

(***************************************************************************)
(* findAll and findOne.                                                    *)
(***************************************************************************)

ValidateTs(t) == begin <= t /\ t < end

QueryClosed ==
    /\ ~opened
    /\ Throw("IO")
    /\ UNCHANGED <<streamOpen, failed>>

QueryOutOfRange(t) ==
    /\ opened /\ ~ValidateTs(t)
    /\ Throw("TimestampOutOfRange")
    /\ UNCHANGED <<streamOpen, failed>>

Start(t) ==
    /\ pc = "idle" /\ opened /\ ValidateTs(t)
    /\ ts' = t
    /\ next' = root
    /\ UNCHANGED <<disk, streamOpen, opened, attributes, reading, cacheSize, outcome>>

\* The jar is empty, or the one filled by the last query. What findOne has
\* returned is dropped: a bound of the model.
StartFindAll(t, intervals) ==
    /\ Start(t)
    /\ pc' = "findAll"
    /\ given' = intervals /\ jar' = intervals
    /\ found' = NoInterval
    /\ UNCHANGED key

StartFindOne(t, k) ==
    /\ Start(t)
    /\ pc' = "findOne"
    /\ key' = k
    /\ found' = NoInterval
    /\ UNCHANGED <<given, jar>>

\* Mutant of GoesDown: a node with intervals is taken for a leaf.
GoesDownWhenEmpty(node) ==
    GetChildSeqAtTs(node, ts) # node.seq /\ node.intervals = <<>>

\* Mutant of GoesDown: without the break.
GoesDownAlways(node) == TRUE

\* A node has a child at ts: a node with none is its own child at ts.
GoesDown(node) == GetChildSeqAtTs(node, ts) # node.seq

\* The call returns, and its arguments are gone.
Return(result) ==
    /\ pc' = "idle"
    /\ outcome' = result
    /\ next' = 0 /\ ts' = 0 /\ key' = 0 /\ given' = EmptyJar

GoOn(node) ==
    /\ next' = GetChildSeqAtTs(node, ts)
    /\ UNCHANGED <<pc, outcome, ts, key, given>>

\* findAll returns whether the number of intervals in the jar has grown.
Added(intervals) ==
    IF Cardinality(DOMAIN intervals) > Cardinality(DOMAIN given) THEN "found"
                                                                 ELSE "none"

VisitAll ==
    /\ pc = "findAll"
    /\ FromCache \/ FromFile
    /\ jar' = FindAllInto(Got, ts, jar)
    /\ IF GoesDown(Got) THEN GoOn(Got) ELSE Return(Added(jar'))
    /\ UNCHANGED <<disk, streamOpen, opened, attributes, cacheSize, found>>

VisitOne ==
    /\ pc = "findOne"
    /\ FromCache \/ FromFile
    /\ IF Matches(Got, ts, key) # {}
       THEN found' = FindOne(Got, ts, key) /\ Return("found")
       ELSE /\ IF GoesDown(Got) THEN GoOn(Got) ELSE Return("none")
            /\ UNCHANGED found
    /\ UNCHANGED <<disk, streamOpen, opened, attributes, cacheSize, jar>>

\* A child that cannot be there: the query ends with what it has.
VisitMissing ==
    /\ pc \in {"findAll", "findOne"}
    /\ NotInFile
    /\ Return(IF pc = "findAll" THEN Added(jar) ELSE "none")
    /\ UNCHANGED <<disk, streamOpen, opened, attributes, cacheSize, jar, found>>

\* The node has an interval that cannot be created: the exception leaves open,
\* with the source opened and the range it had, or the query, with what it has
\* put in the jar. The cache gets no node.
ReadUnknown ==
    /\ pc \in {"opening", "findAll", "findOne"}
    /\ next \notin DOMAIN cached
    /\ MayExist(next) /\ NodeRead(next) # NoNode /\ ~Creatable(NodeRead(next))
    /\ failed' = ReadFails(next)
    /\ buffer' = NodeRead(next)
    /\ Return("UnknownIntervalType")
    /\ UNCHANGED <<disk, streamOpen, opened, attributes, cached, cacheSize, jar, found>>

(***************************************************************************)
(* The specification.                                                      *)
(***************************************************************************)
CallStep == GetRoot \/ VisitAll \/ VisitOne \/ VisitMissing \/ ReadUnknown \/ ReadGarbage

Next ==
    \/ OpenFails \/ OpenTooSmall \/ OpenBadMagic
    \/ \E choice \in CacheChoices : Open(choice)
    \/ Close \/ Destroy
    \/ QueryClosed
    \/ \E t \in QueryTimes :
          \/ QueryOutOfRange(t)
          \/ \E intervals \in {EmptyJar, jar} : StartFindAll(t, intervals)
          \/ \E k \in Keys : StartFindOne(t, k)
    \/ CallStep
=============================================================================
