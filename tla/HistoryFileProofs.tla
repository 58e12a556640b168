--------------------------- MODULE HistoryFileProofs ---------------------------
(***************************************************************************)
(* What a source finds in the history file a sink writes, for every value  *)
(* of the constants of HistoryFile: the sink may crash, and the two are    *)
(* called in any order.                                                    *)
(*                                                                         *)
(* P has what is proved of the sink alone. The steps of the program that   *)
(* are not the sink's keep its invariant as well.                          *)
(***************************************************************************)
EXTENDS HistoryFile, FiniteSetTheorems, TLAPS

P == INSTANCE HistorySinkSearchProofs WITH
        streamOpen <- sinkStreamOpen, opened <- sinkOpened,
        begin <- sinkBegin, end <- sinkEnd, maxChildren <- sinkMaxChildren,
        nodeCount <- sinkNodeCount, root <- sinkRoot, pc <- sinkPc, outcome <- sinkOutcome

USE DEF disk, attributes, reading, query

(***************************************************************************)
(* The sink of the program is the one that is proved about.                *)
(***************************************************************************)
LEMMA SameSinkInit == Sink!Init => P!Init
BY DEF Sink!Init, P!Init, Sink!NoHeader, P!NoHeader, Sink!NoInterval, P!NoInterval,
       Sink!RootParent, P!RootParent

LEMMA SameSinkNext == Sink!Next => P!Next
<1>1. /\ Sink!TryAddSibling => P!TryAddSibling
      /\ Sink!TryParent => P!TryParent
      /\ Sink!AddToTarget => P!AddToTarget
      /\ Sink!SiblingOfParent => P!SiblingOfParent
  BY DEF Sink!TryAddSibling, P!TryAddSibling, Sink!TryParent, P!TryParent,
         Sink!AddToTarget, P!AddToTarget, Sink!SiblingOfParent,
         P!SiblingOfParent, Sink!Target, P!Target, Sink!IntervalFits,
         P!IntervalFits, Sink!FreeSpace, P!FreeSpace, Sink!CurSize, P!CurSize,
         Sink!HeaderSize, P!HeaderSize, Sink!NodeHeaderBytes,
         P!NodeHeaderBytes, Sink!ChildPointerBytes, P!ChildPointerBytes,
         Sink!GoOnAt, P!GoOnAt, Sink!Return, P!Return, Sink!NoInterval,
         P!NoInterval, Sink!ParentFull, P!ParentFull, Sink!IsFull, P!IsFull,
         Sink!AddIntervalToNode, P!AddIntervalToNode, Sink!call, P!call,
         Sink!attributes, P!attributes, Sink!disk, P!disk
<1>2. Sink!Sibling => P!Sibling
  BY ZenonT(60) DEF Sink!Sibling, P!Sibling, Sink!CommitNodesDownFromIndex,
         P!CommitNodesDownFromIndex, Sink!SeqsDownFrom, P!SeqsDownFrom,
         Sink!CommittedNode, P!CommittedNode, Sink!Serialize, P!Serialize,
         Sink!CloseNode, P!CloseNode, Sink!BufferFits, P!BufferFits,
         Sink!FitsBuffer, P!FitsBuffer, Sink!SerializedSize, P!SerializedSize,
         Sink!NodeHeaderBytes, P!NodeHeaderBytes, Sink!ChildPointerBytes,
         P!ChildPointerBytes, Sink!DrawBranchFromIndex, P!DrawBranchFromIndex,
         Sink!DrawnNode, P!DrawnNode, Sink!NewNode, P!NewNode, Sink!AddChild,
         P!AddChild, Sink!TryNewLeaf, P!TryNewLeaf, Sink!ParentFull,
         P!ParentFull, Sink!IsFull, P!IsFull, Sink!call, P!call,
         Sink!attributes, P!attributes, Sink!disk, P!disk
<1>3. /\ Sink!GrowRoot => P!GrowRoot
      /\ Sink!GrowRootNoChild => P!GrowRootNoChild
      /\ Sink!GrowRootOneChild => P!GrowRootOneChild
  BY ZenonT(60) DEF Sink!GrowRoot, P!GrowRoot, Sink!GrowRootNoChild, P!GrowRootNoChild,
         Sink!GrowRootOneChild, P!GrowRootOneChild,
         Sink!CommitNodesDownFromIndex, P!CommitNodesDownFromIndex,
         Sink!SeqsDownFrom, P!SeqsDownFrom, Sink!CommittedNode,
         P!CommittedNode, Sink!Serialize, P!Serialize, Sink!CloseNode,
         P!CloseNode, Sink!BufferFits, P!BufferFits, Sink!FitsBuffer,
         P!FitsBuffer, Sink!SerializedSize, P!SerializedSize,
         Sink!NodeHeaderBytes, P!NodeHeaderBytes, Sink!ChildPointerBytes,
         P!ChildPointerBytes, Sink!DrawBranchFromIndex, P!DrawBranchFromIndex,
         Sink!DrawnNode, P!DrawnNode, Sink!NewNode, P!NewNode, Sink!AddChild,
         P!AddChild, Sink!TryNewLeaf, P!TryNewLeaf, Sink!NewRoot, P!NewRoot,
         Sink!NewRootWithChild, P!NewRootWithChild, Sink!BranchUnderNewRoot,
         P!BranchUnderNewRoot, Sink!RootParent, P!RootParent, Sink!IsFull,
         P!IsFull, Sink!Return, P!Return, Sink!NoInterval, P!NoInterval,
         Sink!call, P!call, Sink!attributes, P!attributes, Sink!disk, P!disk
<1>4. Sink!Overrun => P!Overrun
  BY ZenonT(60) DEF Sink!Overrun, P!Overrun, Sink!CommitsFrom, P!CommitsFrom,
         Sink!ParentFull, P!ParentFull, Sink!IsFull, P!IsFull, Sink!NewRoot,
         P!NewRoot, Sink!NewNode, P!NewNode, Sink!RootParent, P!RootParent,
         Sink!BufferFits, P!BufferFits, Sink!FitsBuffer, P!FitsBuffer,
         Sink!SerializedSize, P!SerializedSize, Sink!NodeHeaderBytes,
         P!NodeHeaderBytes, Sink!ChildPointerBytes, P!ChildPointerBytes,
         Sink!call, P!call, Sink!attributes, P!attributes, Sink!disk, P!disk
<1>5. \A t \in CloseTimes \cup {sinkEnd} : Sink!Close(t) => P!Close(t)
  BY ZenonT(60) DEF Sink!Close, P!Close, Sink!ClosingEnd, P!ClosingEnd,
         Sink!CommitNodesDownFromIndex, P!CommitNodesDownFromIndex,
         Sink!SeqsDownFrom, P!SeqsDownFrom, Sink!CommittedNode,
         P!CommittedNode, Sink!Serialize, P!Serialize, Sink!CloseNode,
         P!CloseNode, Sink!BufferFits, P!BufferFits, Sink!FitsBuffer,
         P!FitsBuffer, Sink!SerializedSize, P!SerializedSize,
         Sink!NodeHeaderBytes, P!NodeHeaderBytes, Sink!ChildPointerBytes,
         P!ChildPointerBytes, Sink!call, P!call, Sink!attributes, P!attributes,
         Sink!disk, P!disk
<1>6. \A t \in BeginTimes : Sink!Open(t) => P!Open(t)
  BY DEF Sink!Open, P!Open, Sink!Truncated, P!Truncated, Sink!NoHeader,
         P!NoHeader, Sink!NewNode, P!NewNode, Sink!RootParent, P!RootParent,
         Sink!call, P!call, Sink!attributes, P!attributes, Sink!disk, P!disk
<1>7. \A offer \in Offers :
         /\ Sink!AddInterval(offer) => P!AddInterval(offer)
         /\ Sink!AddIntervalOutOfRange(offer) => P!AddIntervalOutOfRange(offer)
  BY DEF Sink!AddInterval, P!AddInterval, Sink!AddIntervalOutOfRange,
         P!AddIntervalOutOfRange, Sink!InRange, P!InRange, Sink!Submit,
         P!Submit, Sink!call, P!call, Sink!attributes, P!attributes, Sink!disk,
         P!disk
<1>8. /\ Sink!OpenUnknownSerDes => P!OpenUnknownSerDes
      /\ Sink!OpenFails => P!OpenFails
      /\ Sink!AddIntervalClosed => P!AddIntervalClosed
  BY DEF Sink!OpenUnknownSerDes, P!OpenUnknownSerDes, Sink!OpenFails,
         P!OpenFails, Sink!AddIntervalClosed, P!AddIntervalClosed,
         Sink!Truncated, P!Truncated, Sink!NoHeader, P!NoHeader,
         Sink!RootParent, P!RootParent, Sink!call, P!call, Sink!attributes,
         P!attributes, Sink!disk, P!disk
<1>9. QED
  BY <1>1, <1>2, <1>3, <1>4, <1>5, <1>6, <1>7, <1>8
     DEF Sink!Next, P!Next, Sink!CallStep, P!CallStep

\* The contents, and what the history has at a timestamp.
LEMMA SameContents ==
    /\ Sink!Contents = P!Contents
    /\ \A t : Sink!H!At(t) = P!H!At(t)
<1>1. Sink!Contents = P!Contents
  BY DEF Sink!Contents, P!Contents, Sink!Nodes, P!Nodes, Sink!BranchSeqs, P!BranchSeqs,
         Sink!BranchNode, P!BranchNode, Sink!SeqsDownFrom, P!SeqsDownFrom,
         Sink!Serialize, P!Serialize, Sink!Range, P!Range
<1>2. QED
  BY <1>1 DEF Sink!H!At, P!H!At

(***************************************************************************)
(* A query's operators are the sink's.                                     *)
(***************************************************************************)
LEMMA SameQueries ==
    ASSUME NEW node, NEW t
    PROVE  /\ GetChildSeqAtTs(node, t) = P!GetChildSeqAtTs(node, t)
           /\ FindAll(node, t) = P!FindAll(node, t)
           /\ FoundAt(node, t) = P!FoundAt(node, t)
<1>1. GetChildSeqAtTs(node, t) = P!GetChildSeqAtTs(node, t)
  BY DEF GetChildSeqAtTs, P!GetChildSeqAtTs, LeadingChildren, P!LeadingChildren, Max, P!Max
<1>2. FindAll(node, t) = P!FindAll(node, t) /\ FoundAt(node, t) = P!FoundAt(node, t)
  BY DEF FindAll, P!FindAll, FoundAt, P!FoundAt, FirstItForTs, P!FirstItForTs
<1>3. QED
  BY <1>1, <1>2

LEMMA SameTypes ==
    /\ Sink!WrittenNode = P!WrittenNode
    /\ Interval = P!Interval
    /\ NoHeader = P!NoHeader
<1>1. Interval = P!Interval
  BY DEF Interval, P!Interval, P!Timestamp
<1>2. Sink!WrittenNode = P!WrittenNode
  BY DEF Sink!WrittenNode, P!WrittenNode, Sink!ChildPointer, P!ChildPointer,
         Sink!Interval, P!Interval, Sink!Timestamp, P!Timestamp,
         Sink!RootParent, P!RootParent
<1>3. NoHeader = P!NoHeader
  BY DEF NoHeader, P!NoHeader, RootParent, P!RootParent
<1>4. QED
  BY <1>1, <1>2, <1>3

(***************************************************************************)
(* The sink's invariant in the program.                                    *)
(***************************************************************************)
LEMMA SinkStepKeeps ==
    ASSUME P!SinkInv, [P!Next]_(P!vars) PROVE P!SinkInv'
BY P!NextSinkInv, SinkAssumption, TwoChildrenAssumption

LEMMA InitSinkInv == FileInit => P!SinkInv
<1>1. P!Init => P!SinkInv
  BY P!InitSinkInv, SinkAssumption
<1>2. QED
  BY <1>1, SameSinkInit DEF FileInit

LEMMA CrashKeeps ==
    ASSUME P!SinkInv, Crash PROVE P!SinkInv'
<1>1. PICK lost : file' = [seq \in DOMAIN file \ lost |-> file[seq]]
  BY DEF Crash
<1>2. /\ sinkOpened /\ sinkOpened' = FALSE /\ sinkStreamOpen' = FALSE
      /\ sinkOutcome' = "ok"
      /\ sinkBegin' = 0 /\ sinkEnd' = 0 /\ sinkMaxChildren' = 0
      /\ sinkNodeCount' = 0 /\ sinkRoot' = 0
      /\ latestBranch' = <<>> /\ sinkPc' = "idle" /\ intr' = P!NoInterval /\ index' = 0
      /\ UNCHANGED <<header, adds>>
  BY DEF Crash, NoInterval, P!NoInterval
<1>3. QED
  BY <1>1, <1>2, P!SinkCrashed, SinkAssumption

LEMMA DestroySinkKeeps ==
    ASSUME P!SinkInv, DestroySink PROVE P!SinkInv'
<1>1. /\ ~sinkOpened /\ sinkStreamOpen' = FALSE /\ sinkOutcome' = "ok"
      /\ UNCHANGED <<sinkOpened, P!attributes, latestBranch, P!disk, P!call, adds>>
  BY DEF DestroySink, P!attributes, P!disk, P!call
<1>2. QED
  BY <1>1, P!SinkReplaced, SinkAssumption

LEMMA OthersKeep ==
    ASSUME P!SinkInv, UNCHANGED <<disk, sinkVars>> PROVE P!SinkInv'
<1>1. UNCHANGED P!vars
  BY DEF sinkVars, P!vars, P!attributes, P!disk, P!call
<1>2. QED
  BY <1>1, SinkStepKeeps

\* A source writes nothing.
LEMMA SourceWritesNothing == Next => UNCHANGED disk
<1>1. CallStep => UNCHANGED disk
  BY DEF CallStep, GetRoot, VisitAll, VisitOne, VisitMissing, ReadUnknown, ReadGarbage
<1>2. QED
  BY <1>1 DEF Next, OpenFails, OpenTooSmall, OpenBadMagic, Throw, Open, Close, Destroy,
              QueryClosed, QueryOutOfRange, StartFindAll, StartFindOne, Start

LEMMA NextKeepsSinkInv ==
    ASSUME P!SinkInv, [FileNext]_vars PROVE P!SinkInv'
<1>1. CASE SinkStep
  BY <1>1, SameSinkNext, SinkStepKeeps DEF SinkStep
<1>2. CASE SourceStep
  BY <1>2, SourceWritesNothing, OthersKeep DEF SourceStep
<1>3. CASE UNCHANGED vars
  BY <1>3, OthersKeep DEF vars
<1>4. QED
  BY <1>1, <1>2, <1>3, CrashKeeps, DestroySinkKeeps DEF FileNext

LEMMA SinkInvariant == Spec => []P!SinkInv
BY InitSinkInv, NextKeepsSinkInv, PTL DEF Spec

(***************************************************************************)
(* The nodes a source gets: from its cache, or from the file through its   *)
(* buffer.                                                                 *)
(***************************************************************************)
SourceNode(node) == node \in P!WrittenNode /\ P!Ordered(node)

\* How a call gets the node it needs.
LEMMA GetsNode ==
    ASSUME FromCache \/ FromFile
    PROVE  \/ /\ next \in DOMAIN cached /\ Got = cached[next]
              /\ UNCHANGED <<cached, failed, buffer>>
           \/ /\ next \notin DOMAIN cached /\ MayExist(next)
              /\ Got = NodeRead(next) /\ Got # NoNode /\ Creatable(Got)
              /\ failed' = ReadFails(next) /\ buffer' = Got
              /\ DOMAIN cached' \subseteq DOMAIN cached \cup {next}
              /\ \A seq \in DOMAIN cached' :
                    cached'[seq] = IF seq = next THEN Got ELSE cached[seq]
              /\ Cardinality(DOMAIN cached') <= cacheSize
<1>1. CASE FromCache
  BY <1>1 DEF FromCache, Got, C!Hit, C!Lookup
<1>2. CASE FromFile
  <2>1. next \notin DOMAIN cached /\ MayExist(next)
    BY <1>2 DEF FromFile, C!MissKnown
  <2>2. Got = NodeFromFile(next)
    BY <2>1 DEF Got, C!Lookup
  <2>3. Got = NodeRead(next) /\ Got # NoNode
    BY <1>2, <2>1, <2>2 DEF FromFile, C!MissKnown, NodeFromFile
  <2>4. Creatable(Got) /\ failed' = ReadFails(next) /\ buffer' = Got
    BY <1>2, <2>3 DEF FromFile
  <2>5. Cardinality(DOMAIN cached') <= cacheSize
    <3>1. C!MissKnown(next)
      BY <1>2, Zenon DEF FromFile
    <3>2. C!Cardinality(DOMAIN cached') <= cacheSize
      BY <3>1, Zenon DEF C!MissKnown
    <3>3. QED
      BY <3>2, Zenon DEF C!Cardinality, Cardinality
  <2>6. PICK dropped : cached' = C!Cached(next, dropped)
    BY <1>2 DEF FromFile, C!MissKnown
  <2>7. /\ DOMAIN cached' \subseteq DOMAIN cached \cup {next}
        /\ \A seq \in DOMAIN cached' :
              cached'[seq] = IF seq = next THEN Got ELSE cached[seq]
    BY <2>2, <2>6 DEF C!Cached
  <2>8. QED
    BY <2>1, <2>3, <2>4, <2>5, <2>7
<1>3. QED
  BY <1>1, <1>2

LEMMA NodeFields ==
    ASSUME NEW node, SourceNode(node)
    PROVE  /\ node.seq \in Nat /\ node.begin \in Int /\ node.end \in Int
           /\ node.intervals \in Seq(Interval)
           /\ Len(node.intervals) \in Nat
           /\ \A k \in 1..Len(node.intervals) :
                 /\ node.intervals[k] \in Interval
                 /\ node.intervals[k].key \in Nat
<1>1. node \in P!WrittenNode
  BY DEF SourceNode
<1>2. /\ node.seq \in Nat /\ node.begin \in Int /\ node.end \in Int
      /\ node.intervals \in Seq(P!Interval)
  BY <1>1, P!WrittenFields, SinkAssumption
<1>3. P!Interval = Interval
  BY SameTypes
<1>4. \A interval \in Interval : interval.key \in Nat
  BY DEF Interval
<1>5. QED
  BY <1>2, <1>3, <1>4

\* The child at a timestamp is one of the children, or the node itself.
LEMMA ChildAtTs ==
    ASSUME NEW node, node \in P!WrittenNode, NEW t
    PROVE  /\ \/ GetChildSeqAtTs(node, t) = node.seq
              \/ \E k \in 1..Len(node.children) :
                    GetChildSeqAtTs(node, t) = node.children[k].seq
           /\ GetChildSeqAtTs(node, t) \in Nat
<1>1. /\ node.seq \in Nat /\ Len(node.children) \in Nat
      /\ \A k \in 1..Len(node.children) : node.children[k].seq \in Nat
  BY P!WrittenFields, SinkAssumption
<1> DEFINE leading == P!LeadingChildren(node, t)
<1>2. leading \in SUBSET (1..Len(node.children))
  BY DEF P!LeadingChildren
<1>3. GetChildSeqAtTs(node, t) =
         IF leading = {} THEN node.seq ELSE node.children[P!Max(leading)].seq
  BY SameQueries DEF P!GetChildSeqAtTs
<1> HIDE DEF leading
<1>4. leading # {} => P!Max(leading) \in leading
  BY <1>1, <1>2, P!MaxOf, SinkAssumption
<1>5. QED
  BY <1>1, <1>2, <1>3, <1>4

\* What a node has for a timestamp.
LEMMA FindsAtTs ==
    ASSUME NEW node, SourceNode(node), NEW t \in Int
    PROVE  /\ FindAll(node, t) = {interval \in Range(node.intervals) :
                                     interval.begin <= t /\ t < interval.end}
           /\ FoundAt(node, t) \in SUBSET (1..Len(node.intervals))
<1>1. node.intervals \in Seq(P!Interval) /\ P!Ordered(node)
  BY P!WrittenFields, SinkAssumption DEF SourceNode
<1>2. P!FindAll(node, t) = {interval \in P!Range(node.intervals) :
                               interval.begin <= t /\ t < interval.end}
  BY <1>1, P!FindAllAtTs, SinkAssumption
<1>3. P!FoundAt(node, t) \in SUBSET (1..Len(node.intervals))
  BY <1>1, P!FoundAtTs, SinkAssumption
<1>4. P!Range(node.intervals) = Range(node.intervals)
  BY DEF P!Range, Range
<1>5. QED
  BY <1>2, <1>3, <1>4, SameQueries

LEMMA MatchFound ==
    ASSUME NEW node, SourceNode(node), NEW t \in Int, NEW k, Matches(node, t, k) # {}
    PROVE  /\ FindOne(node, t, k) \in FindAll(node, t)
           /\ FindOne(node, t, k) \in Interval
           /\ FindOne(node, t, k).key = k
<1> DEFINE matching == Matches(node, t, k)
<1>1. matching \in SUBSET (1..Len(node.intervals)) /\ Len(node.intervals) \in Nat
  BY FindsAtTs, NodeFields DEF Matches
<1>2. matching \subseteq FoundAt(node, t)
      /\ \A n \in matching : node.intervals[n].key = k
  BY DEF Matches
<1> HIDE DEF matching
<1>3. P!Min(matching) \in matching
  BY <1>1, P!MinOf, SinkAssumption DEF matching
<1>4. Min(matching) = P!Min(matching)
  BY DEF Min, P!Min
<1>5. FindOne(node, t, k) = node.intervals[Min(matching)]
  BY DEF FindOne, matching
<1>6. QED
  BY <1>1, <1>2, <1>3, <1>4, <1>5, NodeFields DEF FindAll

\* A jar is a function with finitely many keys.
FiniteJar(intervals) ==
    /\ IsJar(intervals)
    /\ IsFiniteSet(DOMAIN intervals)
    /\ intervals = [k \in DOMAIN intervals |-> intervals[k]]

LEMMA EmptyIsJar == FiniteJar(EmptyJar)
<1>1. DOMAIN EmptyJar = {}
  BY DEF EmptyJar
<1>2. EmptyJar = [k \in {} |-> EmptyJar[k]]
  BY DEF EmptyJar
<1>3. IsFiniteSet({})
  BY FS_EmptySet
<1>4. QED
  BY <1>1, <1>2, <1>3 DEF FiniteJar, IsJar

\* What visiting a node does to a jar.
LEMMA FoundInto ==
    ASSUME NEW node, SourceNode(node), NEW t \in Int, NEW intervals, FiniteJar(intervals),
           NEW more, more = FindAllInto(node, t, intervals)
    PROVE  /\ FiniteJar(more)
           /\ \A k \in DOMAIN intervals : k \in DOMAIN more /\ more[k] = intervals[k]
           /\ \A k \in DOMAIN more \ DOMAIN intervals : more[k] \in FindAll(node, t)
           /\ \A interval \in FindAll(node, t) : interval.key \in DOMAIN more
<1> DEFINE places == FoundAt(node, t)
           keys == {interval.key : interval \in FindAll(node, t)}
           keyAt == [n \in places |-> node.intervals[n].key]
<1>1. places \in SUBSET (1..Len(node.intervals)) /\ Len(node.intervals) \in Nat
  BY FindsAtTs, NodeFields
<1>2. keys = {node.intervals[n].key : n \in places}
  BY DEF FindAll
<1>3. keys \subseteq Nat /\ \A k \in keys : Matches(node, t, k) # {}
  BY <1>1, <1>2, NodeFields DEF Matches
<1>4. IsFiniteSet(keys)
  <2>1. IsFiniteSet(places)
    <3> DEFINE one == 1
               last == Len(node.intervals)
    <3>1. one \in Int /\ last \in Int /\ places \in SUBSET (one..last)
      BY <1>1
    <3> HIDE DEF one, last, places
    <3>2. IsFiniteSet(one..last)
      BY <3>1, FS_Interval
    <3>3. QED
      BY <3>1, <3>2, FS_Subset
  <2>2. keyAt \in Surjection(places, keys)
    BY <1>2 DEF Surjection
  <2> HIDE DEF places, keys, keyAt
  <2>3. QED
    BY <2>1, <2>2, FS_Surjection
<1>5. /\ DOMAIN more = DOMAIN intervals \cup keys
      /\ \A k \in DOMAIN more :
            more[k] = IF k \in DOMAIN intervals THEN intervals[k] ELSE FindOne(node, t, k)
      /\ more = [k \in DOMAIN more |-> more[k]]
  BY DEF FindAllInto
<1>6. \A interval \in FindAll(node, t) : interval.key \in keys
  OBVIOUS
<1> HIDE DEF keys
<1>7. \A k \in keys : /\ FindOne(node, t, k) \in FindAll(node, t)
                      /\ FindOne(node, t, k) \in Interval
                      /\ FindOne(node, t, k).key = k
  BY <1>3, MatchFound
<1>8. IsFiniteSet(DOMAIN more)
  <2>1. IsFiniteSet(DOMAIN intervals)
    BY DEF FiniteJar
  <2>2. IsFiniteSet((DOMAIN intervals) \cup keys)
    BY <1>4, <2>1, FS_Union
  <2>3. QED
    BY <1>5, <2>2
<1>9. IsJar(more)
  <2>1. IsJar(intervals)
    BY DEF FiniteJar
  <2>2. DOMAIN more \subseteq Nat
    BY <1>3, <1>5, <2>1 DEF IsJar
  <2>3. ASSUME NEW k \in DOMAIN more PROVE more[k] \in Interval /\ more[k].key = k
    BY <1>5, <1>7, <2>1 DEF IsJar
  <2>4. QED
    BY <2>2, <2>3 DEF IsJar
<1>10. QED
  BY <1>5, <1>6, <1>7, <1>8, <1>9 DEF FiniteJar

(***************************************************************************)
(* The types of the source's variables, with what they rest on: the nodes  *)
(* in the cache and in the buffer are nodes a sink has written, even those *)
(* of another file; a file that is opened has its header.                  *)
(***************************************************************************)
StreamRight ==
    /\ streamOpen \in BOOLEAN /\ failed \in BOOLEAN /\ opened \in BOOLEAN
    /\ opened => streamOpen
    /\ opened => header # NoHeader

RangeTyped == begin \in Int /\ end \in Int /\ nodeCount \in Nat /\ root \in Nat

BufferRight ==
    /\ buffer \in Range(file) \cup {NoNode} \/ ~opened
    /\ buffer # NoNode => SourceNode(buffer)

CacheRight ==
    /\ cacheSize \in Nat /\ Cardinality(DOMAIN cached) <= cacheSize
    /\ \A seq \in DOMAIN cached : SourceNode(cached[seq])

CallRight ==
    /\ pc \in {"idle", "opening", "findAll", "findOne", "undefined"}
    /\ pc # "idle" => opened
    /\ next \in Nat
    /\ outcome \in {"ok", "found", "none", "IO", "TimestampOutOfRange",
                    "UnknownIntervalType"}

QueryRight ==
    /\ ts \in QueryTimes \cup {0} /\ key \in Keys \cup {0}
    /\ FiniteJar(given) /\ FiniteJar(jar)
    /\ found \in Interval

SourceInv ==
    /\ StreamRight /\ RangeTyped /\ BufferRight /\ CacheRight
    /\ CallRight /\ QueryRight

LEMMA SourceInvTypes == SourceInv => TypeOK
BY DEF SourceInv, StreamRight, RangeTyped, BufferRight, CacheRight, CallRight,
       QueryRight, FiniteJar, TypeOK

LEMMA InitSourceInv == FileInit => SourceInv
<1> SUFFICES ASSUME Init PROVE SourceInv
  BY DEF FileInit
<1>1. StreamRight /\ RangeTyped /\ BufferRight /\ CallRight
  BY QueryAssumption DEF Init, StreamRight, RangeTyped, BufferRight, CallRight
<1>2. CacheRight
  <2>1. cacheSize = 0 /\ DOMAIN cached = {}
    BY DEF Init
  <2>2. QED
    BY <2>1, FS_EmptySet DEF CacheRight
<1>3. QueryRight
  <2>1. NoInterval \in Interval
    BY DEF NoInterval, Interval
  <2>2. QED
    BY <2>1, EmptyIsJar DEF Init, QueryRight
<1>4. QED
  BY <1>1, <1>2, <1>3 DEF SourceInv

\* What is not a step of the source leaves it alone, and the file it has opened:
\* a sink that has a history opened has no header in its file yet.
LEMMA OthersQuiet ==
    ASSUME P!SinkInv, opened => header # NoHeader,
           SinkStep \/ Crash \/ DestroySink \/ UNCHANGED vars
    PROVE  UNCHANGED sourceVars /\ (opened => UNCHANGED disk)
<1>1. CASE SinkStep
  BY <1>1 DEF SinkStep
<1>2. CASE Crash
  <2>1. ~opened
    <3>1. header # NoHeader => ~sinkOpened
      BY P!FileWhole, SinkAssumption, SameTypes
    <3>2. QED
      BY <1>2, <3>1 DEF Crash
  <2>2. QED
    BY <1>2, <2>1 DEF Crash
<1>3. CASE DestroySink \/ UNCHANGED vars
  BY <1>3 DEF DestroySink, vars
<1>4. QED
  BY <1>1, <1>2, <1>3

\* The nodes of a file are nodes a sink has written.
LEMMA FileNodes ==
    ASSUME P!SinkInv
    PROVE  \A seq \in DOMAIN file : SourceNode(file[seq])
BY DEF P!SinkInv, P!TreeInv, P!TypeInv, P!TypeOK, P!OrderInv, P!NodesOrdered, SourceNode

\* The header of a file is that of its tree.
LEMMA HeaderFields ==
    ASSUME P!SinkInv, header # NoHeader
    PROVE  /\ header.nodeCount \in Nat /\ header.root \in Nat
           /\ header.root \in DOMAIN file
           /\ DOMAIN file = 0..(header.nodeCount - 1)
           /\ file[header.root].begin = sinkBegin /\ file[header.root].end = sinkEnd
           /\ P!IsTree(file, header.root)
<1>1. header # P!NoHeader
  BY SameTypes
<1>2. QED
  BY <1>1, P!FileWhole, SinkAssumption DEF P!IsTree

LEMMA ReadNode ==
    ASSUME P!SinkInv, SourceInv, NodeRead(next) # NoNode
    PROVE  SourceNode(NodeRead(next))
BY FileNodes DEF SourceInv, BufferRight, NodeRead, ReadFails

LEMMA GotNode ==
    ASSUME P!SinkInv, SourceInv, FromCache \/ FromFile
    PROVE  SourceNode(Got)
<1>1. \/ next \in DOMAIN cached /\ Got = cached[next]
      \/ Got = NodeRead(next) /\ Got # NoNode
  BY GetsNode
<1>2. QED
  BY <1>1, ReadNode DEF SourceInv, CacheRight

\* What each step of the source does to its stream.
LEMMA NextStreamRight ==
    ASSUME P!SinkInv, SourceInv, Next PROVE StreamRight'
<1>1. StreamRight /\ UNCHANGED disk
  BY SourceWritesNothing DEF SourceInv
<1>2. CASE OpenFails
  BY <1>1, <1>2 DEF OpenFails, Throw, StreamRight
<1>3. CASE OpenTooSmall
  BY <1>1, <1>3 DEF OpenTooSmall, Throw, StreamRight
<1>4. CASE OpenBadMagic
  BY <1>1, <1>4 DEF OpenBadMagic, Throw, StreamRight
<1>5. ASSUME NEW choice \in CacheChoices, Open(choice) PROVE StreamRight'
  BY <1>1, <1>5 DEF Open, KnownMagic, StreamRight
<1>6. CASE Close \/ Destroy
  BY <1>1, <1>6 DEF Close, Destroy, StreamRight
<1>7. CASE QueryClosed \/ \E t \in QueryTimes : QueryOutOfRange(t)
  BY <1>1, <1>7 DEF QueryClosed, QueryOutOfRange, Throw, StreamRight
<1>8. ASSUME NEW t \in QueryTimes,
             \/ \E intervals \in {EmptyJar, jar} : StartFindAll(t, intervals)
             \/ \E k \in Keys : StartFindOne(t, k)
      PROVE  StreamRight'
  BY <1>1, <1>8 DEF StartFindAll, StartFindOne, Start, StreamRight
<1>9. CASE CallStep
  <2>1. UNCHANGED <<streamOpen, opened>>
    BY <1>9 DEF CallStep, GetRoot, VisitAll, VisitOne, VisitMissing, ReadUnknown, ReadGarbage
  <2>2. failed' \in BOOLEAN
    <3>1. failed' = failed \/ failed' = ReadFails(next)
      <4>1. FromCache \/ FromFile => failed' = failed \/ failed' = ReadFails(next)
        BY GetsNode
      <4>2. QED
        BY <1>9, <4>1 DEF CallStep, GetRoot, VisitAll, VisitOne, VisitMissing,
                          ReadUnknown, ReadGarbage, NotInFile
    <3>2. ReadFails(next) \in BOOLEAN
      BY DEF ReadFails
    <3>3. QED
      BY <1>1, <3>1, <3>2 DEF StreamRight
  <2>3. QED
    BY <1>1, <2>1, <2>2 DEF StreamRight
<1>10. QED
  BY <1>2, <1>3, <1>4, <1>5, <1>6, <1>7, <1>8, <1>9 DEF Next

LEMMA NextRangeTyped ==
    ASSUME P!SinkInv, SourceInv, Next PROVE RangeTyped'
<1>1. RangeTyped
  BY DEF SourceInv
<1>2. ASSUME NEW choice \in CacheChoices, Open(choice) PROVE RangeTyped'
  <2>1. header.nodeCount \in Nat /\ header.root \in Nat
    BY <1>2, HeaderFields DEF Open, KnownMagic
  <2>2. QED
    BY <1>1, <1>2, <2>1 DEF Open, RangeTyped
<1>3. CASE GetRoot
  <2>1. Got.begin \in Int /\ Got.end \in Int
    BY <1>3, GotNode, NodeFields DEF GetRoot
  <2>2. QED
    BY <1>1, <1>3, <2>1 DEF GetRoot, RangeTyped
<1>4. CASE Destroy
  BY <1>4, QueryAssumption DEF Destroy, RangeTyped
<1>5. CASE OpenFails \/ OpenTooSmall \/ OpenBadMagic \/ Close \/ QueryClosed
           \/ \E t \in QueryTimes : QueryOutOfRange(t)
  BY <1>1, <1>5 DEF OpenFails, OpenTooSmall, OpenBadMagic, Close, QueryClosed,
                    QueryOutOfRange, Throw, RangeTyped
<1>6. ASSUME NEW t \in QueryTimes,
             \/ \E intervals \in {EmptyJar, jar} : StartFindAll(t, intervals)
             \/ \E k \in Keys : StartFindOne(t, k)
      PROVE  RangeTyped'
  BY <1>1, <1>6 DEF StartFindAll, StartFindOne, Start, RangeTyped
<1>7. CASE VisitAll \/ VisitOne \/ VisitMissing \/ ReadUnknown \/ ReadGarbage
  BY <1>1, <1>7 DEF VisitAll, VisitOne, VisitMissing, ReadUnknown, ReadGarbage, RangeTyped
<1>8. QED
  BY <1>2, <1>3, <1>4, <1>5, <1>6, <1>7 DEF Next, CallStep

LEMMA NextBufferRight ==
    ASSUME P!SinkInv, SourceInv, Next PROVE BufferRight'
<1>1. BufferRight /\ UNCHANGED disk
  BY SourceWritesNothing DEF SourceInv
<1>2. ASSUME NEW choice \in CacheChoices, Open(choice) PROVE BufferRight'
  BY <1>2 DEF Open, BufferRight
<1>3. CASE Destroy
  BY <1>3 DEF Destroy, BufferRight
<1>4. CASE OpenFails \/ OpenTooSmall \/ OpenBadMagic \/ QueryClosed
           \/ \E t \in QueryTimes : QueryOutOfRange(t)
  BY <1>1, <1>4 DEF OpenFails, OpenTooSmall, OpenBadMagic, QueryClosed,
                    QueryOutOfRange, Throw, BufferRight
<1>5. CASE Close
  BY <1>1, <1>5 DEF Close, BufferRight
<1>6. ASSUME NEW t \in QueryTimes,
             \/ \E intervals \in {EmptyJar, jar} : StartFindAll(t, intervals)
             \/ \E k \in Keys : StartFindOne(t, k)
      PROVE  BufferRight'
  BY <1>1, <1>6 DEF StartFindAll, StartFindOne, Start, BufferRight
<1>7. CASE CallStep
  <2>1. buffer' = buffer \/ buffer' = NodeRead(next)
    <3>1. FromCache \/ FromFile => buffer' = buffer \/ buffer' = NodeRead(next)
      BY GetsNode
    <3>2. QED
      BY <1>7, <3>1 DEF CallStep, GetRoot, VisitAll, VisitOne, VisitMissing,
                        ReadUnknown, ReadGarbage, NotInFile
  <2>2. buffer' = buffer \/ (next \in DOMAIN file /\ buffer' = file[next])
    BY <2>1 DEF NodeRead, ReadFails
  <2>3. UNCHANGED opened
    BY <1>7 DEF CallStep, GetRoot, VisitAll, VisitOne, VisitMissing, ReadUnknown, ReadGarbage
  <2>4. QED
    BY <1>1, <2>2, <2>3, FileNodes DEF BufferRight, Range
<1>8. QED
  BY <1>2, <1>3, <1>4, <1>5, <1>6, <1>7 DEF Next

LEMMA NextCacheRight ==
    ASSUME P!SinkInv, SourceInv, Next PROVE CacheRight'
<1>1. CacheRight
  BY DEF SourceInv
<1>2. ASSUME NEW choice \in CacheChoices, Open(choice) PROVE CacheRight'
  <2>1. \/ cacheSize' \in Nat /\ cached' = <<>>
        \/ UNCHANGED <<cacheSize, cached>>
    <3>1. choice \in {"none", "new", "same"} /\ CacheSize \in Nat
      BY CacheAssumption
    <3>2. SetCache(choice)
      BY <1>2 DEF Open
    <3>3. CASE choice = "none"
      BY <3>2, <3>3 DEF SetCache
    <3>4. CASE choice = "new"
      BY <3>1, <3>2, <3>4 DEF SetCache
    <3>5. CASE choice = "same"
      BY <3>2, <3>5 DEF SetCache
    <3>6. QED
      BY <3>1, <3>3, <3>4, <3>5
  <2>2. CASE cacheSize' \in Nat /\ cached' = <<>>
    <3>1. DOMAIN cached' = {} /\ cacheSize' >= 0
      BY <2>2
    <3>2. QED
      BY <2>2, <3>1, FS_EmptySet DEF CacheRight
  <2>3. CASE UNCHANGED <<cacheSize, cached>>
    BY <1>1, <2>3 DEF CacheRight
  <2>4. QED
    BY <2>1, <2>2, <2>3
<1>3. CASE GetRoot \/ VisitAll \/ VisitOne
  <2>1. FromCache \/ FromFile
    BY <1>3 DEF GetRoot, VisitAll, VisitOne
  <2>2. UNCHANGED cacheSize
    BY <1>3 DEF GetRoot, VisitAll, VisitOne
  <2>3. SourceNode(Got)
    BY <2>1, GotNode
  <2>4. CASE UNCHANGED cached
    BY <1>1, <2>2, <2>4 DEF CacheRight
  <2>5. CASE cached' # cached
    <3>1. /\ DOMAIN cached' \subseteq DOMAIN cached \cup {next}
          /\ \A seq \in DOMAIN cached' :
                cached'[seq] = IF seq = next THEN Got ELSE cached[seq]
          /\ Cardinality(DOMAIN cached') <= cacheSize
      BY <2>1, <2>5, GetsNode
    <3>2. QED
      BY <1>1, <2>2, <2>3, <3>1 DEF CacheRight
  <2>6. QED
    BY <2>4, <2>5
<1>4. CASE VisitMissing \/ ReadUnknown \/ ReadGarbage
  <2>1. UNCHANGED <<cacheSize, cached>>
    BY <1>4 DEF VisitMissing, ReadUnknown, ReadGarbage, NotInFile, C!MissUnknown
  <2>2. QED
    BY <1>1, <2>1 DEF CacheRight
<1>5. CASE \/ OpenFails \/ OpenTooSmall \/ OpenBadMagic \/ QueryClosed \/ Close \/ Destroy
           \/ \E t \in QueryTimes : QueryOutOfRange(t)
  BY <1>1, <1>5 DEF OpenFails, OpenTooSmall, OpenBadMagic, QueryClosed,
                    QueryOutOfRange, Throw, Close, Destroy, CacheRight
<1>6. ASSUME NEW t \in QueryTimes,
             \/ \E intervals \in {EmptyJar, jar} : StartFindAll(t, intervals)
             \/ \E k \in Keys : StartFindOne(t, k)
      PROVE  CacheRight'
  BY <1>1, <1>6 DEF StartFindAll, StartFindOne, Start, CacheRight
<1>7. QED
  BY <1>2, <1>3, <1>4, <1>5, <1>6 DEF Next, CallStep

LEMMA NextCallRight ==
    ASSUME P!SinkInv, SourceInv, Next PROVE CallRight'
<1>1. CallRight /\ StreamRight
  BY DEF SourceInv
<1>2. ASSUME NEW choice \in CacheChoices, Open(choice) PROVE CallRight'
  <2>1. header.root \in Nat
    BY <1>2, HeaderFields DEF Open, KnownMagic
  <2>2. QED
    BY <1>1, <1>2, <2>1 DEF Open, CallRight
<1>3. CASE GetRoot
  BY <1>1, <1>3 DEF GetRoot, CallRight
<1>4. CASE VisitAll \/ VisitOne
  <2>1. SourceNode(Got)
    BY <1>4, GotNode DEF VisitAll, VisitOne
  <2>2. GetChildSeqAtTs(Got, ts) \in Nat
    BY <2>1, ChildAtTs DEF SourceNode
  <2>3. UNCHANGED opened
    BY <1>4 DEF VisitAll, VisitOne
  <2>4. \/ GoOn(Got)
        \/ Return(Added(jar')) \/ Return("found") \/ Return("none")
    BY <1>4 DEF VisitAll, VisitOne
  <2>5. Added(jar') \in {"found", "none"}
    BY DEF Added
  <2>6. QED
    BY <1>1, <2>2, <2>3, <2>4, <2>5 DEF GoOn, Return, CallRight
<1>5. CASE VisitMissing
  <2>1. Added(jar) \in {"found", "none"}
    BY DEF Added
  <2>2. QED
    BY <1>1, <1>5, <2>1 DEF VisitMissing, Return, CallRight
<1>6. CASE ReadUnknown
  BY <1>1, <1>6 DEF ReadUnknown, Return, CallRight
<1>7. CASE ReadGarbage
  BY <1>1, <1>7 DEF ReadGarbage, CallRight
<1>8. CASE Close \/ Destroy
  BY <1>1, <1>8 DEF Close, Destroy, CallRight
<1>9. CASE OpenFails \/ OpenTooSmall \/ OpenBadMagic \/ QueryClosed
           \/ \E t \in QueryTimes : QueryOutOfRange(t)
  BY <1>1, <1>9 DEF OpenFails, OpenTooSmall, OpenBadMagic, QueryClosed,
                    QueryOutOfRange, Throw, CallRight
<1>10. ASSUME NEW t \in QueryTimes,
             \/ \E intervals \in {EmptyJar, jar} : StartFindAll(t, intervals)
             \/ \E k \in Keys : StartFindOne(t, k)
      PROVE  CallRight'
  <2>1. root \in Nat
    BY DEF SourceInv, RangeTyped
  <2>2. QED
    BY <1>1, <1>10, <2>1 DEF StartFindAll, StartFindOne, Start, CallRight
<1>11. QED
  BY <1>2, <1>3, <1>4, <1>5, <1>6, <1>7, <1>8, <1>9, <1>10 DEF Next, CallStep

\* The timestamp of a query in progress, a number in any case.
LEMMA TsIsInt == SourceInv => ts \in Int /\ key \in Nat
BY QueryAssumption DEF SourceInv, QueryRight

LEMMA NextQueryRight ==
    ASSUME P!SinkInv, SourceInv, Next PROVE QueryRight'
<1>1. QueryRight
  BY DEF SourceInv
<1>2. FiniteJar(EmptyJar) /\ NoInterval \in Interval
  <2>1. NoInterval \in Interval
    BY DEF NoInterval, Interval
  <2>2. QED
    BY <2>1, EmptyIsJar
<1>3. CASE VisitAll
  <2>1. FiniteJar(jar')
    BY <1>1, <1>3, GotNode, TsIsInt, FoundInto DEF VisitAll, QueryRight
  <2>2. GoOn(Got) \/ Return(Added(jar'))
    BY <1>3 DEF VisitAll
  <2>3. UNCHANGED found
    BY <1>3 DEF VisitAll
  <2>4. QED
    BY <1>1, <1>2, <2>1, <2>2, <2>3 DEF GoOn, Return, QueryRight
<1>4. CASE VisitOne
  <2>1. found' = found \/ (Matches(Got, ts, key) # {} /\ found' = FindOne(Got, ts, key))
    BY <1>4 DEF VisitOne
  <2>2. SourceNode(Got) /\ ts \in Int
    BY <1>4, GotNode, TsIsInt DEF VisitOne
  <2>3. found' \in Interval
    BY <1>1, <2>1, <2>2, MatchFound DEF QueryRight
  <2>4. GoOn(Got) \/ Return("found") \/ Return("none")
    BY <1>4 DEF VisitOne
  <2>5. UNCHANGED jar
    BY <1>4 DEF VisitOne
  <2>6. QED
    BY <1>1, <1>2, <2>3, <2>4, <2>5 DEF GoOn, Return, QueryRight
<1>5. CASE VisitMissing \/ ReadUnknown
  BY <1>1, <1>2, <1>5 DEF VisitMissing, ReadUnknown, Return, QueryRight
<1>6. CASE Close \/ Destroy
  BY <1>1, <1>2, <1>6 DEF Close, Destroy, QueryRight
<1>7. ASSUME NEW t \in QueryTimes,
             \/ \E intervals \in {EmptyJar, jar} : StartFindAll(t, intervals)
             \/ \E k \in Keys : StartFindOne(t, k)
      PROVE  QueryRight'
  <2>1. ts' = t /\ key' \in Keys \cup {0}
    BY <1>1, <1>7 DEF StartFindAll, StartFindOne, Start, QueryRight
  <2>2. FiniteJar(given') /\ FiniteJar(jar') /\ found' \in Interval
    BY <1>1, <1>2, <1>7 DEF StartFindAll, StartFindOne, QueryRight
  <2>3. QED
    BY <2>1, <2>2 DEF QueryRight
<1>8. CASE OpenFails \/ OpenTooSmall \/ OpenBadMagic \/ QueryClosed
           \/ (\E t \in QueryTimes : QueryOutOfRange(t))
           \/ (\E choice \in CacheChoices : Open(choice))
           \/ GetRoot \/ ReadGarbage
  BY <1>1, <1>8 DEF OpenFails, OpenTooSmall, OpenBadMagic, QueryClosed,
                    QueryOutOfRange, Throw, Open, GetRoot, ReadGarbage, QueryRight
<1>9. QED
  BY <1>3, <1>4, <1>5, <1>6, <1>7, <1>8 DEF Next, CallStep

LEMMA NextSourceInv ==
    ASSUME P!SinkInv, SourceInv, [FileNext]_vars PROVE SourceInv'
<1>1. CASE SourceStep
  BY <1>1, NextStreamRight, NextRangeTyped, NextBufferRight, NextCacheRight,
     NextCallRight, NextQueryRight DEF SourceStep, SourceInv
<1>2. CASE SinkStep \/ Crash \/ DestroySink \/ UNCHANGED vars
  <2>1. UNCHANGED sourceVars /\ (opened => UNCHANGED disk)
    BY <1>2, OthersQuiet DEF SourceInv, StreamRight
  <2>2. StreamRight' /\ RangeTyped'
    BY <2>1 DEF sourceVars, SourceInv, StreamRight, RangeTyped
  <2>3. BufferRight' /\ CacheRight'
    BY <2>1 DEF sourceVars, SourceInv, BufferRight, CacheRight
  <2>4. CallRight' /\ QueryRight'
    BY <2>1 DEF sourceVars, SourceInv, CallRight, QueryRight
  <2>5. QED
    BY <2>2, <2>3, <2>4 DEF SourceInv
<1>3. QED
  BY <1>1, <1>2 DEF FileNext

\* The sink's history and the source's variables are sound.
FileInv == P!SinkInv /\ SourceInv

LEMMA FileInvariant == Spec => []FileInv
<1>1. FileInit => FileInv
  BY InitSinkInv, InitSourceInv DEF FileInv
<1>2. FileInv /\ [FileNext]_vars => FileInv'
  BY NextKeepsSinkInv, NextSourceInv DEF FileInv
<1>3. QED
  BY <1>1, <1>2, PTL DEF Spec

\* Whatever the two are made to do, each variable of the source has its type.
THEOREM SourceTypes == Spec => []TypeOK
<1>1. FileInv => TypeOK
  BY SourceInvTypes DEF FileInv
<1>2. QED
  BY <1>1, FileInvariant, PTL

\* A call that has failed leaves the source one that can be opened, except that a
\* file with a bad magic number stays open.
THEOREM StreamFollows == Spec => StreamFollowsOpened
<1> DEFINE Follows == \/ streamOpen' = opened'
                      \/ streamOpen' /\ ~opened /\ (streamOpen \/ (~TooSmall /\ ~KnownMagic))
<1>1. ASSUME FileInv, [FileNext]_vars PROVE Follows
  <2>1. /\ streamOpen \in BOOLEAN /\ opened \in BOOLEAN
        /\ opened => streamOpen
        /\ opened => header # NoHeader
    BY <1>1 DEF FileInv, SourceInv, StreamRight
  <2>2. CASE UNCHANGED <<streamOpen, opened>>
    BY <2>1, <2>2
  <2>3. CASE OpenBadMagic
    BY <2>1, <2>3 DEF OpenBadMagic, Throw
  <2>4. CASE (\E choice \in CacheChoices : Open(choice)) \/ Close \/ Destroy
    BY <2>4 DEF Open, Close, Destroy
  <2>5. CASE Next /\ ~OpenBadMagic /\ ~Close /\ ~Destroy
             /\ ~\E choice \in CacheChoices : Open(choice)
    <3>1. CallStep => UNCHANGED <<streamOpen, opened>>
      BY DEF CallStep, GetRoot, VisitAll, VisitOne, VisitMissing, ReadUnknown, ReadGarbage
    <3>2. UNCHANGED <<streamOpen, opened>>
      BY <2>5, <3>1 DEF Next, OpenFails, OpenTooSmall, QueryClosed, QueryOutOfRange,
                        Throw, StartFindAll, StartFindOne, Start
    <3>3. QED
      BY <2>2, <3>2
  <2>6. CASE SinkStep \/ Crash \/ DestroySink \/ UNCHANGED vars
    <3>1. UNCHANGED <<streamOpen, opened>>
      BY <2>1, <2>6, <1>1, OthersQuiet DEF FileInv, sourceVars
    <3>2. QED
      BY <2>2, <3>1
  <2>7. QED
    BY <1>1, <2>3, <2>4, <2>5, <2>6 DEF FileNext, SourceStep
<1>2. FileInv /\ [FileNext]_vars => [Follows]_vars
  BY <1>1
<1>3. QED
  BY <1>2, FileInvariant, PTL DEF Spec, StreamFollowsOpened

(***************************************************************************)
(* The answer so far of a findAll in progress, whatever the cache holds.   *)
(***************************************************************************)
Intersects(interval, t) == interval.begin <= t /\ t < interval.end

JarIntersects ==
    pc = "findAll" =>
        \A k \in DOMAIN jar \ DOMAIN given : Intersects(jar[k], ts)

LEMMA VisitIntersects ==
    ASSUME FileInv, JarIntersects, VisitAll
    PROVE  \A k \in DOMAIN jar' \ DOMAIN given : Intersects(jar'[k], ts)
<1>1. SourceNode(Got) /\ ts \in Int /\ pc = "findAll"
  BY GotNode, TsIsInt DEF FileInv, VisitAll
<1>2. FiniteJar(jar) /\ jar' = FindAllInto(Got, ts, jar)
  BY DEF FileInv, SourceInv, QueryRight, VisitAll
<1>3. /\ \A k \in DOMAIN jar : jar'[k] = jar[k]
      /\ \A k \in DOMAIN jar' \ DOMAIN jar : jar'[k] \in FindAll(Got, ts)
  BY <1>1, <1>2, FoundInto
<1>4. \A interval \in FindAll(Got, ts) : Intersects(interval, ts)
  BY <1>1, FindsAtTs DEF Intersects
<1>5. QED
  BY <1>1, <1>3, <1>4 DEF JarIntersects

LEMMA NextJarIntersects ==
    ASSUME FileInv, JarIntersects, [FileNext]_vars PROVE JarIntersects'
<1> SUFFICES ASSUME pc' = "findAll"
             PROVE  \A k \in DOMAIN jar' \ DOMAIN given' : Intersects(jar'[k], ts')
  BY DEF JarIntersects
<1>1. CASE VisitAll
  <2>1. GoOn(Got)
    BY <1>1 DEF VisitAll, Return
  <2>2. UNCHANGED <<ts, given>>
    BY <2>1 DEF GoOn
  <2>3. QED
    BY <1>1, <2>2, VisitIntersects
<1>2. ASSUME NEW t \in QueryTimes, NEW intervals, StartFindAll(t, intervals)
      PROVE  \A k \in DOMAIN jar' \ DOMAIN given' : Intersects(jar'[k], ts')
  BY <1>2 DEF StartFindAll
<1>3. CASE UNCHANGED <<pc, ts, given, jar>>
  BY <1>3 DEF JarIntersects
<1>4. ASSUME Next, ~VisitAll,
             ~\E t \in QueryTimes :
                 \E intervals \in {EmptyJar, jar} : StartFindAll(t, intervals)
      PROVE  UNCHANGED <<pc, ts, given, jar>>
  <2>1. CASE CallStep
    BY <1>4, <2>1 DEF CallStep, GetRoot, VisitOne, VisitMissing, ReadUnknown, ReadGarbage,
                      GoOn, Return
  <2>2. CASE Next /\ ~CallStep
    BY <1>4, <2>2 DEF Next, OpenFails, OpenTooSmall, OpenBadMagic, Throw, Open, Close,
                      Destroy, QueryClosed, QueryOutOfRange, StartFindOne, Start
  <2>3. QED
    BY <1>4, <2>1, <2>2
<1>5. CASE SinkStep \/ Crash \/ DestroySink \/ UNCHANGED vars
  <2>1. UNCHANGED <<pc, ts, given, jar>>
    BY <1>5, OthersQuiet DEF FileInv, SourceInv, StreamRight, sourceVars
  <2>2. QED
    BY <1>3, <2>1
<1>6. QED
  BY <1>1, <1>2, <1>3, <1>4, <1>5 DEF FileNext, SourceStep

\* Even with a cache that another file has filled, what a findAll has added when it
\* returns or throws intersects the timestamp.
THEOREM FoundIntersect == Spec => FoundIntersects
<1> DEFINE Returned == pc = "findAll" /\ pc' = "idle" =>
                          \A k \in DOMAIN jar' \ DOMAIN given :
                              jar'[k].begin <= ts /\ ts < jar'[k].end
<1>1. ASSUME FileInv, JarIntersects, [FileNext]_vars PROVE Returned
  <2> SUFFICES ASSUME pc = "findAll", pc' = "idle"
               PROVE  \A k \in DOMAIN jar' \ DOMAIN given :
                          jar'[k].begin <= ts /\ ts < jar'[k].end
    OBVIOUS
  <2>1. CASE VisitAll
    BY <1>1, <2>1, VisitIntersects DEF Intersects
  <2>2. CASE UNCHANGED jar
    BY <1>1, <2>2 DEF JarIntersects, Intersects
  <2>3. ASSUME Next, ~VisitAll PROVE UNCHANGED jar
    <3>1. pc # "idle"
      OBVIOUS
    <3>2. CASE CallStep
      BY <2>3, <3>2 DEF CallStep, GetRoot, VisitOne, VisitMissing, ReadUnknown, ReadGarbage
    <3>3. CASE ~CallStep
      BY <2>3, <3>1, <3>3 DEF Next, OpenFails, OpenTooSmall, OpenBadMagic, Throw, Open, Close,
                      Destroy, QueryClosed, QueryOutOfRange, StartFindAll, StartFindOne, Start
    <3>4. QED
      BY <3>2, <3>3
  <2>4. CASE SinkStep \/ Crash \/ DestroySink \/ UNCHANGED vars
    BY <1>1, <2>2, <2>4, OthersQuiet DEF FileInv, SourceInv, StreamRight, sourceVars
  <2>5. QED
    BY <1>1, <2>1, <2>2, <2>3, <2>4 DEF FileNext, SourceStep
<1>2. FileInit => JarIntersects
  BY DEF FileInit, Init, JarIntersects
<1>3. FileInv /\ JarIntersects /\ [FileNext]_vars => JarIntersects'
  BY NextJarIntersects
<1>4. FileInv /\ JarIntersects /\ [FileNext]_vars => [Returned]_vars
  BY <1>1
<1>5. QED
  BY <1>2, <1>3, <1>4, FileInvariant, PTL DEF Spec, FoundIntersects

(***************************************************************************)
(* A source none of whose caches is given to it a second time: its cache   *)
(* holds nodes of the file it has opened, and each node it needs is there. *)
(***************************************************************************)
SourceSees ==
    opened =>
        /\ nodeCount = header.nodeCount /\ root = header.root
        /\ failed = FALSE
        /\ \A seq \in DOMAIN cached :
              /\ seq \in DOMAIN file /\ cached[seq] = file[seq]
              /\ Creatable(file[seq])
        /\ pc # "idle" => next \in DOMAIN file
        /\ pc = "opening" => next = header.root
        /\ pc # "undefined"

\* What the source has opened is a tree.
LEMMA OpenedFile ==
    ASSUME FileInv, opened
    PROVE  /\ header # NoHeader
           /\ P!IsTree(file, header.root)
           /\ header.root \in DOMAIN file
           /\ header.nodeCount \in Nat
           /\ DOMAIN file = 0..(header.nodeCount - 1)
           /\ file[header.root].begin = sinkBegin /\ file[header.root].end = sinkEnd
BY HeaderFields DEF FileInv, SourceInv, StreamRight

\* The node a call gets is the one in the file.
LEMMA GotIsInFile ==
    ASSUME FileInv, SourceSees, pc # "idle", FromCache \/ FromFile
    PROVE  /\ Got = file[next] /\ next \in DOMAIN file /\ Creatable(file[next])
           /\ UNCHANGED failed
           /\ \A seq \in DOMAIN cached' :
                 /\ seq \in DOMAIN file /\ cached'[seq] = file[seq]
                 /\ Creatable(file[seq])
<1>1. opened
  BY DEF FileInv, SourceInv, CallRight
<1>2. /\ failed = FALSE /\ next \in DOMAIN file
      /\ \A seq \in DOMAIN cached : /\ seq \in DOMAIN file /\ cached[seq] = file[seq]
                                    /\ Creatable(file[seq])
  BY <1>1 DEF SourceSees
<1>3. ReadFails(next) = FALSE /\ NodeRead(next) = file[next]
  BY <1>2 DEF ReadFails, NodeRead
<1>4. CASE next \in DOMAIN cached
  <2>1. Got = cached[next] /\ UNCHANGED <<cached, failed>>
    BY <1>4, GetsNode
  <2>2. QED
    BY <1>2, <1>4, <2>1
<1>5. CASE next \notin DOMAIN cached
  <2>1. /\ Got = NodeRead(next) /\ Creatable(Got)
        /\ failed' = ReadFails(next)
        /\ DOMAIN cached' \subseteq DOMAIN cached \cup {next}
        /\ \A seq \in DOMAIN cached' :
              cached'[seq] = IF seq = next THEN Got ELSE cached[seq]
    BY <1>5, GetsNode
  <2>2. QED
    BY <1>2, <1>3, <2>1
<1>6. QED
  BY <1>4, <1>5

\* Going down from a node of a tree leads to one of its nodes.
LEMMA ChildIsInFile ==
    ASSUME NEW top, P!IsTree(file, top), NEW seq \in DOMAIN file, NEW t
    PROVE  /\ GetChildSeqAtTs(file[seq], t) \in DOMAIN file
           /\ file[seq].seq = seq
<1>1. /\ file[seq].seq = seq /\ file[seq] \in P!WrittenNode
      /\ \A k \in 1..Len(file[seq].children) : file[seq].children[k].seq \in DOMAIN file
  BY DEF P!IsTree, P!SoundNode, P!Edge
<1>2. QED
  BY <1>1, ChildAtTs

\* No call asks for a node that cannot be there or has never been read.
LEMMA NodesAreFound ==
    ASSUME FileInv, SourceSees, pc # "idle"
    PROVE  /\ ~VisitMissing /\ ~ReadGarbage
           /\ ReadUnknown => /\ ~Creatable(file[next]) /\ next \in DOMAIN file
                             /\ UNCHANGED <<failed, cached>>
<1>1. opened /\ P!SinkInv
  BY DEF FileInv, SourceInv, CallRight
<1>2. /\ header.nodeCount \in Nat
      /\ DOMAIN file = 0..(header.nodeCount - 1)
  BY <1>1, OpenedFile
<1>3. /\ failed = FALSE /\ next \in DOMAIN file /\ nodeCount = header.nodeCount
  BY <1>1 DEF SourceSees
<1>4. ReadFails(next) = FALSE /\ NodeRead(next) = file[next] /\ MayExist(next)
  BY <1>2, <1>3 DEF ReadFails, NodeRead, MayExist
<1>5. file[next] # NoNode
  <2>1. file[next] \in Sink!WrittenNode
    BY <1>1, <1>3, FileNodes, SameTypes DEF SourceNode
  <2>2. QED
    BY <2>1, NoNodeAssumption
<1>6. QED
  BY <1>3, <1>4, <1>5 DEF VisitMissing, NotInFile, ReadGarbage, ReadUnknown

LEMMA NextSourceSees ==
    ASSUME "same" \notin CacheChoices, FileInv, SourceSees, [FileNext]_vars
    PROVE  SourceSees'
<1>1. P!SinkInv /\ opened \in BOOLEAN /\ failed \in BOOLEAN /\ (pc # "idle" => opened)
  BY DEF FileInv, SourceInv, StreamRight, CallRight
<1>2. CASE ~opened'
  BY <1>2 DEF SourceSees
<1>3. ASSUME NEW choice \in CacheChoices, Open(choice), UNCHANGED disk
      PROVE  SourceSees'
  <2>1. header.root \in DOMAIN file
    BY <1>1, <1>3, HeaderFields DEF Open, KnownMagic
  <2>2. cached' = <<>>
    <3>1. choice = "none" \/ choice = "new"
      BY CacheAssumption
    <3>2. SetCache(choice)
      BY <1>3 DEF Open
    <3>3. CASE choice = "none"
      BY <3>2, <3>3 DEF SetCache
    <3>4. CASE choice = "new"
      BY <3>2, <3>4 DEF SetCache
    <3>5. QED
      BY <3>1, <3>3, <3>4
  <2>3. DOMAIN cached' = {}
    BY <2>2
  <2>4. QED
    BY <1>3, <2>1, <2>3 DEF Open, SourceSees
<1>4. ASSUME opened, pc = "idle", pc' = "idle",
             UNCHANGED <<disk, opened, nodeCount, root, failed, cached>>
      PROVE  SourceSees'
  BY <1>4 DEF SourceSees
<1>5. CASE OpenFails \/ QueryClosed \/ \E t \in QueryTimes : QueryOutOfRange(t)
  <2>1. pc = "idle" /\ pc' = "idle" /\ UNCHANGED <<disk, opened, nodeCount, root, cached>>
    BY <1>5 DEF OpenFails, QueryClosed, QueryOutOfRange, Throw
  <2>2. ASSUME opened PROVE UNCHANGED failed
    BY <1>1, <1>5, <2>2 DEF OpenFails, QueryClosed, QueryOutOfRange
  <2>3. QED
    BY <1>1, <1>2, <1>4, <2>1, <2>2
<1>6. CASE OpenTooSmall \/ OpenBadMagic \/ Close \/ Destroy
  <2>1. ~opened'
    BY <1>6 DEF OpenTooSmall, OpenBadMagic, Throw, Close, Destroy
  <2>2. QED
    BY <1>2, <2>1
<1>7. ASSUME NEW t \in QueryTimes,
             \/ \E intervals \in {EmptyJar, jar} : StartFindAll(t, intervals)
             \/ \E k \in Keys : StartFindOne(t, k)
      PROVE  SourceSees'
  <2>1. Start(t) /\ pc' \in {"findAll", "findOne"}
    BY <1>7 DEF StartFindAll, StartFindOne
  <2>2. opened /\ next' = root
        /\ UNCHANGED <<disk, opened, nodeCount, root, failed, cached>>
    BY <2>1 DEF Start
  <2>3. header.root \in DOMAIN file
    BY <2>2, OpenedFile
  <2>4. QED
    BY <2>1, <2>2, <2>3 DEF SourceSees
<1>8. CASE GetRoot \/ VisitAll \/ VisitOne
  <2>1. /\ pc # "idle" /\ (FromCache \/ FromFile)
        /\ UNCHANGED <<disk, opened, nodeCount, root>>
    BY <1>8 DEF GetRoot, VisitAll, VisitOne
  <2>2. /\ Got = file[next] /\ next \in DOMAIN file
        /\ UNCHANGED failed
        /\ \A seq \in DOMAIN cached' :
              /\ seq \in DOMAIN file /\ cached'[seq] = file[seq]
              /\ Creatable(file[seq])
    BY <2>1, GotIsInFile
  <2>3. /\ opened /\ nodeCount = header.nodeCount /\ root = header.root /\ failed = FALSE
    BY <1>1, <2>1 DEF SourceSees
  <2>4. \/ pc' = "idle"
        \/ pc' \in {"findAll", "findOne"} /\ next' = GetChildSeqAtTs(Got, ts)
    BY <1>8 DEF GetRoot, VisitAll, VisitOne, GoOn, Return
  <2>5. pc' # "idle" => next' \in DOMAIN file
    BY <2>2, <2>3, <2>4, OpenedFile, ChildIsInFile
  <2>6. QED
    BY <2>1, <2>2, <2>3, <2>4, <2>5 DEF SourceSees
<1>9. CASE VisitMissing \/ ReadUnknown \/ ReadGarbage
  <2>1. pc # "idle"
    BY <1>9 DEF VisitMissing, ReadUnknown, ReadGarbage
  <2>2. ReadUnknown /\ UNCHANGED <<failed, cached>>
    BY <1>9, <2>1, NodesAreFound
  <2>3. pc' = "idle" /\ UNCHANGED <<disk, opened, nodeCount, root>>
    BY <2>2 DEF ReadUnknown, Return
  <2>4. QED
    BY <1>1, <2>1, <2>2, <2>3 DEF SourceSees
<1>10. CASE SinkStep \/ Crash \/ DestroySink \/ UNCHANGED vars
  <2>1. UNCHANGED sourceVars /\ (opened => UNCHANGED disk)
    BY <1>10, OthersQuiet DEF FileInv, SourceInv, StreamRight
  <2>2. QED
    BY <2>1 DEF sourceVars, SourceSees
<1>11. Next => UNCHANGED disk
  BY SourceWritesNothing
<1>12. QED
  BY <1>3, <1>5, <1>6, <1>7, <1>8, <1>9, <1>10, <1>11 DEF FileNext, SourceStep, Next, CallStep

\* Without a cache given again.
SeesInv == FileInv /\ SourceSees

LEMMA SeesInvariant ==
    ASSUME "same" \notin CacheChoices
    PROVE  Spec => []SeesInv
<1>1. FileInit => SourceSees
  BY DEF FileInit, Init, SourceSees
<1>2. FileInv /\ SourceSees /\ [FileNext]_vars => SourceSees'
  BY NextSourceSees
<1>3. QED
  BY <1>1, <1>2, FileInvariant, PTL DEF Spec, SeesInv

\* A source whose caches are its own only reads nodes that are in its file: a call
\* never breaks the stream or uses bytes it has not read, whenever
\* the sink writes, crashes or is closed.
THEOREM NodesThere ==
    ASSUME "same" \notin CacheChoices
    PROVE  Spec => []NodesAreThere
<1>1. SeesInv => NodesAreThere
  <2>1. SeesInv => (pc = "undefined" => opened)
    BY DEF SeesInv, FileInv, SourceInv, CallRight
  <2>2. QED
    BY <2>1 DEF SeesInv, SourceSees, NodesAreThere
<1>2. QED
  BY <1>1, SeesInvariant, PTL

\* A sink does nothing to a history that a source has opened.
LEMMA HistoryStays ==
    ASSUME FileInv, opened, [FileNext]_vars
    PROVE  UNCHANGED disk /\ UNCHANGED <<sinkBegin, sinkEnd>>
<1>1. P!SinkInv /\ header # P!NoHeader /\ (opened => header # NoHeader)
  BY SameTypes DEF FileInv, SourceInv, StreamRight
<1>2. CASE SinkStep
  <2>1. P!Next /\ disk' = disk
    BY <1>2, SameSinkNext DEF SinkStep
  <2>2. P!disk' = P!disk
    BY <2>1 DEF P!disk
  <2>3. P!SameTree
    BY <1>1, <2>1, <2>2, P!SinkQuiet, SinkAssumption
  <2>4. QED
    BY <2>1, <2>3 DEF P!SameTree
<1>3. CASE SourceStep
  BY <1>3, SourceWritesNothing DEF SourceStep, sinkVars
<1>4. CASE Crash
  <2>1. ~sinkOpened
    BY <1>1, P!FileWhole, SinkAssumption
  <2>2. QED
    BY <1>4, <2>1 DEF Crash
<1>5. CASE DestroySink \/ UNCHANGED vars
  BY <1>5 DEF DestroySink, vars, sinkVars
<1>6. QED
  BY <1>2, <1>3, <1>4, <1>5 DEF FileNext

LEMMA NextRange ==
    ASSUME SeesInv, RangeIsHistorys, [FileNext]_vars PROVE RangeIsHistorys'
<1>1. FileInv /\ SourceSees
  BY DEF SeesInv
<1>2. CASE ~opened'
  BY <1>2 DEF RangeIsHistorys
<1>3. ASSUME opened, pc # "opening", UNCHANGED <<begin, end>> PROVE RangeIsHistorys'
  <2>1. UNCHANGED disk /\ UNCHANGED <<sinkBegin, sinkEnd>>
    BY <1>1, <1>3, HistoryStays
  <2>2. RootCreatable' = RootCreatable
    BY <2>1 DEF RootCreatable, Creatable
  <2>3. RootCreatable => begin = sinkBegin /\ end = sinkEnd
    BY <1>3 DEF RangeIsHistorys
  <2>4. QED
    BY <1>3, <2>1, <2>2, <2>3 DEF RangeIsHistorys
<1>4. CASE pc' = "opening"
  BY <1>4 DEF RangeIsHistorys
<1>5. CASE GetRoot
  <2>1. /\ pc = "opening" /\ (FromCache \/ FromFile) /\ begin' = Got.begin /\ end' = Got.end
    BY <1>5 DEF GetRoot
  <2>2. opened /\ next = header.root
    BY <1>1, <2>1 DEF FileInv, SourceInv, CallRight, SourceSees
  <2>3. UNCHANGED disk /\ UNCHANGED <<sinkBegin, sinkEnd>>
    BY <1>1, <2>2, HistoryStays
  <2>4. Got = file[header.root]
    BY <1>1, <2>1, <2>2, GotIsInFile
  <2>5. begin' = sinkBegin' /\ end' = sinkEnd'
    BY <1>1, <2>1, <2>2, <2>3, <2>4, OpenedFile
  <2>6. QED
    BY <2>5 DEF RangeIsHistorys
<1>6. CASE VisitMissing \/ ReadUnknown \/ ReadGarbage
  <2>1. pc # "idle"
    BY <1>6 DEF VisitMissing, ReadUnknown, ReadGarbage
  <2>2. ReadUnknown /\ ~Creatable(file[next])
    BY <1>1, <1>6, <2>1, NodesAreFound
  <2>3. opened /\ (pc = "opening" => next = header.root)
    BY <1>1, <2>1 DEF FileInv, SourceInv, CallRight, SourceSees
  <2>4. UNCHANGED disk
    BY <1>1, <2>3, HistoryStays
  <2>5. CASE pc = "opening"
    <3>1. ~RootCreatable'
      BY <2>2, <2>3, <2>4, <2>5 DEF RootCreatable, Creatable
    <3>2. QED
      BY <3>1 DEF RangeIsHistorys
  <2>6. CASE pc # "opening"
    BY <1>3, <2>2, <2>3, <2>6 DEF ReadUnknown
  <2>7. QED
    BY <2>5, <2>6
<1>7. CASE \E choice \in CacheChoices : Open(choice)
  BY <1>4, <1>7 DEF Open
<1>8. CASE OpenTooSmall \/ OpenBadMagic \/ Close \/ Destroy
  BY <1>2, <1>8 DEF OpenTooSmall, OpenBadMagic, Throw, Close, Destroy
<1>9. CASE OpenFails \/ QueryClosed \/ \E t \in QueryTimes : QueryOutOfRange(t)
  BY <1>2, <1>3, <1>9 DEF OpenFails, QueryClosed, QueryOutOfRange, Throw
<1>10. ASSUME NEW t \in QueryTimes,
              \/ \E intervals \in {EmptyJar, jar} : StartFindAll(t, intervals)
              \/ \E k \in Keys : StartFindOne(t, k)
       PROVE  RangeIsHistorys'
  BY <1>3, <1>10 DEF StartFindAll, StartFindOne, Start
<1>11. CASE VisitAll \/ VisitOne
  <2>1. opened
    BY <1>1, <1>11 DEF VisitAll, VisitOne, FileInv, SourceInv, CallRight
  <2>2. QED
    BY <1>3, <1>11, <2>1 DEF VisitAll, VisitOne
<1>12. CASE SinkStep \/ Crash \/ DestroySink \/ UNCHANGED vars
  <2>1. UNCHANGED sourceVars
    BY <1>1, <1>12, OthersQuiet DEF FileInv, SourceInv, StreamRight
  <2>2. UNCHANGED <<opened, pc, begin, end>>
    BY <2>1 DEF sourceVars
  <2>3. QED
    BY <1>2, <1>3, <1>4, <2>2
<1>13. QED
  BY <1>5, <1>6, <1>7, <1>8, <1>9, <1>10, <1>11, <1>12 DEF FileNext, SourceStep, Next, CallStep

\* A source that has been opened has the range of the history its file holds.
THEOREM RangeRight ==
    ASSUME "same" \notin CacheChoices
    PROVE  Spec => []RangeIsHistorys
<1>1. FileInit => RangeIsHistorys
  BY DEF FileInit, Init, RangeIsHistorys
<1>2. SeesInv /\ RangeIsHistorys /\ [FileNext]_vars => RangeIsHistorys'
  BY NextRange
<1>3. QED
  BY <1>1, <1>2, SeesInvariant, PTL DEF Spec

(***************************************************************************)
(* A query in progress: the nodes visited are a part of the path of its    *)
(* timestamp, from the root to the node it needs now.                      *)
(***************************************************************************)
Walked(nodes, top, at, visited, t) ==
    /\ visited \subseteq DOMAIN nodes
    /\ top \in visited \cup {at}
    /\ \A seq \in visited : GetChildSeqAtTs(nodes[seq], t) \in visited \cup {at}

LEMMA WalkGoesOn ==
    ASSUME NEW nodes, NEW top, NEW at \in DOMAIN nodes, NEW visited, NEW t,
           Walked(nodes, top, at, visited, t)
    PROVE  Walked(nodes, top, GetChildSeqAtTs(nodes[at], t), visited \cup {at}, t)
BY DEF Walked

\* A walk that ends where there is no child at the timestamp has met each interval.
LEMMA WalkEnds ==
    ASSUME NEW nodes, NEW top, P!IsTree(nodes, top), NEW at \in DOMAIN nodes,
           NEW visited, NEW t \in Int, Walked(nodes, top, at, visited, t),
           GetChildSeqAtTs(nodes[at], t) = at,
           NEW interval \in P!StoredAt(nodes, t)
    PROVE  \E seq \in visited \cup {at} : interval \in FindAll(nodes[seq], t)
<1> DEFINE met == visited \cup {at}
<1>1. PICK seq \in DOMAIN nodes : /\ P!Covers(nodes[seq], t)
                                  /\ interval \in P!FindAll(nodes[seq], t)
  BY P!StoredWhereCovered, SinkAssumption
<1>2. top \in met
  BY DEF Walked
<1>3. \A n \in DOMAIN nodes \cap met : P!GetChildSeqAtTs(nodes[n], t) \in met
  BY SameQueries DEF Walked
<1> HIDE DEF met
<1>4. seq \in met
  BY <1>1, <1>2, <1>3, P!PathIsVisited, SinkAssumption
<1>5. QED
  BY <1>1, <1>4, SameQueries DEF met

LEMMA FoundIsStored ==
    ASSUME NEW nodes, NEW top, P!IsTree(nodes, top), NEW seq \in DOMAIN nodes,
           NEW t \in Int
    PROVE  FindAll(nodes[seq], t) \subseteq P!StoredAt(nodes, t)
<1>1. P!FindAll(nodes[seq], t) =
         {interval \in P!Range(nodes[seq].intervals) :
             interval.begin <= t /\ t < interval.end}
  BY P!NodeFindsAtTs, SinkAssumption
<1>2. QED
  BY <1>1, SameQueries DEF P!StoredAt

\* What the file that is opened holds.
LEMMA OpenedContents ==
    ASSUME FileInv, opened
    PROVE  /\ \A t : At(t) = P!StoredAt(file, t)
           /\ Sink!Contents = UNION {P!Range(file[seq].intervals) : seq \in DOMAIN file}
<1>1. header # P!NoHeader /\ P!SinkInv
  BY SameTypes DEF FileInv, SourceInv, StreamRight
<1>2. /\ \A t : P!H!At(t) = P!StoredAt(file, t)
      /\ P!Contents = UNION {P!Range(file[seq].intervals) : seq \in DOMAIN file}
  BY <1>1, P!FileWhole, SinkAssumption
<1>3. QED
  BY <1>2, SameContents DEF At

\* A node that cannot be created has an interval of the program's own type.
LEMMA UnknownIsStored ==
    ASSUME FileInv, opened, NEW seq \in DOMAIN file, ~Creatable(file[seq])
    PROVE  \E interval \in Sink!Contents : interval.key \in CustomKeys
<1>1. PICK k \in 1..Len(file[seq].intervals) : file[seq].intervals[k].key \in CustomKeys
  BY DEF Creatable
<1>2. SourceNode(file[seq])
  BY FileNodes DEF FileInv
<1>3. file[seq].intervals[k] \in P!Range(file[seq].intervals)
  <2>1. DOMAIN file[seq].intervals = 1..Len(file[seq].intervals)
    BY <1>2, NodeFields
  <2>2. QED
    BY <1>1, <2>1 DEF P!Range
<1>4. QED
  BY <1>1, <1>3, OpenedContents

(***************************************************************************)
(* findAll.                                                                *)
(***************************************************************************)
OnlyStored(nodes, old, intervals, t) ==
    /\ \A k \in DOMAIN old : k \in DOMAIN intervals /\ intervals[k] = old[k]
    /\ \A k \in DOMAIN intervals \ DOMAIN old : intervals[k] \in P!StoredAt(nodes, t)

HasKeys(nodes, visited, intervals, t) ==
    \A seq \in visited : \A interval \in FindAll(nodes[seq], t) :
        interval.key \in DOMAIN intervals

FindAllInv ==
    pc = "findAll" =>
        /\ OnlyStored(file, given, jar, ts)
        /\ \E visited : /\ Walked(file, header.root, next, visited, ts)
                        /\ HasKeys(file, visited, jar, ts)

LEMMA VisitAllFinds ==
    ASSUME SeesInv, FindAllInv, VisitAll
    PROVE  /\ Got = file[next] /\ next \in DOMAIN file /\ file[next].seq = next
           /\ FiniteJar(jar') /\ FiniteJar(given)
           /\ OnlyStored(file, given, jar', ts)
           /\ \E visited : /\ Walked(file, header.root, next, visited, ts)
                           /\ HasKeys(file, visited \cup {next}, jar', ts)
<1>1. /\ pc = "findAll" /\ (FromCache \/ FromFile) /\ jar' = FindAllInto(Got, ts, jar)
  BY DEF VisitAll
<1>2. FileInv /\ SourceSees /\ opened /\ ts \in Int
  BY <1>1, TsIsInt DEF SeesInv, FileInv, SourceInv, CallRight
<1>3. Got = file[next] /\ next \in DOMAIN file
  BY <1>1, <1>2, GotIsInFile
<1>4. P!IsTree(file, header.root)
  BY <1>2, OpenedFile
<1>5. file[next].seq = next
  BY <1>3, <1>4, ChildIsInFile
<1>6. SourceNode(file[next])
  BY <1>2, <1>3, FileNodes DEF FileInv
<1>7. FiniteJar(jar) /\ FiniteJar(given)
  BY <1>2 DEF FileInv, SourceInv, QueryRight
<1>8. /\ FiniteJar(jar')
      /\ \A k \in DOMAIN jar : k \in DOMAIN jar' /\ jar'[k] = jar[k]
      /\ \A k \in DOMAIN jar' \ DOMAIN jar : jar'[k] \in FindAll(file[next], ts)
      /\ \A interval \in FindAll(file[next], ts) : interval.key \in DOMAIN jar'
  BY <1>1, <1>2, <1>3, <1>6, <1>7, FoundInto
<1>9. FindAll(file[next], ts) \subseteq P!StoredAt(file, ts)
  BY <1>2, <1>3, <1>4, FoundIsStored
<1>10. OnlyStored(file, given, jar', ts)
  BY <1>1, <1>8, <1>9 DEF FindAllInv, OnlyStored
<1>11. PICK visited : /\ Walked(file, header.root, next, visited, ts)
                      /\ HasKeys(file, visited, jar, ts)
  BY <1>1 DEF FindAllInv
<1>12. HasKeys(file, visited \cup {next}, jar', ts)
  BY <1>8, <1>11 DEF HasKeys
<1>13. QED
  BY <1>3, <1>5, <1>7, <1>8, <1>10, <1>11, <1>12

\* What every call but a visit of findAll leaves of it.
LEMMA OthersKeepFindAll ==
    ASSUME FileInv, SourceSees, [FileNext]_vars, ~(SourceStep /\ VisitAll), pc = "findAll"
    PROVE  \/ UNCHANGED <<disk, pc, next, ts, given, jar>>
           \/ ReadUnknown /\ ~Creatable(file[next]) /\ next \in DOMAIN file
<1>1. opened /\ pc # "idle"
  BY DEF FileInv, SourceInv, CallRight
<1>2. CASE SourceStep
  <2>1. CASE CallStep
    <3>1. ReadUnknown
      BY <1>1, <1>2, <2>1, NodesAreFound DEF SourceStep, CallStep, GetRoot, VisitOne
    <3>2. QED
      BY <1>1, <3>1, NodesAreFound
  <2>2. CASE ~CallStep
    <3>1. Next
      BY <1>2 DEF SourceStep
    <3>2. FALSE
      BY <1>1, <2>2, <3>1 DEF Next, OpenFails, OpenTooSmall, OpenBadMagic, Throw, Open, Close,
                      Destroy, QueryClosed, QueryOutOfRange, StartFindAll, StartFindOne, Start
    <3>3. QED
      BY <3>2
  <2>3. QED
    BY <2>1, <2>2
<1>3. CASE SinkStep \/ Crash \/ DestroySink \/ UNCHANGED vars
  BY <1>1, <1>3, OthersQuiet DEF FileInv, SourceInv, StreamRight, sourceVars
<1>4. QED
  BY <1>2, <1>3 DEF FileNext

LEMMA NextFindAllInv ==
    ASSUME SeesInv, FindAllInv, [FileNext]_vars PROVE FindAllInv'
<1> SUFFICES ASSUME pc' = "findAll" PROVE FindAllInv'
  BY DEF FindAllInv
<1>1. FileInv /\ SourceSees
  BY DEF SeesInv
<1>2. CASE SourceStep /\ VisitAll
  <2>1. GoOn(Got) /\ pc = "findAll"
    BY <1>2 DEF VisitAll, Return
  <2>2. /\ Got = file[next] /\ next \in DOMAIN file
        /\ OnlyStored(file, given, jar', ts)
    BY <1>2, VisitAllFinds
  <2>3. PICK visited : /\ Walked(file, header.root, next, visited, ts)
                       /\ HasKeys(file, visited \cup {next}, jar', ts)
    BY <1>2, VisitAllFinds
  <2>4. next' = GetChildSeqAtTs(file[next], ts) /\ UNCHANGED <<ts, given>>
    BY <2>1, <2>2 DEF GoOn
  <2>5. file' = file /\ header' = header
    BY <1>2, SourceWritesNothing DEF SourceStep
  <2>6. Walked(file, header.root, next', visited \cup {next}, ts)
    BY <2>2, <2>3, <2>4, WalkGoesOn
  <2>7. QED
    BY <2>2, <2>3, <2>4, <2>5, <2>6 DEF FindAllInv
<1>3. CASE pc = "findAll" /\ ~(SourceStep /\ VisitAll)
  <2>1. UNCHANGED <<disk, pc, next, ts, given, jar>>
    BY <1>1, <1>3, OthersKeepFindAll DEF ReadUnknown, Return
  <2>2. QED
    BY <2>1 DEF FindAllInv
<1>4. CASE pc # "findAll"
  <2>1. CASE SinkStep \/ Crash \/ DestroySink \/ UNCHANGED vars
    BY <1>1, <1>4, <2>1, OthersQuiet DEF FileInv, SourceInv, StreamRight, sourceVars
  <2>2. CASE SourceStep
    <3>1. PICK t \in QueryTimes, intervals \in {EmptyJar, jar} : StartFindAll(t, intervals)
      <4>1. Next
        BY <2>2 DEF SourceStep
      <4>2. ~CallStep
        BY <1>4 DEF CallStep, GetRoot, VisitAll, VisitOne, VisitMissing, ReadUnknown,
                    ReadGarbage, GoOn, Return
      <4>3. QED
        BY <1>4, <4>1, <4>2 DEF Next, OpenFails, OpenTooSmall, OpenBadMagic, Throw, Open,
             Close, Destroy, QueryClosed, QueryOutOfRange, StartFindOne
    <3>2. opened /\ next' = root /\ given' = intervals /\ jar' = intervals
      BY <3>1 DEF StartFindAll, Start
    <3>3. next' = header'.root
      BY <1>1, <2>2, <3>2, SourceWritesNothing DEF SourceSees, SourceStep
    <3>4. OnlyStored(file', given', jar', ts')
      BY <3>2 DEF OnlyStored
    <3>5. Walked(file', header'.root, next', {}, ts') /\ HasKeys(file', {}, jar', ts')
      BY <3>3 DEF Walked, HasKeys
    <3>6. QED
      BY <3>4, <3>5 DEF FindAllInv
  <2>3. QED
    BY <2>1, <2>2 DEF FileNext
<1>5. QED
  BY <1>2, <1>3, <1>4

\* The answer of findAll: it says whether the jar has grown.
LEMMA AddedSaysGrown ==
    ASSUME FiniteJar(given), NEW more, FiniteJar(more),
           \A k \in DOMAIN given : k \in DOMAIN more /\ more[k] = given[k]
    PROVE  Added(more) = IF more = given THEN "none" ELSE "found"
<1> DEFINE old == DOMAIN given
           new == DOMAIN more
<1>1. IsFiniteSet(old) /\ IsFiniteSet(new) /\ old \in SUBSET new
  BY DEF FiniteJar
<1>2. given = [k \in old |-> given[k]] /\ more = [k \in new |-> more[k]]
  BY DEF FiniteJar
<1>3. old = new => more = given
  BY <1>2
<1> HIDE DEF old, new
<1>4. /\ Cardinality(old) \in Nat /\ Cardinality(new) \in Nat
      /\ Cardinality(old) <= Cardinality(new)
      /\ Cardinality(new) = Cardinality(old) => new = old
  BY <1>1, FS_Subset, FS_CardinalityType
<1>5. CASE more = given
  BY <1>4, <1>5 DEF Added, old, new
<1>6. CASE more # given
  <2>1. Cardinality(new) > Cardinality(old)
    BY <1>3, <1>4, <1>6
  <2>2. QED
    BY <1>6, <2>1 DEF Added, old, new
<1>7. QED
  BY <1>5, <1>6

LEMMA FindAllReturns ==
    ASSUME SeesInv, FindAllInv, VisitAll, pc' = "idle"
    PROVE  /\ \A k \in DOMAIN jar' \ DOMAIN given : jar'[k] \in At(ts)
           /\ {interval.key : interval \in At(ts)} \subseteq DOMAIN jar'
           /\ given = EmptyJar =>
                 outcome' = IF At(ts) = {} THEN "none" ELSE "found"
<1>1. FileInv /\ opened /\ ts \in Int
  BY TsIsInt DEF SeesInv, FileInv, SourceInv, CallRight, VisitAll
<1>2. /\ Got = file[next] /\ next \in DOMAIN file /\ file[next].seq = next
      /\ FiniteJar(jar') /\ FiniteJar(given)
      /\ OnlyStored(file, given, jar', ts)
  BY VisitAllFinds
<1>3. PICK visited : /\ Walked(file, header.root, next, visited, ts)
                     /\ HasKeys(file, visited \cup {next}, jar', ts)
  BY VisitAllFinds
<1>4. At(ts) = P!StoredAt(file, ts) /\ P!IsTree(file, header.root)
  BY <1>1, OpenedContents, OpenedFile
<1>5. ~GoesDown(Got) /\ outcome' = Added(jar')
  <2>1. pc = "findAll"
    BY DEF VisitAll
  <2>2. IF GoesDown(Got) THEN GoOn(Got) ELSE Return(Added(jar'))
    BY DEF VisitAll
  <2>3. ~GoOn(Got)
    BY <2>1 DEF GoOn
  <2>4. QED
    BY <2>2, <2>3 DEF Return
<1>6. GetChildSeqAtTs(file[next], ts) = next
  BY <1>2, <1>5 DEF GoesDown
<1>7. \A interval \in At(ts) : interval.key \in DOMAIN jar'
  BY <1>1, <1>2, <1>3, <1>4, <1>6, WalkEnds DEF HasKeys
<1>8. outcome' = IF jar' = given THEN "none" ELSE "found"
  BY <1>2, <1>5, AddedSaysGrown DEF OnlyStored
<1>9. \A k \in DOMAIN jar' \ DOMAIN given : jar'[k] \in At(ts)
  BY <1>2, <1>4 DEF OnlyStored
<1>10. ASSUME given = EmptyJar
       PROVE  outcome' = IF At(ts) = {} THEN "none" ELSE "found"
  <2>1. DOMAIN given = {}
    BY <1>10 DEF EmptyJar
  <2>2. CASE At(ts) = {}
    <3>1. DOMAIN jar' = {}
      BY <1>9, <2>1, <2>2
    <3>2. jar' = given
      BY <1>2, <2>1, <3>1 DEF FiniteJar
    <3>3. QED
      BY <1>8, <2>2, <3>2
  <2>3. CASE At(ts) # {}
    <3>1. DOMAIN jar' # {}
      BY <1>7, <2>3
    <3>2. QED
      BY <1>8, <2>1, <2>3, <3>1
  <2>4. QED
    BY <2>2, <2>3
<1>11. QED
  BY <1>7, <1>9, <1>10

\* findAll returns with each key that has an interval at the timestamp, and with
\* nothing else that was not in the jar, and says of an empty jar whether there is
\* one, or throws on a type without a factory.
THEOREM FindAllRight ==
    ASSUME "same" \notin CacheChoices
    PROVE  Spec => FindAllIsRight
<1> DEFINE Answer ==
      pc = "findAll" /\ pc' = "idle" =>
          /\ \A k \in DOMAIN jar' \ DOMAIN given : jar'[k] \in At(ts)
          /\ \/ FailsForCustom
             \/ /\ {interval.key : interval \in At(ts)} \subseteq DOMAIN jar'
                /\ given = EmptyJar =>
                      outcome' = IF At(ts) = {} THEN "none" ELSE "found"
<1>1. ASSUME SeesInv, FindAllInv, [FileNext]_vars PROVE Answer
  <2> SUFFICES ASSUME pc = "findAll", pc' = "idle" PROVE Answer
    OBVIOUS
  <2>1. FileInv /\ SourceSees /\ opened
    BY <1>1 DEF SeesInv, FileInv, SourceInv, CallRight
  <2>2. CASE SourceStep /\ VisitAll
    BY <1>1, <2>2, FindAllReturns
  <2>3. CASE ~(SourceStep /\ VisitAll)
    <3>1. ReadUnknown /\ ~Creatable(file[next]) /\ next \in DOMAIN file
      BY <1>1, <2>1, <2>3, OthersKeepFindAll
    <3>2. FailsForCustom /\ UNCHANGED jar
      BY <2>1, <3>1, UnknownIsStored DEF FailsForCustom, ReadUnknown, Return
    <3>3. OnlyStored(file, given, jar, ts)
      BY <1>1 DEF FindAllInv
    <3>4. QED
      BY <2>1, <3>2, <3>3, OpenedContents DEF OnlyStored
  <2>4. QED
    BY <2>2, <2>3
<1>2. FileInit => FindAllInv
  BY DEF FileInit, Init, FindAllInv
<1>3. SeesInv /\ FindAllInv /\ [FileNext]_vars => FindAllInv'
  BY NextFindAllInv
<1>4. SeesInv /\ FindAllInv /\ [FileNext]_vars => [Answer]_vars
  BY <1>1
<1>5. QED
  BY <1>2, <1>3, <1>4, SeesInvariant, PTL DEF Spec, FindAllIsRight

(***************************************************************************)
(* findOne.                                                                *)
(***************************************************************************)
FindOneInv ==
    pc = "findOne" =>
        /\ found = NoInterval
        /\ \E visited : /\ Walked(file, header.root, next, visited, ts)
                        /\ \A seq \in visited : Matches(file[seq], ts, key) = {}

LEMMA VisitOneFinds ==
    ASSUME SeesInv, VisitOne
    PROVE  /\ opened /\ ts \in Int /\ P!IsTree(file, header.root)
           /\ Got = file[next] /\ next \in DOMAIN file /\ file[next].seq = next
           /\ SourceNode(file[next])
           /\ FindAll(file[next], ts) \subseteq At(ts)
<1>1. pc = "findOne" /\ (FromCache \/ FromFile)
  BY DEF VisitOne
<1>2. FileInv /\ SourceSees /\ opened /\ ts \in Int
  BY <1>1, TsIsInt DEF SeesInv, FileInv, SourceInv, CallRight
<1>3. Got = file[next] /\ next \in DOMAIN file
  BY <1>1, <1>2, GotIsInFile
<1>4. P!IsTree(file, header.root) /\ At(ts) = P!StoredAt(file, ts)
  BY <1>2, OpenedFile, OpenedContents
<1>5. file[next].seq = next /\ SourceNode(file[next])
  BY <1>2, <1>3, <1>4, ChildIsInFile, FileNodes DEF FileInv
<1>6. FindAll(file[next], ts) \subseteq At(ts)
  BY <1>2, <1>3, <1>4, FoundIsStored
<1>7. QED
  BY <1>2, <1>3, <1>4, <1>5, <1>6

\* What every call but a visit of findOne leaves of it.
LEMMA OthersKeepFindOne ==
    ASSUME FileInv, SourceSees, [FileNext]_vars, ~(SourceStep /\ VisitOne), pc = "findOne"
    PROVE  \/ UNCHANGED <<disk, pc, next, ts, key, found>>
           \/ ReadUnknown /\ ~Creatable(file[next]) /\ next \in DOMAIN file
<1>1. opened /\ pc # "idle"
  BY DEF FileInv, SourceInv, CallRight
<1>2. CASE SourceStep
  <2>1. CASE CallStep
    <3>1. ReadUnknown
      BY <1>1, <1>2, <2>1, NodesAreFound DEF SourceStep, CallStep, GetRoot, VisitAll
    <3>2. QED
      BY <1>1, <3>1, NodesAreFound
  <2>2. CASE ~CallStep
    <3>1. Next
      BY <1>2 DEF SourceStep
    <3>2. FALSE
      BY <1>1, <2>2, <3>1 DEF Next, OpenFails, OpenTooSmall, OpenBadMagic, Throw, Open, Close,
                      Destroy, QueryClosed, QueryOutOfRange, StartFindAll, StartFindOne, Start
    <3>3. QED
      BY <3>2
  <2>3. QED
    BY <2>1, <2>2
<1>3. CASE SinkStep \/ Crash \/ DestroySink \/ UNCHANGED vars
  BY <1>1, <1>3, OthersQuiet DEF FileInv, SourceInv, StreamRight, sourceVars
<1>4. QED
  BY <1>2, <1>3 DEF FileNext

LEMMA NextFindOneInv ==
    ASSUME SeesInv, FindOneInv, [FileNext]_vars PROVE FindOneInv'
<1> SUFFICES ASSUME pc' = "findOne" PROVE FindOneInv'
  BY DEF FindOneInv
<1>1. FileInv /\ SourceSees
  BY DEF SeesInv
<1>2. CASE SourceStep /\ VisitOne
  <2>1. /\ pc = "findOne" /\ Matches(Got, ts, key) = {} /\ GoOn(Got)
        /\ UNCHANGED found
    BY <1>2 DEF VisitOne, Return
  <2>2. Got = file[next] /\ next \in DOMAIN file
    BY <1>1, <1>2, VisitOneFinds DEF SeesInv
  <2>3. /\ found = NoInterval
        /\ \E visited : /\ Walked(file, header.root, next, visited, ts)
                        /\ \A seq \in visited : Matches(file[seq], ts, key) = {}
    BY <2>1 DEF FindOneInv
  <2>4. PICK visited : /\ Walked(file, header.root, next, visited, ts)
                       /\ \A seq \in visited : Matches(file[seq], ts, key) = {}
    BY <2>3
  <2>5. next' = GetChildSeqAtTs(file[next], ts) /\ UNCHANGED <<ts, key>>
    BY <2>1, <2>2 DEF GoOn
  <2>6. file' = file /\ header' = header
    BY <1>2, SourceWritesNothing DEF SourceStep
  <2>7. /\ Walked(file, header.root, next', visited \cup {next}, ts)
        /\ \A seq \in visited \cup {next} : Matches(file[seq], ts, key) = {}
    BY <2>1, <2>2, <2>4, <2>5, WalkGoesOn
  <2>8. QED
    BY <2>1, <2>3, <2>5, <2>6, <2>7 DEF FindOneInv
<1>3. CASE pc = "findOne" /\ ~(SourceStep /\ VisitOne)
  <2>1. UNCHANGED <<disk, pc, next, ts, key, found>>
    BY <1>1, <1>3, OthersKeepFindOne DEF ReadUnknown, Return
  <2>2. QED
    BY <2>1 DEF FindOneInv
<1>4. CASE pc # "findOne"
  <2>1. CASE SinkStep \/ Crash \/ DestroySink \/ UNCHANGED vars
    BY <1>1, <1>4, <2>1, OthersQuiet DEF FileInv, SourceInv, StreamRight, sourceVars
  <2>2. CASE SourceStep
    <3>1. PICK t \in QueryTimes, k \in Keys : StartFindOne(t, k)
      <4>1. Next
        BY <2>2 DEF SourceStep
      <4>2. ~CallStep
        BY <1>4 DEF CallStep, GetRoot, VisitAll, VisitOne, VisitMissing, ReadUnknown,
                    ReadGarbage, GoOn, Return
      <4>3. QED
        BY <1>4, <4>1, <4>2 DEF Next, OpenFails, OpenTooSmall, OpenBadMagic, Throw, Open,
             Close, Destroy, QueryClosed, QueryOutOfRange, StartFindAll
    <3>2. opened /\ next' = root /\ found' = NoInterval
      BY <3>1 DEF StartFindOne, Start
    <3>3. next' = header'.root
      BY <1>1, <2>2, <3>2, SourceWritesNothing DEF SourceSees, SourceStep
    <3>4. Walked(file', header'.root, next', {}, ts')
      BY <3>3 DEF Walked
    <3>5. QED
      BY <3>2, <3>4 DEF FindOneInv, NoInterval
  <2>3. QED
    BY <2>1, <2>2 DEF FileNext
<1>5. QED
  BY <1>2, <1>3, <1>4

LEMMA FindOneReturns ==
    ASSUME SeesInv, FindOneInv, VisitOne, pc' = "idle",
           NEW matching, matching = {interval \in At(ts) : interval.key = key}
    PROVE  IF matching = {} THEN found' = NoInterval /\ outcome' = "none"
           ELSE found' \in matching /\ outcome' = "found"
<1>1. /\ opened /\ ts \in Int /\ P!IsTree(file, header.root)
      /\ Got = file[next] /\ next \in DOMAIN file /\ file[next].seq = next
      /\ SourceNode(file[next])
      /\ FindAll(file[next], ts) \subseteq At(ts)
  BY VisitOneFinds
<1>2. CASE Matches(Got, ts, key) # {}
  <2>1. found' = FindOne(Got, ts, key) /\ outcome' = "found"
    BY <1>2 DEF VisitOne, Return
  <2>2. found' \in FindAll(file[next], ts) /\ found'.key = key
    BY <1>1, <1>2, <2>1, MatchFound
  <2>3. found' \in matching
    BY <1>1, <2>2
  <2>4. QED
    BY <2>1, <2>3
<1>3. CASE Matches(Got, ts, key) = {}
  <2>1. pc = "findOne" /\ UNCHANGED found
        /\ IF GoesDown(Got) THEN GoOn(Got) ELSE Return("none")
    BY <1>3 DEF VisitOne
  <2>2. ~GoesDown(Got) /\ Return("none")
    BY <2>1 DEF GoOn
  <2>3. PICK visited : /\ Walked(file, header.root, next, visited, ts)
                       /\ \A seq \in visited : Matches(file[seq], ts, key) = {}
    BY <2>1 DEF FindOneInv
  <2>4. found' = NoInterval /\ outcome' = "none"
    BY <2>1, <2>2 DEF FindOneInv, Return
  <2>5. GetChildSeqAtTs(file[next], ts) = next
    BY <1>1, <2>2 DEF GoesDown
  <2>6. ASSUME NEW interval \in At(ts), interval.key = key PROVE FALSE
    <3>1. interval \in P!StoredAt(file, ts)
      BY <1>1, OpenedContents DEF SeesInv
    <3>2. PICK seq \in visited \cup {next} : interval \in FindAll(file[seq], ts)
      BY <1>1, <2>3, <2>5, <3>1, WalkEnds
    <3>3. Matches(file[seq], ts, key) # {}
      BY <2>6, <3>2 DEF FindAll, Matches
    <3>4. QED
      BY <1>1, <1>3, <2>3, <3>2, <3>3
  <2>7. matching = {}
    BY <2>6
  <2>8. QED
    BY <2>4, <2>7
<1>4. QED
  BY <1>2, <1>3

\* findOne returns an interval that has the key and intersects the timestamp if
\* there is one, and none otherwise, or throws on a type without a factory.
THEOREM FindOneRight ==
    ASSUME "same" \notin CacheChoices
    PROVE  Spec => FindOneIsRight
<1> DEFINE Answer ==
      pc = "findOne" /\ pc' = "idle" =>
          LET matching == {interval \in At(ts) : interval.key = key}
          IN  \/ FailsForCustom /\ found' = NoInterval
              \/ IF matching = {} THEN found' = NoInterval /\ outcome' = "none"
                 ELSE found' \in matching /\ outcome' = "found"
<1>1. ASSUME SeesInv, FindOneInv, [FileNext]_vars PROVE Answer
  <2> SUFFICES ASSUME pc = "findOne", pc' = "idle" PROVE Answer
    OBVIOUS
  <2>1. FileInv /\ SourceSees /\ opened
    BY <1>1 DEF SeesInv, FileInv, SourceInv, CallRight
  <2>2. CASE SourceStep /\ VisitOne
    BY <1>1, <2>2, FindOneReturns
  <2>3. CASE ~(SourceStep /\ VisitOne)
    <3>1. ReadUnknown /\ ~Creatable(file[next]) /\ next \in DOMAIN file
      BY <1>1, <2>1, <2>3, OthersKeepFindOne
    <3>2. FailsForCustom /\ UNCHANGED found
      BY <2>1, <3>1, UnknownIsStored DEF FailsForCustom, ReadUnknown, Return
    <3>3. QED
      BY <1>1, <3>2 DEF FindOneInv
  <2>4. QED
    BY <2>2, <2>3
<1>2. FileInit => FindOneInv
  BY DEF FileInit, Init, FindOneInv
<1>3. SeesInv /\ FindOneInv /\ [FileNext]_vars => FindOneInv'
  BY NextFindOneInv
<1>4. SeesInv /\ FindOneInv /\ [FileNext]_vars => [Answer]_vars
  BY <1>1
<1>5. QED
  BY <1>2, <1>3, <1>4, SeesInvariant, PTL DEF Spec, FindOneIsRight
=============================================================================
