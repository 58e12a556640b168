----------------------------- MODULE NodeSerDes -----------------------------
(***************************************************************************)
(* A node that is filled, serialized to a buffer of its size and read back *)
(* (classes AlignedNodeSerDes and AbstractNodeSerDes), with the intervals  *)
(* of the standard types and the conversions of their values.              *)
(*                                                                         *)
(* The buffer is a set of parts: what each memcpy writes, and where; the   *)
(* padding of the structures is left out. The integers of the code have a  *)
(* width; the numbers of their values are constants, to scale them down.   *)
(***************************************************************************)
EXTENDS Node, FiniteSets, SequencesExt

CONSTANTS
    Offers,         \* the intervals: [type, key, begin, end, value]
    NewStrings,     \* the strings a string in the node is changed to
    Children,       \* the pointers to children that may be added
    MaxChildren,    \* the maximum number of children of the node
    CloseTimes,     \* the end timestamps given to close
    WordMod,        \* number of values of a std::uint32_t, 2^32 in a build
    LongMod,        \* number of values of a std::uint64_t, 2^64
    LongBytes,      \* bytes of a std::uint64_t, 8
    KeyMod,         \* number of values of a key in a serialized interval, 2^24
    FlagMod,        \* number of values of the flags next to the count, 2^8
    Uninitialized,  \* what a word that has not been set may hold
    Unregistered,   \* the types that are unregistered and registered again
    MaxIntervals    \* bound: intervals in the node

VARIABLES
    factories,      \* the types whose intervals can be created
    node,           \* the node, in memory
    buffer,         \* the parts of the serialized node, {} before
    read,           \* the node read back, or NoNode
    outcome         \* how the last call ended: "ok" or the exception thrown

vars == <<factories, node, buffer, read, outcome>>

NoNode == <<>>

(***************************************************************************)
(* Values. A value is a sequence: the characters of a string, or one       *)
(* number; a float is counted in halves. An interval keeps its value in    *)
(* fixed, a word, or in data, some bytes.                                  *)
(***************************************************************************)
INT32 == 0
STR == 1
UINT32 == 2
FLOAT32 == 3
NUL == 4
INT64 == 5
UINT64 == 6

StandardTypes == {INT32, STR, UINT32, FLOAT32, NUL, INT64, UINT64}

Unsigned(v, mod) == v % mod
Signed(u, mod) == IF u < mod \div 2 THEN u ELSE u - mod

\* The character that ends a string in the buffer.
EndOfString == 0

BeforeEnd(string) ==
    SubSeq(string, 1,
           Min({k \in 1..Len(string) : string[k] = EndOfString}
                    \cup {Len(string) + 1}) - 1)

Word == 0..(WordMod - 1)

\* A word holds a type and a key, or a number of children and their flags, or the
\* offset of an interval's data: in a build, a node has less than 4 GiB.
ASSUME WidthsAssumption ==
    /\ WordMod \in Nat /\ LongMod \in Nat \ {0} /\ LongBytes \in Nat \ {0}
    /\ KeyMod \in Nat \ {0} /\ FlagMod \in Nat \ {0}
    /\ WordMod % 2 = 0 /\ LongMod % 2 = 0 /\ FlagMod % 2 = 0
    /\ Cardinality(StandardTypes) * KeyMod <= WordMod
    /\ MaxChildren \in Nat /\ MaxChildren * FlagMod < WordMod
    /\ NodeSize \in Nat /\ NodeSize < WordMod
    /\ Uninitialized \subseteq Word

\* What the parameter of setValue can be. A float is a number, not an infinity.
Numbers(type) ==
    CASE type = INT32   -> -(WordMod \div 2)..(WordMod \div 2 - 1)
      [] type = UINT32  -> Word
      [] type = FLOAT32 -> Int
      [] type = INT64   -> -(LongMod \div 2)..(LongMod \div 2 - 1)
      [] type = UINT64  -> 0..(LongMod - 1)

HasType(type, value) ==
    CASE type = STR -> value \in Seq(Nat)
      [] type = NUL -> value = <<>>
      [] OTHER      -> Len(value) = 1 /\ value \in Seq(Numbers(type))

ASSUME OffersAssumption ==
    /\ \A offer \in Offers :
          /\ offer.type \in StandardTypes /\ offer.key \in Nat
          /\ offer.begin \in Int /\ offer.end \in Int
          /\ HasType(offer.type, offer.value)
    /\ \A string \in NewStrings : HasType(STR, string)
    /\ Children \subseteq [begin : Int, seq : Nat]
    /\ CloseTimes \subseteq Int
    /\ Unregistered \subseteq StandardTypes

\* A float, counted in halves, without its fraction.
Truncated(halves) == IF halves >= 0 THEN halves \div 2 ELSE -((-halves) \div 2)

\* Mutant of Fixed: a negative number is not reduced to a word.
FixedAsGiven(type, value, word) ==
    CASE type \in {INT32, UINT32} -> value[1]
      [] type = FLOAT32           -> Truncated(value[1])
      [] OTHER                    -> word

\* setValue: a float is converted to an unsigned word, which is undefined when it
\* is out of its range: any word may result. Types with data, and null, leave
\* the word as it is.
Fixed(type, value, word) ==
    CASE type \in {INT32, UINT32} -> Unsigned(value[1], WordMod)
      [] type = FLOAT32 /\ Truncated(value[1]) \in Word -> Truncated(value[1])
      [] OTHER                    -> word

\* A string takes one more byte than it has characters.
StringData(value) == [bytes |-> Len(value) + 1, content |-> value]

LongData(value) ==
    [bytes |-> LongBytes, content |-> <<Unsigned(value[1], LongMod)>>]

\* A type whose value is a word, or that has none.
NoData == [bytes |-> 0, content |-> <<>>]

Data(type, value) ==
    CASE type \in {INT64, UINT64} -> LongData(value)
      [] type = STR               -> StringData(value)
      [] OTHER                    -> NoData

\* Mutant of Value: the word of an INT32 is not sign extended.
ValueUnsigned(type, fixed, content) ==
    CASE type \in {INT32, UINT32} -> <<fixed>>
      [] type = FLOAT32 -> <<2 * fixed>>
      [] type = INT64   -> <<Signed(content[1], LongMod)>>
      [] type = UINT64  -> content
      [] type = STR     -> BeforeEnd(content)
      [] OTHER          -> <<>>

\* getValue.
Value(type, fixed, content) ==
    CASE type = INT32   -> <<Signed(fixed, WordMod)>>
      [] type = UINT32  -> <<fixed>>
      [] type = FLOAT32 -> <<2 * fixed>>
      [] type = INT64   -> <<Signed(content[1], LongMod)>>
      [] type = UINT64  -> content
      [] type = STR     -> BeforeEnd(content)
      [] OTHER          -> <<>>

IntervalHeaderBytes == 24

\* The constructor throws when an interval ends before it begins.
Constructible(offer) == offer.begin <= offer.end

\* An interval whose value is set; word is what its fixed value held before, or
\* what an undefined conversion gives.
NewInterval(offer, word) ==
    [type |-> offer.type, key |-> offer.key, begin |-> offer.begin,
     end |-> offer.end, value |-> offer.value,
     fixed |-> Fixed(offer.type, offer.value, word),
     data |-> Data(offer.type, offer.value),
     size |-> IntervalHeaderBytes + Data(offer.type, offer.value).bytes]

\* What getIntervalSize returns now.
Size(interval) == IntervalHeaderBytes + interval.data.bytes

(***************************************************************************)
(* Filling the node.                                                       *)
(***************************************************************************)
Init ==
    /\ factories = StandardTypes
    /\ node = NewNode(0, RootParent, 0, MaxChildren)
    /\ buffer = {}
    /\ read = NoNode
    /\ outcome = "ok"

Filling == buffer = {}

AddChildNode(child) ==
    /\ Filling /\ ~IsFull(node)
    /\ node' = AddChild(node, child.begin, child.seq)
    /\ outcome' = "ok"
    /\ UNCHANGED <<factories, buffer, read>>

AddChildFails ==
    /\ Filling /\ IsFull(node)
    /\ outcome' = "NodeFull"
    /\ UNCHANGED <<factories, node, buffer, read>>

\* The history makes sure that the interval fits, and does not end before the
\* last one: the node does not.
AddInterval(offer) ==
    /\ Filling /\ Len(node.intervals) < MaxIntervals
    /\ Constructible(offer)
    /\ offer.end >= node.end
    /\ \E word \in Uninitialized :
          /\ IntervalFits(node, NewInterval(offer, word))
          /\ node' = AddIntervalToNode(node, NewInterval(offer, word))
    /\ outcome' = "ok"
    /\ UNCHANGED <<factories, buffer, read>>

AddIntervalFails(offer) ==
    /\ Filling /\ ~Constructible(offer)
    /\ outcome' = "InvalidIntervalArguments"
    /\ UNCHANGED <<factories, node, buffer, read>>

\* The program, which shares its intervals with the node, changes the string of
\* one: the node has counted the size it had.
ChangeString(k, string) ==
    /\ Filling /\ node.intervals[k].type = STR
    /\ node' = [node EXCEPT !.intervals[k].value = string,
                            !.intervals[k].data = StringData(string)]
    /\ UNCHANGED <<factories, buffer, read, outcome>>

Close(end) ==
    /\ Filling
    /\ node.closed \/ end >= node.end
    /\ node' = CloseNode(node, end)
    /\ outcome' = "ok"
    /\ UNCHANGED <<factories, buffer, read>>

CloseFails(end) ==
    /\ Filling
    /\ ~node.closed /\ end < node.end
    /\ outcome' = "TimestampOutOfRange"
    /\ UNCHANGED <<factories, node, buffer, read>>

(***************************************************************************)
(* serializeNode.                                                          *)
(***************************************************************************)
Part(at, bytes, content) == [at |-> at, bytes |-> bytes, content |-> content]

\* Mutant of HeaderContent: the flag is not cleared of the count.
HeaderContentNoShift(n) ==
    [begin |-> n.begin, end |-> n.end, seq |-> n.seq, parent |-> n.parent,
     intervalCount |-> Len(n.intervals),
     childrenCountFlags |-> Len(n.children) + (IF n.closed THEN 1 ELSE 0)]

HeaderContent(n) ==
    [begin |-> n.begin, end |-> n.end, seq |-> n.seq, parent |-> n.parent,
     intervalCount |-> Len(n.intervals),
     childrenCountFlags |->
        Unsigned(Len(n.children) * FlagMod, WordMod) + (IF n.closed THEN 1 ELSE 0)]

HeaderPart(n) == Part(0, NodeHeaderBytes, HeaderContent(n))

ChildAt(k) == NodeHeaderBytes + (k - 1) * ChildPointerBytes

ChildParts(n) ==
    {Part(ChildAt(k), ChildPointerBytes, n.children[k]) : k \in 1..Len(n.children)}

\* The sum of the first k numbers of a sequence.
SumUpTo(numbers, k) ==
    LET upTo[j \in 0..Len(numbers)] ==
            IF j = 0 THEN 0 ELSE upTo[j - 1] + numbers[j]
    IN  upTo[k]

DataBytes(intervals) == [k \in 1..Len(intervals) |-> intervals[k].data.bytes]

\* Mutant of VarOffset: the offset of the end of the data, not of its begin.
VarOffsetOfEnd(intervals, k) == SumUpTo(DataBytes(intervals), k - 1)

\* The offset of the k-th interval's data, from the end of the buffer.
VarOffset(intervals, k) == SumUpTo(DataBytes(intervals), k)

HasData(interval) == interval.data.bytes > 0

IntervalContent(interval, offset) ==
    [begin |-> interval.begin, end |-> interval.end,
     typeKey |-> Unsigned(interval.type * KeyMod, WordMod)
                    + Unsigned(interval.key, KeyMod),
     value |-> IF HasData(interval) THEN Unsigned(offset, WordMod)
                                    ELSE interval.fixed]

IntervalAt(childrenCount, k) ==
    ChildAt(childrenCount + 1) + (k - 1) * IntervalHeaderBytes

IntervalParts(n) ==
    {Part(IntervalAt(Len(n.children), k), IntervalHeaderBytes,
          IntervalContent(n.intervals[k], VarOffset(n.intervals, k))) :
        k \in 1..Len(n.intervals)}

DataParts(n) ==
    {Part(NodeSize - VarOffset(n.intervals, k), n.intervals[k].data.bytes,
          n.intervals[k].data.content) :
        k \in {j \in 1..Len(n.intervals) : HasData(n.intervals[j])}}

SerializedParts(n) ==
    {HeaderPart(n)} \cup ChildParts(n) \cup IntervalParts(n) \cup DataParts(n)

\* The caller makes sure that the node fits its size (see HistorySink): the size
\* counted, whatever its strings have become.
SerializeNode ==
    /\ Filling /\ FitsBuffer(node)
    /\ buffer' = SerializedParts(node)
    /\ outcome' = "ok"
    /\ UNCHANGED <<factories, node, read>>

(***************************************************************************)
(* deserializeNode.                                                        *)
(***************************************************************************)
\* A part that reaches over another one overwrites its bytes, and one that reaches
\* over the end the memory around the buffer.
Apart(parts) ==
    \A p \in parts :
        /\ 0 <= p.at /\ p.at + p.bytes <= NodeSize
        /\ \A q \in parts \ {p} : p.at + p.bytes <= q.at \/ q.at + q.bytes <= p.at

At(at) == (CHOOSE part \in buffer : part.at = at).content

ReadHeader == At(0)
ReadClosed == ReadHeader.childrenCountFlags % 2 = 1
ReadCount == ReadHeader.childrenCountFlags \div FlagMod
ReadIntervalHeader(k) == At(IntervalAt(ReadCount, k))
ReadType(k) == ReadIntervalHeader(k).typeKey \div KeyMod

\* The word read stays the interval's fixed value when it is an offset.
ReadInterval(k) ==
    LET header == ReadIntervalHeader(k)
        content == IF ReadType(k) \in {STR, INT64, UINT64}
                   THEN At(NodeSize - header.value) ELSE <<>>
    IN  NewInterval([type |-> ReadType(k), key |-> header.typeKey % KeyMod,
                     begin |-> header.begin, end |-> header.end,
                     value |-> Value(ReadType(k), header.value, content)],
                    header.value)

ReadChild(k) == At(ChildAt(k))

CreatedNode ==
    NewNode(ReadHeader.seq, ReadHeader.parent, ReadHeader.begin, MaxChildren)

\* The node created, with its children.
Parented ==
    [CreatedNode EXCEPT !.children = [k \in 1..ReadCount |-> ReadChild(k)]]

\* What createNode, addChild, addInterval and close build.
ReadNode ==
    LET intervals == [k \in 1..ReadHeader.intervalCount |-> ReadInterval(k)]
        filled[k \in 0..ReadHeader.intervalCount] ==
            IF k = 0 THEN Parented ELSE AddIntervalToNode(filled[k - 1], intervals[k])
        full == filled[ReadHeader.intervalCount]
    IN  IF ReadClosed THEN CloseNode(full, ReadHeader.end) ELSE full

AllKnown == \A k \in 1..ReadHeader.intervalCount : ReadType(k) \in factories

\* Nothing is known of what overwritten bytes are read back to.
Readable == ~Filling /\ Apart(buffer)

DeserializeNode ==
    /\ Readable /\ AllKnown
    /\ read' = ReadNode
    /\ outcome' = "ok"
    /\ UNCHANGED <<factories, node, buffer>>

\* The nodes and the intervals created so far are gone.
DeserializeUnknown ==
    /\ Readable /\ ~AllKnown
    /\ outcome' = "UnknownIntervalType"
    /\ UNCHANGED <<factories, node, buffer, read>>

(***************************************************************************)
(* The interval factories.                                                 *)
(***************************************************************************)
Register(type) ==
    /\ outcome' = IF type \in factories THEN "ExistingIntervalType" ELSE "ok"
    /\ factories' = factories \cup {type}
    /\ UNCHANGED <<node, buffer, read>>

Unregister(type) ==
    /\ factories' = factories \ {type}
    /\ outcome' = "ok"
    /\ UNCHANGED <<node, buffer, read>>

Next ==
    \/ \E child \in Children : AddChildNode(child)
    \/ AddChildFails
    \/ \E offer \in Offers : AddInterval(offer) \/ AddIntervalFails(offer)
    \/ \E k \in 1..Len(node.intervals), string \in NewStrings : ChangeString(k, string)
    \/ \E end \in CloseTimes : Close(end) \/ CloseFails(end)
    \/ SerializeNode
    \/ DeserializeNode \/ DeserializeUnknown
    \/ \E type \in Unregistered : Register(type) \/ Unregister(type)

Spec == Init /\ [][Next]_vars

(***************************************************************************)
(* Properties.                                                             *)
(***************************************************************************)
\* The node's intervals have their types' values in words and bytes, and a node
\* read back has no more children than a node may have.
TypeOK ==
    /\ factories \subseteq StandardTypes
    /\ \A n \in {node, read} \ {NoNode} :
          /\ Len(n.children) <= MaxChildren
          /\ \A k \in 1..Len(n.intervals) :
                n.intervals[k].type \in StandardTypes /\ n.intervals[k].fixed \in Word
    /\ outcome \in {"ok", "NodeFull", "TimestampOutOfRange",
                    "UnknownIntervalType", "ExistingIntervalType",
                    "InvalidIntervalArguments"}

\* What serializeNode writes stays in the buffer, and no part of it overwrites
\* another: the headers that grow from the front never meet the data that grow
\* from the back, when no string has grown since the node has taken it.
PartsAreApart ==
    (\A k \in 1..Len(node.intervals) : Size(node.intervals[k]) <= node.intervals[k].size)
        => Apart(buffer)

BytesOf(parts) == UNION {part.at..(part.at + part.bytes - 1) : part \in parts}

\* The bytes of the buffer that are written are as many as the node counted to
\* accept its intervals, unless a string has changed its length since.
SizeIsAsCounted ==
    buffer # {} /\ (\A k \in 1..Len(node.intervals) :
                        Size(node.intervals[k]) = node.intervals[k].size)
        => Cardinality(BytesOf(buffer)) = SerializedSize(node)

\* What a value must be to survive its conversion: a string does not contain the
\* character that ends it, a float is a whole number that a word can hold.
Convertible(interval) ==
    /\ interval.type = STR => EndOfString \notin Range(interval.value)
    /\ interval.type = FLOAT32 =>
          interval.value[1] % 2 = 0 /\ Truncated(interval.value[1]) \in Word

\* Its type is not disturbed by a key that is too large, and nothing is said of
\* such a key, or of a value that does not survive.
SameInterval(written, kept) ==
    /\ kept.type = written.type
    /\ kept.begin = written.begin /\ kept.end = written.end
    /\ written.key < KeyMod => kept.key = written.key
    /\ Convertible(written) => kept.value = written.value /\ kept.size = Size(written)

\* deserializeNode does the exact opposite of serializeNode: a node read back is
\* the node written, with its numbers, its children, its range, whether it is
\* closed, and its intervals in the same order, each with its range, its type,
\* its key of 24 bits and its value, whatever its neighbours lose.
ReadIsWritten ==
    read # NoNode =>
        /\ read.seq = node.seq /\ read.parent = node.parent
        /\ read.begin = node.begin /\ read.end = node.end
        /\ read.closed = node.closed /\ read.children = node.children
        /\ Len(read.intervals) = Len(node.intervals)
        /\ \A k \in 1..Len(node.intervals) :
              SameInterval(node.intervals[k], read.intervals[k])

\* The ser/des serializes a complete node and does the exact opposite
\* (AbstractNodeSerDes.hpp): an interval read has the key it was written with, and
\* a float interval its "single 32-bit floating point value" (FloatInterval.hpp).
\* Violated.
ReadIsExact ==
    read # NoNode =>
        \A k \in 1..Len(node.intervals) :
            LET written == node.intervals[k]
            IN  /\ read.intervals[k].key = written.key
                /\ written.type = FLOAT32 =>
                      read.intervals[k].value = written.value

\* A node read back is written as it was, in every field, unless a string ended
\* early: what cannot be represented is lost when it is first written.
WrittenAgainIsSame ==
    read # NoNode /\ (\A k \in 1..Len(node.intervals) :
                         node.intervals[k].type = STR =>
                             EndOfString \notin Range(node.intervals[k].value))
        => SerializedParts(read) = buffer
=============================================================================
