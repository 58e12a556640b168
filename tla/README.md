# libdelorean: TLA+ models, checks and proofs

libdelorean writes a *history* (intervals of time, each with a key and a value)
to a file and answers queries on it: which intervals intersect a timestamp. The
file is a tree of fixed-size nodes. The tree is built from left to right, in
memory only for its latest branch; a node is written once, at the offset its
sequence number gives, and the header comes last.

Paths are relative to the repository's root.

## Inventory

| Component | State | Operations | Interacts with |
|---|---|---|---|
| `HistoryFileSink` (`src/HistoryFileSink.cpp`) | output stream, opened flag, begin, end, node count, root number, latest branch | `open`, `addInterval`, `close` | creates and fills nodes; serializes them through the node ser/des; writes nodes and header to the file |
| `HistoryFileSource` (`src/HistoryFileSource.cpp`) | input stream, opened flag, the header's attributes, node buffer, cache pointer | `open`, `close`, `findAll`, `findOne` | reads header and nodes from the file; asks the cache for nodes, which calls `getNode` back on a miss |
| `AbstractHistory`, `AbstractHistoryFile` | the attributes above, the file header's layout | getters and setters, `validateTs` | base classes of both |
| `Node`, `ChildNodePointer` (`src/node/Node.cpp`) | range, numbers of node and parent, children, intervals, three sizes in bytes, closed flag | `addInterval`, `intervalFits`, `addChild`, `close`, `findAll`, `findOne`, `getChildSeqAtTs` | asks the node ser/des for the sizes of its parts |
| `AbstractNodeSerDes`, `AlignedNodeSerDes` | registry of interval factories | sizes, `serializeNode`, `deserializeNode`, `registerIntervalFactory` | called by sink, source and nodes; creates intervals by type |
| Node caches (`LruNodeCache`, `DirectMappedNodeCache`, `PassThroughNodeCache`) | cached nodes; for the LRU one a list and a map of iterators into it; callback to the owner | `getNode`, `nodeIsCached`, `invalidate` | owned by whoever made it, handed to `HistoryFileSource::open` |
| Intervals (`src/interval`) | range, key, type, a 32-bit fixed value, variable data | construction, value conversions, `serializeVariableData` | created by the program or by the ser/des |
| Exceptions (`ex/`) | message | | thrown by all the others |

The library starts no thread. What makes it hard:

* **long sequences**: where an interval goes depends on the shape of the branch
  left by all the calls before it, and a wrong placement shows only in a query
  for some timestamps, after the file is closed;
* **recursion**: `tryAddIntervalToNode` and `addSiblingNode` call each other, and
  end only if a new node is sure to take the interval;
* **write once**: a node is written when it leaves the branch, with a pointer to
  it already in its parent and its own parent field set just in time;
* **capacity**: sizes are unsigned, counted in three parts, one of which is a
  reserve; in a node one byte too long, headers and data overwrite each other;
* **failure half-way**: an exception in the middle of `open`, of `addSiblingNode`,
  of a commit or of a query; a crash before `close` writes the header; unchecked
  writes;
* **order**: queries search a node's intervals by bisection, and nothing but the
  history's test of its end keeps them in order;
* **stale state**: caches that outlive the file they were filled from, intervals
  that the program changes after a node has counted their size.

What makes each component correct: a *sink* is a set of intervals with a range,
each stored once and never lost, and its file a tree in which the path of a
timestamp holds all the intervals that cover it; a *node* never takes more than
it can hold; a *source* answers a query with exactly the intervals that
intersect the timestamp; a *cache* gives the owner's current node; a *ser/des*
gives back what it was given; an *interval's* value survives its conversion.

## Modules

| Module | Models | Kind |
|---|---|---|
| `Node` | `Node`, and the sizes of `AlignedNodeSerDes`' nodes | operators on records |
| `HistorySink` | `HistoryFileSink` with its file | specification |
| `History` | what a history being built promises (`IHistorySink`) | abstract specification |
| `NodeSerDes` | a node filled, serialized, read back; the interval types and factories | specification |
| `NodeCache` | what a cache of a given size promises (`AbstractNodeCache`); with size zero it is `PassThroughNodeCache` | abstract specification |
| `DirectMappedNodeCache`, `LruNodeCache` | the two caches | specifications that implement `NodeCache` |
| `HistorySource` | `HistoryFileSource` with its stream, buffer and cache | specification |
| `HistoryFile` | the sink, the file and the source together, with crashes | composition |
| `MC*` + `*.cfg` | small instances for TLC | model checking |
| `HistorySinkProofs` | the sink's types, numbers and written nodes; the sink implements `History` | proofs |
| `HistorySinkOrderProofs` | the order of the intervals in the nodes; a new node has room for the interval it was made for; when no node outgrows its buffer | proofs |
| `HistorySinkTreeProofs` | the branch is a path, the closed file a tree | proofs |
| `HistorySinkSearchProofs` | the descent from the root finds exactly what is stored | proofs |
| `HistoryFileProofs` | the source, on any file a sink has written or left: its types, its range, the nodes it reads, what its queries answer | proofs |
| `NodeSerDesProofs` | the parts of a serialized node stay apart, are as long as counted, and are read back to the node written | proofs |
| `DirectMappedNodeCacheProofs`, `LruNodeCacheProofs` | the caches implement `NodeCache`; what they evict | proofs |

`HistoryFile` EXTENDS `HistorySource` and instantiates `HistorySink` on the same
`file` and `header`; `HistorySource` takes from `NodeCache` which nodes a cache
may drop. Definitions called "Mutant of ..." are plausible bugs: put in place of
the definition they name, each breaks a property, so the property is not empty.

### `HistorySink` and the code

A node is a record with the fields of `Node` that matter: the header size is
computed from `maxChildren` (it never changes), the children's size from their
number, and the intervals' size is the sum kept by `addInterval`. An interval is
a record with its range, its serialized size and, for its identity (the code
keeps shared pointers), the number of the call that brought it.

`open` and `close` are one action each for each way they end. `addInterval` is a
call of several steps: its functions call each other in tail position only, so
`(pc, intr, index)` is the whole call stack. `TryAddSibling`, `TryParent` and
`AddToTarget` are the three branches of `tryAddIntervalToNode`;
`SiblingOfParent`, `Sibling` and `GrowRoot` those of `addSiblingNode`, each with
the commit of the discarded nodes and the drawing of the new branch.
`GrowRootNoChild` and `GrowRootOneChild` are the two points where `addChild`
throws `NodeFull` half-way, for a maximum of zero or one child: they change what
the code has changed by then, no more.

`file` maps the sequence numbers of the written nodes to what
`serializeNode` writes; positions in the branch count from 1. The check
`end < _end` of `Node::close` never fires here: the history's end is never less
than the end of a node (`NodesCanBeClosed`). An opened sink is destroyed by a
close at its own end, which is among the ends of `Close`; `DestroySink` of
`HistoryFile` is the destruction of a sink whose `open` has failed with its stream
open.

`MaxChildrenValues` are the maximums the program may give to `open`; each open
chooses one of them, for the variable `maxChildren`. The node size is a constant.

`Overrun` is the step that serializes a node longer than the buffer. What happens
next depends on the node: its headers and its data overwrite each other, and headers
that are longer than the buffer alone go past its end. The model stops there.

### `NodeSerDes` and the code

The buffer is the set of the `memcpy` calls that fill it: where, how many bytes
and what. Integers have a width, given by how many values they have (`WordMod`,
`LongMod`, `KeyMod`, `FlagMod`: 2^32, 2^64, 2^24 and 2^8 in the code), so that
packing, sign extension and truncation are computed. `WidthsAssumption` says what
packs: the types times `KeyMod` in a word, `MaxChildren` times `FlagMod` in a word
(16 million children in a build), and a node's size in a word (4 GiB), which the
code does not test. `OffersAssumption` says what the program can give: values of the
parameter types of `setValue`, and floats that are numbers. A value is a sequence: characters or one number; a float is counted
in halves, enough to have fractions, and its conversion to an unsigned word, which
is undefined when it is out of the word's range, gives any word. The fixed value of a null, a string or a
64-bit interval is never set by the program: it is any of `Uninitialized`, and
for the null one it gets written. Padding bytes of the structures, which are not
initialized, are left out, and "the same" below is the same in every field.
`ReadNode` builds the node through the same operators as the writer, as the code
does through `addChild`, `addInterval` and `close`. The program shares its
intervals with the node: `ChangeString` sets a string of an interval the node
has, which keeps the size it counted. Parts that overlap then are possible; what
would be read back from them is not known, and `Readable` excludes it. A node that does not fit its
buffer is not serialized here: that is `HistorySink`'s `Overrun`.

### The caches and the code

`owner` is what the callback returns; it may change at any time, as when another
file is opened behind the same cache. `answer` is what the last `getNode`
returned. `recent` is a history variable: the numbers got, the last one first, each
of them once.

In `DirectMappedNodeCache` `seq & (size - 1)` is a remainder; the MC module
checks the two assumptions that justify it against `Bitwise`. A cache of size
zero passes the constructor's test; the get that uses an entry outside of the
empty vector sets `outside` and ends the behaviour.

In `LruNodeCache` the list is a sequence of iterators (addresses), `element` says
which node each leads to, and `map` holds iterators that may dangle. The
allocator chooses the address of a new element: any free one, or, if
`lastFreedFirst`, the one freed last when the erase and the push of a hit follow
each other (what common allocators do for blocks of one size).

### `HistorySource`, `HistoryFile` and the code

`open` reads the header, sets the cache's owner and gets the root through the
cache; it is an action for each early end (`OpenFails`, `OpenTooSmall`,
`OpenBadMagic`) and two for the rest (`Open`, `GetRoot`). A query starts in one
step and then visits one node a step (`VisitAll`, `VisitOne`); a get is a hit, a
node the test of the range refuses (`NotInFile`: `getNode` returns a null pointer, the
cache hands it on, and in `VisitMissing` the query breaks off and returns what it has),
or a read of the file, which may be past its end: then the stream
fails and the node is made of what the buffer held before. If nothing has been
read before, the bytes are not initialized: `ReadGarbage`, and the model stops.
`TooSmall` looks at what the sink has written, as if its stream had flushed it: before a
flush the code refuses more files, as it does here before the first node. `Close` forgets the answers of the earlier queries, and `StartFindAll` what
`findOne` has returned, to bound the state.

`CustomKeys` are the keys of intervals whose type is the program's own. A sink
stores them like the others. A source's ser/des has the standard factories only,
and `ReadUnknown` is the exception that leaves `open` or a query when a node with
such an interval is read: after the source is marked as opened, and with the jar
filled by the nodes above. `Garbage` is what the memory of a new source holds: its
constructor does not set the range. The jar given to `findAll` is an empty one or
the one of the last query (`given`). `Destroy` ends a source and builds another;
the program keeps the cache.

`HistoryFile` lets the program call both sides in any order. Assumptions about
its environment: a sink writes the file only while no source has it opened
(nothing in the library makes two objects agree on that); a crash of the sink's
process loses at most one node, since a seek flushes what is buffered (a crash between
the commits of a `close` and its header leaves the files that a crash between two calls
leaves: nodes, and no header); a file is
opened with at least two children per node. A write that fails, which the code
never looks at, has the effect of a crash on the file: a stream that has failed
writes nothing more, and neither the header.

## What the runs check

In the sink's runs `NodeSize` is 160 bytes: a header of 32 bytes, so that a leaf
holds two intervals of 64 bytes, and a branch node with two children one. Every
kind of step then happens within a few calls. `MaxAdds` bounds the accepted
calls of `addInterval`; timestamps are 0 to 3; `SizeMod` stands for 2^64 and only
has to exceed every size.

| Run | Question | Shows |
|---|---|---|
| `sink` | all ranges over 0..2, two begin timestamps, 0, 1 or 2 children per node (another choice at each open), 5 accepted calls (three levels), close before and after the end, open again | no sequence number is lost or used twice; the branch is a path; nodes are written once; in every state, even in the middle of a call, the descent for each timestamp finds exactly the intervals stored that intersect it; the intervals of a node are ordered by their ends, and no node of the branch ends after the history, so that no commit throws; new nodes take any interval, none outgrows the buffer; the sink implements `History`; a call that has started ends with its interval stored. With 0 or 1 child the growth of the root throws half-way: no node in the file is overwritten by the calls that follow, the abstract history does not change in the call that throws, and with 1 child what is stored is still found (with 0, the root number is that of a node which was never kept) |
| `sink_wide` | 2 or 3 children per node, another choice at each open, 7 calls, a size whose free space wraps around | a branch node gets a sibling before its parent is full; the same descent, and until the overrun the closed file is a tree: pointers and parent fields agree, ranges of siblings tile |
| `sink_reserve` | the same size as `sink_wide` | **violated**, finding 1 |
| `serdes` | 10 intervals of all types, at and beyond their limits, up to 3 in a node with up to 2 children, closed or not, strings changed afterwards, words of 8 bits | the parts are disjoint and in the buffer, and their bytes are those the node counted, unless a string has changed; the node read is the node written, with every interval's range and type, every key of 24 bits and every value but floats that are no whole number of a word and strings with a NUL character, whatever its neighbours are; written again it is the same in every field |
| `serdes_exact` | a float with a fraction, with a key of one bit too many | **violated**, finding 5 |
| `direct_mapped` | sizes 0 to 3, 3 numbers, 2 nodes for each | an entry holds the node got last; it implements `NodeCache` |
| `lru` | sizes 0 to 2, both allocators | map and list agree, always; with the second allocator the nodes used last are kept, `getNode` returns the node asked for, and it implements `NodeCache` |
| `lru_dangling` | any allocator | **violated**, finding 2 |
| `file` | 3 calls (a root and two leaves), closed at their end or at 2, nodes of one interval, one of them of a custom type, a new cache of one node for each open, jars used twice, crashes, files not finished, sources destroyed | the source has the history's range; nothing is read past the end of the file; `findOne` gives what `History` holds, and `findAll` adds what the jar has no key of and says of an empty jar whether it found something, or they throw for a custom interval with a part of it in the jar, and return; a failed call leaves a source that can be opened, except after a bad magic number |
| `file_same_cache` | a cache that is kept from file to file, 6 calls, 4 children, files closed at their own end | what is added to the jar intersects the timestamp, even when the nodes are those of another file |
| `file_stale_cache` | as `file`, with a cache that may be kept | **violated**, finding 3 |
| `file_custom_type` | as `file`: does every query answer? | **violated**, finding 4 |

Five calls fill the first leaf, grow the root, fill its second leaf and grow the
root again, or, where the third call throws, follow it with two more; with three children, seven calls give a branch node a sibling. In `file` a node holds one
interval, so that three calls make a tree of two levels with intervals at both;
`file_same_cache` needs six for a root whose last child has a number beyond the
node count of a second, smaller file. Three intervals in `serdes` are enough for
an offset that depends on the data of the intervals before it, whatever their
order, and its node takes three only when they fill it to its last bytes.

Deadlock is checked, except where the last step is undefined behaviour:
`sink_wide` (overrun), the caches (an entry or an iterator that is not there) and
`file_same_cache` (bytes never read).

*Fairness.* `FairSpec` of `HistorySink` and of `HistoryFile` asks for weak
fairness of the steps of a call only: the program is a single thread, and a
function that was called runs on. The caller is never forced to call.

## Findings

1. (`sink_reserve`) `addChild` counts each child pointer although the header's
   size already counts `maxChildren` of them, so the size of a node that has room
   for few bytes besides its children exceeds the node's size, and the free
   space, a difference of two `std::size_t`, wraps around to a huge number. The
   node then takes any interval, and is serialized longer than the buffer. In the run's
   trace three pointers and two intervals of 64 bytes go to 176 bytes: the headers end at
   byte 128, the data begin at byte 96, and they overwrite each other. (Headers that are
   longer than the buffer by themselves, with many intervals, would go past its end.)
   With the default sizes, a branch node of 16 KiB with 64 children reserves 1024
   bytes for the pointers and counts 1024 bytes more once it has them.
2. (`lru_dangling`) A hit of `LruNodeCache` erases the element and pushes its node
   again, but leaves the erased iterator in the map (`LruNodeCache.cpp:42-47`).
   The next hit on this number uses it: it works while the allocator gives the
   new element the address of the old one.
3. (`file_stale_cache`) `HistoryFileSource::open` never invalidates the cache it
   is given: with the nodes of another file in it, queries answer from that file.
4. (`file_custom_type`) `IIntervalFactory.hpp:34` asks for a factory for each custom
   type "so that it can be deserialized properly", but `open` builds the source's
   ser/des itself (`HistoryFileSource.cpp:114`) and `getNodeSerDes` is protected:
   the program cannot register one there. A sink stores a custom interval, and
   `open` or a query throws `UnknownIntervalType` when it reads its node. If that
   is the root, the source stays opened (`HistoryFileSource.cpp:84` comes before
   the root is read) with the range it had.
5. (`serdes_exact`) The ser/des serializes a complete node "and do[es] the exact
   opposite" (`AbstractNodeSerDes.hpp:40-42`). `FloatInterval` contains "a single 32-bit
   floating point value" (`FloatInterval.hpp:30`) but keeps it converted to an integer
   (`Simple32BitValueInterval.hpp:53`): the fraction is lost, and the conversion of a
   value out of the word's range, such as any negative one, is undefined. A key, which
   has 32 bits (`BasicTypes.hpp:35`), loses the highest 8 (`AlignedNodeSerDes.hpp:138`).
   In the trace two and a half is read back as two, and the key 33 as 1 (keys have 5
   bits there).

Met while modelling, in the models but without a run of their own:

6. The value of a string interval may be changed after
   `addInterval`, and with it the size the node counted (`Node.cpp:71`). The caller of
   `serializeVariableData` "must ensure" that there is room (`AbstractInterval.hpp:91`),
   but `serializeNodeImpl` does not look (`AlignedNodeSerDes.cpp:86`), and the data grow
   over the headers. The properties of `serdes` that a changed string breaks leave the
   case out.
7. `DirectMappedNodeCache` accepts a size of zero
   (`DirectMappedNodeCache.cpp:33`), where its comment asks for a power of two, and then
   uses an entry of an empty vector (`outside`).
8. `findAll` returns whether the number of keys in the jar has grown
   (`HistoryFileSource.cpp:197`), where `IHistorySource.hpp:43-48` says it adds all the
   intervals and returns "True if at least one interval was found": a jar that has the
   key already keeps the old interval, and the return may be false. `FindAllIsRight`
   states the return for an empty jar, and nothing of what a used jar keeps.
9. `readHeader` throws on a bad magic number with the stream left open
   (`HistoryFileSource.cpp:117`): the source can never be opened again. No comment says
   otherwise; `StreamFollowsOpened` says that it is the only such failure.
10. A string is read back up to its first NUL character. Its class says that a
    terminating NUL is used (`StringInterval.hpp`); `Convertible` leaves such strings out.
11. `getNode` compares with `>` (`HistoryFileSource.cpp:130`): a number equal to the
    node count is read past the last node. Files written by the sink have no such
    number (`NodesAreThere`); with a kept cache it happens.
12. A cache given to two sources at once has one owner, the last one set
    (`HistoryFileSource.cpp:77-79`): the first source is answered from the second's
    file. The model has one source; what the cache does with a changed owner is in
    the caches' own models (`SetOwner`).
13. The offset of an interval's data is cast to 32 bits (`AlignedNodeSerDes.cpp:77`), and
    the number of children is packed with 8 bits of flags in 32
    (`AlignedNodeSerDes.hpp:100`): a node of 4 GiB or more, or with more than 2^24
    children, is not read back as it was, and nothing tests for it.
    `WidthsAssumption` excludes both.
14. An exception while `open` reads the root leaves the source opened
    (`HistoryFileSource.cpp:84`) with a range that was never set: `RootCreatable` leaves
    it out of `RangeIsHistorys`, and finding 4 meets it.

## What is proved

TLAPS checks these for all values of the constants that satisfy the named
assumptions (`NodeSize`, `MaxAdds` and each of `MaxChildrenValues` naturals, `SizeMod` positive,
times and ranges integers, no interval that ends before it begins: its
constructor refuses it; for the caches, sequence numbers and sizes are naturals
and the allocator has an address for one element more than the size; for the
composition, the same of the sink it contains, and a null pointer is no node; for the
ser/des, the widths and the offers described above).

* `TypeCorrect`: the sink's `TypeOK`. It is not inductive as it stands:
  `TryParent` goes up the branch, and to know that it stops at the root one needs
  `RootTakesAll`: the root begins with the history, and the call's interval was
  tested against the history's range. `TypeInv` is the conjunction.
* `NodesWrittenOnce`: `WrittenIsFinal`. From `SeqsUnique`: the numbers of the
  branch and of the file are below the node count and disjoint, and no two nodes
  of the branch share one. It holds for zero and one child too.
* `NoNodeLost`: `NodesAccounted`, for at least two children per node (the least of `MaxChildrenValues`; with less,
  an exception leaves a counted node out of the tree).
* `SinkImplementsHistory`: `ImplementsHistory`. The contents of the abstract
  history are the union of the intervals of all the nodes. One lemma per action
  says what it does to that union: a commit moves intervals from the branch to
  the file, a drawn node has none, `AddToTarget` adds one. That the interval is
  not there before comes from `SerialInv`: the intervals stored have the serial
  numbers of earlier calls.
* `IntervalsOrdered` and `CommitNeverThrows`: `NodesOrdered` and
  `NodesCanBeClosed`, for any number of children. From `OrderInv`: nothing in the
  branch ends after the history or is closed, and every node of it that has
  intervals has them in order; the interval of a call in progress ends no earlier
  than the history, which is the test of `addInterval`, so that appending it keeps
  the order in whichever node of the branch it ends up. A commit changes the end
  of a node only upwards.
* `BranchStaysPath`: `BranchIsPath`, for at least one child per node (the least of
  `MaxChildrenValues`). It is inductive with the types and the distinct numbers of the branch.
* `ClosedFileIsTree`: `FileIsTree`, for at least two children. While the sink is
  opened the file is not a tree yet. `ShapeInv` says what is missing: the children
  of a written node are written and tile its range already, and so do those of a
  branch node up to its last one, which is the next node of the branch and has no
  end yet. `Before` is the conjunction with the
  invariants above, from which each step starts.
* `FreshNodesAccept`: `FreshNodeAccepts`, under `RoomForOffers`: an interval, the
  node's header and the pointers of two more children than the maximum given to
  `open` fit `NodeSize`. It
  is the condition on the arguments of `open` under which `addInterval` ends, and
  which the code does not test. From `BranchPlain` (a node of the branch counts the
  intervals it has) and `IntrOffered` (the interval of a call is one of the offers).
* `BufferHolds`: `BufferHoldsNode`, under `RoomForPointers`. Finding 1 is that it does
  not hold for all arguments of `open`; this is a condition under which it does, and
  which the code does not test. `totals` is any set of numbers with zero and closed under
  adding the size of an interval; a node whose intervals make one of these totals has
  room for all the pointers if it has room for one beside those reserved. It holds in
  the run `sink`: intervals of 64 bytes, two children, and 128 bytes beside the header's
  own. When all the intervals have one size (32-bit values only), it is a condition on
  the remainder of a division. From `BranchKeepsRoom`: no node's counted size ever
  exceeds the node size, because a node that reserves pointers is given one before its
  first interval, so that `intervalFits` never subtracts more than there is.
* `QueriesFindAll`: `SearchFindsAll`, for at least two children, a tree of any depth,
  and every state, in the middle of a call too. What the descent returns is defined by
  recursion on the tree, and the library's induction theorems cannot be cited for an
  operator. The proof goes by the least counterexample instead (`LeastNat`): of the
  nodes for which the claim fails, take one of least height; its child on the way
  to the timestamp has a lesser one. What it rests on is `ClosedFileIsTree`'s
  `ShapeInv` (the children of a node tile its range, so the child for a timestamp is
  the only one that covers it) and the node's own search, whose answer
  `IntervalsOrdered` makes right. `FileWhole` is what remains of it for a reader: the
  nodes of a file that has its header.
* `SourceTypes`: the composition's `TypeOK`, and `StreamFollows`: `StreamFollowsOpened`,
  whatever is kept, crashed or failed. `FoundIntersect`: `FoundIntersects`, from the
  invariant `JarIntersects`, with any cache.
* `NodesThere`, `RangeRight`, `FindAllRight`, `FindOneRight`: `NodesAreThere`,
  `RangeIsHistorys`, `FindAllIsRight` and `FindOneIsRight`, under the one hypothesis
  that no cache is given again (`"same" \notin CacheChoices`). It is necessary: finding
  3 is what happens without it. `SinkInvariant` says of the sink's part of the state what
  the proofs about the sink say of `HistorySink`'s specification, through an instance of
  them: the steps of the source leave it alone. `SourceSees` relates
  the two sides: while the source is opened, its attributes are the header's, the file
  is whole, and each node in its cache or its call is that node of the file. A query is a
  walk down the file, one node a step: the nodes behind it have given all they have
  (`FindAllInv`, `FindOneInv`), those before it are the path that remains (`Walked`), and
  when it is at a leaf (`WalkEnds`) `QueriesFindAll` says that the path had everything.
* `DirectMappedTypes`: `TypeOK`, for any size the constructor accepts.
* `LastGotHeld`: `EntryHoldsLastGot`. From `OrderInv`: the numbers got are each there
  once, and the first that shares an entry is the one the entry holds. A get moves its
  number to the front (`MovedFirst`), which changes the first of no other entry
  (`FirstMoved`).
* `DirectMappedImplements`: `DirectMappedNodeCache` implements `NodeCache`. That
  it never holds more nodes than its size is an injection: different cached
  numbers have different entries.
* `MapKnowsList`: `MapMatchesList`, for any allocator. From `ListInv`: no element
  is twice in the list and no two nodes of it share a number, so counting the
  list counts the map.
* `GetIsRight` and `LruImplements`: for an allocator that gives out the address
  freed last, `getNode` returns the node asked for, and `LruNodeCache` implements
  `NodeCache`. From `LinkInv`: each iterator of the map leads to the node with its
  number, which a hit preserves only because the new element has the old address.
* `LruTypes`: `TypeOK`, for any allocator. `LastUsedStay`: `LastUsedKept`, for that
  allocator. A hit moves its element to the front of the list as it moves its number to
  the front of `recent`, from the same place; a miss takes a number that the list does
  not have, so from behind those of the list.
* `PartsStayApart`, `SizeIsCounted`, `NodeReadIsWritten`, `WrittenAgainTheSame` and
  `TypeIsCorrect`: all the invariants of `NodeSerDes`, for any number of intervals and
  children, under `WidthsAssumption` and `OffersAssumption`. From `SerDesInv`: the node
  counts the sizes its intervals had when it took them (`IsNode`), each interval's word
  and data are those of its value (`WellFormed`), the buffer is what `SerializedParts`
  makes of the node, and the node read is `ReadNode`. That alone is inductive; the
  properties follow from lemmas about the operators.
  - *Sums.* The offsets of the data and the node's count are sums over the intervals,
    written as recursive functions. A recursive function equals its definition only if
    a function with this property exists: `SumExists` and `FillExists` build it from
    its restrictions to `0..n`. `Induction` is over the least number outside of a set.
    `SumWithHeaders` compares the two sums: what the offsets take, plus 24 bytes for
    each interval, is at most what the node has counted, and as much if no interval has
    changed.
  - *Layout.* From this `HasRoom`: the headers end before the data begin. `PartsInOrder`
    orders any two parts, `BytesAre` says that the bytes are those from the front to the
    last header and from the last data to the end, with no gap: a byte of the data is in
    the part of the first interval whose offset reaches it.
  - *Reading.* Where parts are apart, `At` finds the part that was written (`AtPart`).
    `Unpacked`, `PackedParity` and `TypesPacked` undo the packing of counts, flags, types
    and keys; `SignedOfUnsigned` undoes the conversion of negative numbers; an offset is
    not reduced, because it is at most the node's size. `Kept` is what remains of an
    interval (`IntervalKept`: a prefix of a string, a float without its fraction, the low
    bits of a key), and `ReadNodeIs` says that the intervals added back, one at a time,
    are these. `AllIsKept` says of which intervals nothing is lost.
  - *Written again.* `KeptDataIsSame` and `KeptWordIsSame`: what is lost is lost at once,
    so that the value read back has the word and the data it was read from.

Only model-checked: `AddedIsStored` and `QueryReturns`, which are liveness;
`SearchFindsAll` with one child per node (`sink`), where a call that throws half-way
leaves a tree with another shape; and what `NodesAccounted`, `BranchIsPath` and
`SearchFindsAll` say of a history whose open gives its nodes enough children when
another open does not (the theorems ask it of all of `MaxChildrenValues`). Every
invariant and action property of the passing runs is the property of a theorem.

## Plan

1. done: the sink, its tree and file, its abstract history, and their proofs; the
   caches, their abstract specification, and the proofs that they implement it;
   the source with its failures; the composition through the file; the ser/des and
   the intervals, with what they lose.
2. done: what the source answers, what the caches evict, and the types and the layout of
   `NodeSerDes`, as theorems.
3. left: two sources that share a cache; `findOne` and `findAll` through the two concrete
   caches rather than the abstract one, which they implement.

## Not modelled

Exceptions as classes, and the formatting of their messages: the exception thrown
is a value of `outcome`. The build files and the tests. Allocation failures. The
width of timestamps and of sequence numbers: no arithmetic is done on the first,
and the second would need 2^32 nodes. `unregisterIntervalFactory` and a factory of
the program's own registered with a ser/des it derives itself: `NodeSerDes` has
the registry, with the standard types only. Interval types of the program's own
that change their size or throw when they are serialized.
