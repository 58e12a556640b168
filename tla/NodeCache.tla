------------------------------ MODULE NodeCache ------------------------------
(***************************************************************************)
(* What a node cache promises (class AbstractNodeCache): a get is answered *)
(* with the cached node, or else with what the owner answers; an answer of *)
(* the owner may be kept, and at most one node is dropped to make room.    *)
(* Which one is the policy of the concrete cache.                          *)
(***************************************************************************)
EXTENDS Integers, FiniteSets

CONSTANTS Seqs,         \* the sequence numbers a node may be asked by
          NoNode        \* the null pointer

VARIABLES
    owner,      \* what the owner answers, by sequence number
    size,       \* getSize()
    cached,     \* the nodes in the cache, by the number they were asked by
    answer      \* the last answer: [seq, node]

vars == <<owner, size, cached, answer>>

NoAnswer == [seq |-> 0, node |-> NoNode]

Init ==
    /\ owner = [seq \in Seqs |-> NoNode]
    /\ size \in Nat
    /\ cached = <<>>
    /\ answer = NoAnswer

\* The node a get returns.
Lookup(seq) == IF seq \in DOMAIN cached THEN cached[seq] ELSE owner[seq]

Hit(seq) == seq \in DOMAIN cached /\ UNCHANGED cached

\* The owner has no such node: nothing is cached or dropped.
MissUnknown(seq) ==
    /\ seq \notin DOMAIN cached
    /\ owner[seq] = NoNode
    /\ UNCHANGED cached

\* The nodes cached once seq has been, and the sequence numbers in dropped
\* have been dropped.
Cached(seq, dropped) ==
    [s \in (DOMAIN cached \cup {seq}) \ dropped |->
        IF s = seq THEN owner[seq] ELSE cached[s]]

AtMostOneOf(S) == {{}} \cup {{s} : s \in S}

MissKnown(seq) ==
    /\ seq \notin DOMAIN cached
    /\ owner[seq] # NoNode
    /\ \E dropped \in AtMostOneOf(DOMAIN cached \cup {seq}) :
          cached' = Cached(seq, dropped)
    /\ Cardinality(DOMAIN cached') <= size

Get(seq) ==
    /\ Hit(seq) \/ MissUnknown(seq) \/ MissKnown(seq)
    /\ answer' = [seq |-> seq, node |-> Lookup(seq)]
    /\ UNCHANGED <<owner, size>>

\* What the owner answers has changed, or its callback has: the cache does not
\* know.
SetOwner ==
    /\ DOMAIN owner' = Seqs
    /\ UNCHANGED <<size, cached, answer>>

Invalidate ==
    /\ cached' = <<>>
    /\ UNCHANGED <<owner, size, answer>>

Next == (\E seq \in Seqs : Get(seq)) \/ SetOwner \/ Invalidate

Spec == Init /\ [][Next]_vars
=============================================================================
