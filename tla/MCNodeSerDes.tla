----------------------------- MODULE MCNodeSerDes -----------------------------
(***************************************************************************)
(* Values of NodeSerDes's constants for TLC: words of 8 bits, with 3 for a *)
(* type and 5 for a key.                                                   *)
(***************************************************************************)
EXTENDS NodeSerDes

Offer(type, key, begin, end, value) ==
    [type |-> type, key |-> key, begin |-> begin, end |-> end, value |-> value]

\* Values at the limits of their types and beyond what the code represents: a
\* key of 6 bits, floats with a fraction and out of range, and the largest whole
\* one, a string with a NUL character, an interval that ends before it begins.
MixedOffers ==
    {Offer(INT32, 1, 0, 0, <<-128>>), Offer(UINT32, 31, 0, 1, <<255>>),
     Offer(FLOAT32, 2, 0, 1, <<-3>>), Offer(FLOAT32, 2, 0, 1, <<510>>),
     Offer(FLOAT32, 2, 0, 1, <<5>>),
     Offer(NUL, 33, 0, 0, <<>>), Offer(INT64, 3, 0, 1, <<-32768>>),
     Offer(UINT64, 4, 1, 1, <<65535>>),
     Offer(STR, 5, 0, 1, <<7, 8>>), Offer(STR, 6, 0, 1, <<7, 0, 8>>),
     Offer(NUL, 7, 2, 1, <<>>)}

\* Two and a half, with a key that takes one bit more than there are.
LossyOffers == {Offer(FLOAT32, 33, 0, 1, <<5>>)}

EmptyAndLong == {<<>>, [k \in 1..40 |-> 9]}

TwoChildren == {[begin |-> 0, seq |-> 1], [begin |-> 1, seq |-> 2]}
=============================================================================
