----------------------- MODULE MCDirectMappedNodeCache -----------------------
(***************************************************************************)
(* Values of DirectMappedNodeCache's constants for TLC, and a comparison   *)
(* of its arithmetic with the bitwise operations of the code.              *)
(***************************************************************************)
EXTENDS DirectMappedNodeCache, Bitwise

\* n - 1 wraps around when n is 0.
Mask(n) == (n - 1) % 2^WordBits

ASSUME TestIsBitwise ==
    \A n \in 0..(2^WordBits - 1) : PowerOfTwoTest(n) <=> n & Mask(n) = 0

ASSUME PosIsBitwise ==
    \A k \in 0..WordBits, seq \in 0..(2^WordBits - 1) :
        seq % 2^k = seq & Mask(2^k)
=============================================================================
