----------------------------- MODULE Arrangement -----------------------------
(***************************************************************************)
(* A finite set in an order.  SortSeq of module TLC chooses a permutation, *)
(* and no prover can look into it; here the k-th element is the one that   *)
(* has k - 1 others before it, which is what is needed to reason about     *)
(* places.                                                                 *)
(***************************************************************************)
EXTENDS Integers, FiniteSets

\* `before' is irreflexive, transitive and total on S.
Arranged(S, before(_, _)) ==
    [k \in 1 .. Cardinality(S) |->
        CHOOSE x \in S : Cardinality({y \in S : before(y, x)}) = k - 1]

Increasing(S) == Arranged(S, LAMBDA i, j : i < j)
=============================================================================
