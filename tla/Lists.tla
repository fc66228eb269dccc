--------------------------------- MODULE Lists ---------------------------------
(***************************************************************************)
(* What Array.prototype.filter keeps of a list, told by the positions it   *)
(* keeps rather than by a recursion over the list.                         *)
(***************************************************************************)
EXTENDS Integers, FiniteSets

\* The position of k in K, counted from 1; and the element of K at position n.
PlaceIn(K, k) == Cardinality({j \in K : j <= k})
Nth(K, n) == CHOOSE k \in K : PlaceIn(K, k) = n

\* The elements of s at the positions K, in the order of s.
Keep(s, K) == [n \in 1..Cardinality(K) |-> s[Nth(K, n)]]
================================================================================
