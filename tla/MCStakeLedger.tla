---------------------------- MODULE MCStakeLedger ----------------------------
(* Two tabs of one user over the app's vote and one tag. *)
EXTENDS StakeLedger, TLC

CONSTANTS u1, w1, w2

TwoTabs == {w1, w2}
SameSession == [w \in TwoTabs |-> u1]

\* A fault, or requests sent twice and handlers that overlap, not both.
OneMishap == faults = 0 \/ (resends = 0 /\ ~ overlapped.ever)

TabSymmetry == Permutations(TwoTabs)
=============================================================================
