-------------------------- MODULE MCNebulousProgram --------------------------
(***************************************************************************)
(* Instances of NebulousProgram for TLC.  Users are interchangeable, and   *)
(* so are tags: no action or property tells one from another.              *)
(*                                                                         *)
(* One run looks at three families of behaviours.  A behaviour is followed *)
(* for as long as it is of one of them; a step that leaves all three is    *)
(* still checked, and what comes after it is not.                          *)
(***************************************************************************)
EXTENDS NebulousProgram, TLC

UserSymmetry == Permutations(Users)
Symmetry == Permutations(Users) \cup Permutations(Tags)

UsedBy(users, slots) == \A k \in Positions : pos[k].open => k[2] \in slots /\ k[3] \in users

Calls(pool, fundings, resizes) ==
  \A a \in Apps : ledger[a][pool].fundings <= fundings /\ ledger[a][pool].resizes <= resizes

\* Two users who vote on one app.
TwoVoters ==
  /\ UsedBy(Users, {VoteSlot}) /\ suggested = {}
  /\ vault <= 4 /\ now <= 1 /\ \A k \in Positions : pos[k].staked_at <= 1
  /\ Calls("Vote", 2, 4) /\ Calls("Tags", 0, 0)

\* One user who stakes on two tags of it, which share an accumulator, and votes once.
TwoTags ==
  /\ \E u \in Users : UsedBy({u}, Slots)
  /\ vault <= 3 /\ now = 0 /\ Calls("Vote", 1, 1) /\ Calls("Tags", 2, 3)

\* One voter over a clock that runs past the decay window and may step back.
OneClock ==
  /\ \E u \in Users : UsedBy({u}, {VoteSlot})
  /\ suggested = {} /\ Calls("Vote", 1, 3) /\ Calls("Tags", 0, 0)

Family == TwoVoters \/ TwoTags \/ OneClock
=============================================================================
