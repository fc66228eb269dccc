----------------------------- MODULE SharedRewards -----------------------------
(***************************************************************************)
(* What the program promises to those who stake, with nothing of how it    *)
(* keeps the promise: a funding is shared by stake, what is owed to a      *)
(* position leaves the books only when that position is paid, in full, and *)
(* the money held moves by exactly that and by the stakes put in and out.  *)
(***************************************************************************)
EXTENDS Integers

CONSTANTS
  Positions, Pools,
  PoolAt,      \* the pool of a position
  Grain,       \* the stake that may forgo one token of a funding
  Most         \* the largest amount

VARIABLES
  stake,       \* of each position
  whole,       \* of each pool: the stake of its positions
  owed,        \* to each position
  held         \* the money that backs all of it

vars == <<stake, whole, owed, held>>

Init ==
  /\ stake = [k \in Positions |-> 0]
  /\ whole = [q \in Pools |-> 0]
  /\ owed = [k \in Positions |-> 0]
  /\ held = 0

\* A gain on stake s of w that is less than a token from its share of x, but for what
\* the grain of the fixed point forgoes.
ProRata(gain, s, w, x) ==
  /\ gain * w < s * x + w
  /\ s * (Grain * x - w) < (gain + 1) * w * Grain

\* A pool is funded with x.
Fund(q, x) ==
  /\ held' = held + x
  /\ whole[q] > 0
  /\ UNCHANGED <<stake, whole>>
  /\ \A k \in Positions :
       IF PoolAt[k] = q THEN ProRata(owed'[k] - owed[k], stake[k], whole[q], x)
                        ELSE owed'[k] = owed[k]

\* A position is paid what it is owed and its stake becomes s.
Settle(k, s) ==
  /\ held' = held - owed[k] + s - stake[k]
  /\ held' >= 0
  /\ stake' = [stake EXCEPT ![k] = s]
  /\ whole' = [whole EXCEPT ![PoolAt[k]] = @ + s - stake[k]]
  /\ owed' = [owed EXCEPT ![k] = 0]

Next ==
  \/ \E q \in Pools, x \in 1..Most : Fund(q, x)
  \/ \E k \in Positions, s \in 0..Most : Settle(k, s)

Spec == Init /\ [][Next]_vars
================================================================================
