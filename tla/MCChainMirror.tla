---------------------------- MODULE MCChainMirror ----------------------------
(* Instance of ChainMirror; the accounts are model values given in the cfg. *)
EXTENDS ChainMirror

\* Two transactions of any accounts, or more of a position's.  Submit is under no
\* fairness, so leaving some of its steps out keeps every behaviour that remains fair.
ManyOfOnePosition ==
  Len(txs) <= 2 \/ \A i \in TxIds : txs[i].account \in Positions
=============================================================================
