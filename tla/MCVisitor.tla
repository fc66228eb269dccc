------------------------------- MODULE MCVisitor -------------------------------
(***************************************************************************)
(* Two accounts of one wallet; the browser may still hold a session of the *)
(* first.                                                                  *)
(***************************************************************************)
EXTENDS Visitor, TLC
CONSTANTS w1, w2

MCWallets == {w1, w2}
MCReturning == {w1}

\* The digest's polls overlap.
MCRuns == [q \in Queries |-> IF q = "digest" THEN 2 ELSE 1]
===============================================================================
