---------------------------- MODULE MCStakingPages ----------------------------
(* One tag besides the app's vote; the visitor holds both at first, or   *)
(* has withdrawn the tag's stake and not closed its account yet.         *)
EXTENDS StakingPages, TLC
CONSTANTS vote, t1

MCTags == {t1}
MCHeldBoth == {{vote, t1}}
MCEmptied == {{}, {t1}}
===============================================================================
