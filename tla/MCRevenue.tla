------------------------------- MODULE MCRevenue -------------------------------
(***************************************************************************)
(* Two apps, one of which has no stake on its tags, or none at all and     *)
(* perhaps no account either.                                              *)
(***************************************************************************)
EXTENDS Revenue, TLC
CONSTANTS a1, a2, t1

MCApps == {a1, a2}
MCTabs == {t1}
Both == [vote |-> 1, tags |-> 1]
VoteOnly == [vote |-> 1, tags |-> 0]
MCStakes == {[a \in MCApps |-> IF a = b THEN VoteOnly ELSE Both] : b \in MCApps}
            \cup {[a \in MCApps |-> IF a = a2 THEN NoStake ELSE Both]}
MCPast == {<<a2, a2>>}
================================================================================
