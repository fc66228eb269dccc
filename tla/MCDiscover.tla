------------------------------- MODULE MCDiscover -------------------------------
(***************************************************************************)
(* One word to type, one tag, two sorts and two sites; a visit starts      *)
(* without filters or with a query.                                        *)
(***************************************************************************)
EXTENDS Discover, TLC

MCFilters == {"fuzzy"}
MCWords == {"a"}
MCTags == {"t"}
MCSorts == {"rank", "stake"}
MCSites == {"x", "y"}
MCStart == {[boxes |-> [b \in {"q", "fuzzy"} |-> IF b = "q" THEN q ELSE ""],
             tags |-> {}, sort |-> "rank"] : q \in {"", "a"}}
================================================================================
