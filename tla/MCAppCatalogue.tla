---------------------------- MODULE MCAppCatalogue ----------------------------
(***************************************************************************)
(* One listed app, and two suggestions, one of them with a second spelling *)
(* of its address; two tabs, one tag.                                      *)
(***************************************************************************)
EXTENDS AppCatalogue, TLC
CONSTANTS tab1, tab2, g1, old, new, newWww, other

MCTabs == {tab1, tab2}
MCTags == {g1}

MCNormalize(u) == IF u = newWww THEN new ELSE u

Bare(u) == [url |-> u, tags |-> {}]
MCListed == <<Bare(old), Bare(other)>>

MCCategories == <<"ai", "other">>
MCCategoryOf(u) == IF u \in {new, newWww} THEN "ai" ELSE "other"
MCSuggestions(c) == IF c = "ai" THEN {<<Bare(new), Bare(newWww)>>} ELSE {<<Bare(newWww), Bare(old)>>}

================================================================================
