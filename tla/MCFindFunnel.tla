----------------------------- MODULE MCFindFunnel -----------------------------
(***************************************************************************)
(* Two facets and two values; the shortlist depends on the first answer.   *)
(***************************************************************************)
EXTENDS FindFunnel, TLC
CONSTANTS f1, f2, yes, skip, a1, a2

MCFacets == {f1, f2}
MCValues == {yes, skip}
MCApps == {a1, a2}

MCShortlist(history) ==
  IF history # <<>> /\ history[1].value = yes THEN <<a1, a2>> ELSE <<a2>>

Of(f, v) == [facet |-> f, value |-> v]

\* A bare link, one answer, and a link that names a facet twice and is then damaged.
MCLandings ==
  {<<>>, <<Of(f1, yes)>>, <<Of(f1, yes), Of(f1, skip), Damaged, Of(f2, yes)>>}
================================================================================
