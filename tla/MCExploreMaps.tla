---------------------------- MODULE MCExploreMaps ----------------------------
(***************************************************************************)
(* Two apps, one of them without the less used tag, one sample of each.    *)
(***************************************************************************)
EXTENDS ExploreMaps, TLC
CONSTANTS a1, a2, s1, t1, t2, u1, stakeMin

MCApps == {a1, a2}
MCSampleApps == {s1}
MCTags == {t1, t2}
MCSampleTags == {u1}
MCTagOrder == <<t1, t2, u1>>
MCTagsOf == (a1 :> {t1, t2}) @@ (a2 :> {t1}) @@ (s1 :> {})
MCStake == (a1 :> 2) @@ (a2 :> 1) @@ (s1 :> 3)
MCLinked == {{a1, a2}, {t1, t2}}
MCFields == {stakeMin}
MCValues == {"", "5"}
\* Only a1 has the stake.
MCAdmits(f, v, a) == v = "" \/ a = a1
MCMetrics == <<"stake", "views">>

At(view, t, tags) == [view |-> view, tab |-> t, tags |-> tags, ranges |-> NoRanges]
MCLandings ==
  {At("leaderboard", "apps", <<>>), At("map", "apps", <<>>), At("map", "group", <<t1>>),
   At("map", "tags", <<t2>>)}
==============================================================================
