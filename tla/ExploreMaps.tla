------------------------------ MODULE ExploreMaps ------------------------------
(***************************************************************************)
(* The maps of the Rankings page (components/explore): one of three tabs   *)
(* is mounted, draws what it fetched for the filters, and reports what is  *)
(* selected on it to the list of related apps below.  The view, the tab    *)
(* and the filters live in the address bar, which a push reaches a round   *)
(* trip later; the ranges also live in the fields, which debounce theirs.  *)
(*                                                                         *)
(* "apps" and "tags" are a ForceMap, a canvas simulation that keeps its    *)
(* own selection, and "group" a GroupMap, the circles of a tree of tags.   *)
(***************************************************************************)
EXTENDS Integers, Sequences, FiniteSets, Lists

CONSTANTS
  Apps, SampleApps,     \* the apps of the catalogue; those of the fallback data
  Tags, SampleTags,
  TagOrder,             \* every tag, most used first
  TagsOf,               \* the tags of an app
  Stake,                \* ranks the apps, all different
  Linked,               \* the edges of the graphs: pairs of nodes
  Fields, Values,       \* the range fields and what is typed into them; "" is none
  Admits(_, _, _),      \* whether a field's value lets an app through
  Metrics,              \* what circles may be sized by, the default first
  Landings,             \* addresses the page is opened with
  Null, Untagged,       \* no value; the bucket of the apps without a tag
  MaxFilterTags,        \* MAX_FILTER_TAGS
  MaxSiblings,          \* MAX_SIBLINGS
  MaxClicks, MaxFaults  \* bounds: what the visitor does, requests that fail

ASSUME MapBounds ==
  /\ {MaxFilterTags, MaxSiblings, MaxClicks, MaxFaults} \subseteq Nat
  /\ Metrics # <<>> /\ "" \in Values

VARIABLES
  url, nav,             \* the address shown, and the one being navigated to
  ranges, timers,       \* the fields, and the debounced pushes to come
  request,              \* tagSelectRequest
  selection, related,   \* what is selected, and the apps listed for it
  relatedFetches,
  map, fetches,         \* the mounted map, and its requests
  options,              \* the tags the pickers offer
  press,                \* a pointer held on the map
  clicks, faults

filterVars == <<url, nav, ranges, timers, options>>
listVars == <<selection, related, relatedFetches>>
mapVars == <<map, fetches, press>>
mapsVars == <<filterVars, listVars, mapVars, request, clicks, faults>>

NoRanges == [f \in Fields |-> ""]
Listed(s) == {s[i] : i \in DOMAIN s}

\* What the page's address says.
Labels == Tags \cup SampleTags \cup {Untagged}
Addresses ==
  [view : {"leaderboard", "map"}, tab : {"apps", "tags", "group"}, tags : Seq(Labels),
   ranges : [Fields -> Values]]

ASSUME MapData ==
  /\ Landings \subseteq Addresses
  /\ TagOrder \in Seq(Tags \cup SampleTags)
  /\ \A a \in Apps \cup SampleApps : TagsOf[a] \subseteq Listed(TagOrder)

Click == clicks < MaxClicks /\ clicks' = clicks + 1 /\ UNCHANGED faults

\* The map an address mounts.
TabOf(u) == IF u.view = "map" THEN u.tab ELSE "none"
tab == TabOf(url)
ForceTab == map.tab \in {"apps", "tags"}
GroupTab == map.tab = "group"

-----------------------------------------------------------------------------
(***************************************************************************)
(* What a map fetches.                                                     *)
(***************************************************************************)
\* fetchUrl: the map of tags is always whole; the groups are filtered by tag here.
FetchUrl(t, tags, rs) ==
  [tags |-> IF t = "apps" THEN tags ELSE <<>>, ranges |-> IF t = "tags" THEN NoRanges ELSE rs]

Carries(a, tags) == Listed(tags) \subseteq TagsOf[a]

Served(t, key) ==
  IF t = "tags" THEN Tags
  ELSE {a \in Apps : Carries(a, key.tags) /\ \A f \in Fields : Admits(f, key.ranges[f], a)}

\* Sample apps would not carry the tags asked for.
Fallback(t, key) ==
  IF t = "tags" THEN SampleTags ELSE IF key.tags = <<>> THEN SampleApps ELSE {}

\* Mutant: the cleanup of the effect does not mark its request.
NotOvertaken(requests) == requests
Overtaken(requests) == {[r EXCEPT !.live = FALSE] : r \in requests}

Ask(t, key) == [tab |-> t, key |-> key, live |-> TRUE]

\* A map as it is mounted: it shows the fallback until it has an answer.
Fresh(t, key) ==
  [tab |-> t, key |-> key, loading |-> TRUE, source |-> "sample", empty |-> FALSE,
   nodes |-> Fallback(t, key), sizeKey |-> Metrics[1], sortedBy |-> Metrics[1],
   selectedId |-> Null, focus |-> Null, camera |-> Null, sim |-> Null]

NoMap == [Fresh("tags", [tags |-> <<>>, ranges |-> NoRanges]) EXCEPT !.tab = "none"]

\* Mutant: the old simulation goes on.
StillRunning(m) == m

\* The cleanup of the effect: the simulation stops, its listeners and refs are gone.
cleanup(m) == [m EXCEPT !.sim = Null]

\* The effect of a changed URL; what was chosen on the map stays.
Refetch(m, key) == [cleanup(m) EXCEPT !.key = key, !.loading = TRUE, !.empty = FALSE]

\* What lies over the canvas: an empty answer is said to be one.
Overlay(m) == IF m.empty THEN "nothing" ELSE IF m.loading THEN "loading" ELSE "none"

-----------------------------------------------------------------------------
(***************************************************************************)
(* The selection and the list below the map.                               *)
(***************************************************************************)
\* The effect of RelatedApps runs for every new selection, equal or not.
Select(sel) ==
  /\ selection' = sel /\ related' = Null
  /\ relatedFetches' = Overtaken(relatedFetches)
                       \cup (IF sel = Null THEN {} ELSE {[of |-> sel, live |-> TRUE]})

fetchRelatedApps(sel) ==
  IF sel.slugs # {} THEN sel.slugs \cap Apps
  ELSE {a \in Apps : TagsOf[a] \cap sel.tagSlugs # {}}

AnswerRelated(r) ==
  /\ r \in relatedFetches
  /\ relatedFetches' = relatedFetches \ {r}
  /\ \/ UNCHANGED faults /\ related' = IF r.live THEN fetchRelatedApps(r.of) ELSE related
     \/ faults < MaxFaults /\ faults' = faults + 1 /\ related' = IF r.live THEN {} ELSE related
  /\ UNCHANGED <<filterVars, mapVars, request, selection, clicks>>

\* "Clear" empties the list; the map is not told.
ClearSelection ==
  /\ Click /\ selection # Null
  /\ Select(Null)
  /\ UNCHANGED <<filterVars, mapVars, request>>

\* handleAppSelect, handleTagSelect: a node and its direct neighbours.
MapSelection(t, n, neighbors) ==
  IF n = Null THEN Null
  ELSE [kind |-> IF t = "tags" THEN "tag" ELSE "app", node |-> n,
        slugs |-> IF t = "tags" THEN {} ELSE {n} \cup neighbors,
        tagSlugs |-> IF t = "tags" THEN {n} \cup neighbors ELSE {}]

-----------------------------------------------------------------------------
(***************************************************************************)
(* ForceMap.                                                               *)
(***************************************************************************)
\* neighborsRef: empty while no simulation runs.
Neighbors(m, n) ==
  IF m.sim = Null THEN {} ELSE {o \in m.sim.nodes : o # n /\ {o, n} \in Linked}

\* selectNode on the map m, which becomes the mounted one.
selectNode(m, n) ==
  /\ map' = [m EXCEPT !.sim.selected = n, !.selectedId = n]
  /\ Select(MapSelection(m.tab, n, Neighbors(m, n)))

\* externalSelectRef: an id that is not on the map selects nothing.
externalSelect(m, id) == selectNode(m, IF id \in m.sim.nodes THEN id ELSE Null)

\* Mutant: the metric of the first render.
startMountTime(m, nodes) ==
  [m EXCEPT !.loading = FALSE, !.nodes = nodes, !.sortedBy = Metrics[1],
            !.sim = [nodes |-> nodes, sizeKey |-> Metrics[1], selected |-> Null]]

\* start: sizeKeyRef is what was chosen since, the list is sorted by the default.
start(m, nodes) ==
  [m EXCEPT !.loading = FALSE, !.nodes = nodes, !.sortedBy = Metrics[1],
            !.sim = [nodes |-> nodes, sizeKey |-> m.sizeKey, selected |-> Null]]

\* Mutant: a request made before the simulation ran is dropped.
StartedOnly(m) == map' = m /\ UNCHANGED listVars

\* pendingSelectRequestRef: what was requested before there was a simulation.
Started(m) ==
  IF m.tab = "tags" /\ request # Null THEN externalSelect(m, request)
  ELSE map' = m /\ UNCHANGED listVars

\* A live answer may be empty; a failed one falls back, and leaves `source` alone.
ForceAnswer(f, ok) ==
  LET nodes == IF ok THEN Served(f.tab, f.key) ELSE Fallback(f.tab, f.key)
      m == IF ok THEN [map EXCEPT !.source = "live"] ELSE map
  IN IF ok /\ nodes = {}
     THEN map' = [m EXCEPT !.loading = FALSE, !.empty = TRUE, !.nodes = {}] /\ UNCHANGED listVars
     ELSE Started(start(m, nodes))

\* onDown: on a node or beside them all.
ForcePress ==
  /\ ForceTab /\ map.sim # Null
  /\ \E n \in map.sim.nodes \cup {Null} : press' = [on |-> n, moved |-> FALSE]
  /\ UNCHANGED map

\* onUp: a click selects or deselects, a background click deselects.
ForceRelease ==
  /\ ForceTab /\ map.sim # Null
  /\ IF press.moved THEN UNCHANGED <<map, listVars>>
     ELSE selectNode(map, IF map.sim.selected = press.on THEN Null ELSE press.on)
  /\ UNCHANGED nav

\* handleNodeListSelect, the keyboard's way: it does not reach the canvas.
handleNodeListSelect(n) ==
  /\ Click /\ ForceTab
  /\ n \in map.nodes
  /\ LET chosen == IF map.selectedId = n THEN Null ELSE n
     IN /\ map' = [map EXCEPT !.selectedId = chosen]
        /\ Select(MapSelection(map.tab, chosen, Neighbors(map, n)))
  /\ UNCHANGED <<filterVars, fetches, press, request>>

\* applyMetricsRef: to the running simulation, if there is one, and to its list.
applyMetrics(m, key) ==
  IF m.sim = Null THEN m ELSE [m EXCEPT !.sim.sizeKey = key, !.sortedBy = key]

handleSizeChange(key) ==
  /\ Click /\ ForceTab
  /\ map' = [applyMetrics(map, key) EXCEPT !.sizeKey = key]
  /\ UNCHANGED <<filterVars, listVars, fetches, press, request>>

-----------------------------------------------------------------------------
(***************************************************************************)
(* GroupMap.  A node of the tree is its path from the root: the tags of    *)
(* the circles around it, outermost first, and for a leaf its app.         *)
(***************************************************************************)
PathOf(a) ==
  IF TagsOf[a] = {} THEN <<Untagged>>
  ELSE Keep(TagOrder, {i \in DOMAIN TagOrder : TagOrder[i] \in TagsOf[a]})

Leaf(a) == Append(PathOf(a), a)
Parent(n) == SubSeq(n, 1, Len(n) - 1)
Last(n) == n[Len(n)]

\* The filter by tag is applied to what was fetched.
filteredApps(m, tags) == {a \in m.nodes : Carries(a, tags)}
Leaves(m, tags) == {Leaf(a) : a \in filteredApps(m, tags)}
Circles(m, tags) ==
  UNION {{SubSeq(PathOf(a), 1, i) : i \in DOMAIN PathOf(a)} : a \in filteredApps(m, tags)}

\* A leaf and the apps beside it, the best backed ones.
selectionFor(m, tags, n) ==
  LET beside == {a \in filteredApps(m, tags) : PathOf(a) = Parent(n)} \ {Last(n)}
      siblings == {a \in beside : Cardinality({b \in beside : Stake[b] > Stake[a]}) < MaxSiblings}
  IN MapSelection("group", Last(n), siblings)

zoomToNode(m, n) == [m EXCEPT !.focus = n, !.camera = n]

\* Mutant: the reset effect does not depend on the tags.
ResetUnlessTagsOnly(m) == IF m.nodes = map.nodes THEN m ELSE [zoomToNode(m, Null) EXCEPT !.selectedId = Null]

\* The reset effect: another layout, data or filter.
Reset(m) == [zoomToNode(m, Null) EXCEPT !.selectedId = Null]

\* setPkg: answers are new objects, the fallback is always the same one.
GroupAnswer(f, ok) ==
  LET nodes == IF ok THEN Served(f.tab, f.key) ELSE SampleApps
      m == [map EXCEPT !.loading = FALSE, !.source = IF ok THEN "live" ELSE "sample",
                       !.empty = (ok /\ nodes = {}), !.nodes = nodes]
  IN IF ok \/ map.source = "live" THEN map' = Reset(m) /\ Select(Null)
     ELSE map' = m /\ UNCHANGED listVars

\* A click on the leaf that fills the view zooms out to the circle around it.
handleAppClick(n) ==
  IF map.focus = n
  THEN map' = [zoomToNode(map, Parent(n)) EXCEPT !.selectedId = Null] /\ Select(Null)
  ELSE map' = [zoomToNode(map, n) EXCEPT !.selectedId = n] /\ Select(selectionFor(map, url.tags, n))

\* The reset button, a click beside every circle, and a new size of the container.
ShowAll == map' = Reset(map) /\ Select(Null)

ResetButton ==
  /\ Click /\ GroupTab
  /\ ShowAll
  /\ UNCHANGED <<filterVars, fetches, press, request>>

LeafListSelect ==
  /\ Click /\ GroupTab
  /\ \E n \in Leaves(map, url.tags) : handleAppClick(n)
  /\ UNCHANGED <<filterVars, fetches, press, request>>

\* The wheel and the zoom buttons take the camera off the node it was on.
zoomByFactor ==
  /\ Click /\ GroupTab
  /\ map' = [map EXCEPT !.focus = Null, !.camera = "free"]
  /\ UNCHANGED <<filterVars, listVars, fetches, press, request>>

-----------------------------------------------------------------------------
(***************************************************************************)
(* Filters and the address bar.                                            *)
(***************************************************************************)
\* pushParams, from the address of the last render; a later push discards this one.
pushParams(u) == nav' = u

\* The list is cleared at once, the map follows the address.
Toggled(tags, slug) ==
  IF slug \in Listed(tags) THEN Keep(tags, {i \in DOMAIN tags : tags[i] # slug})
  ELSE Append(tags, slug)

toggleTagFilter(slug) ==
  Select(Null) /\ pushParams([url EXCEPT !.tags = Toggled(@, slug)])

\* onPointerUpPan finds the innermost node under the pointer.
GroupRelease ==
  /\ GroupTab
  /\ \/ press.moved /\ UNCHANGED <<map, listVars, nav>>
     \/ ~press.moved /\ \E n \in Leaves(map, url.tags) : handleAppClick(n) /\ UNCHANGED nav
     \/ ~press.moved /\ UNCHANGED map
        /\ \E n \in Circles(map, url.tags) : toggleTagFilter(Last(n))
     \/ ~press.moved /\ UNCHANGED nav
        /\ IF map.selectedId # Null \/ map.focus # Null THEN ShowAll ELSE UNCHANGED <<map, listVars>>

Press ==
  /\ Click /\ press = Null
  /\ \/ ForcePress
     \/ GroupTab /\ press' = [on |-> Null, moved |-> FALSE] /\ UNCHANGED map
  /\ UNCHANGED <<filterVars, listVars, fetches, request>>

\* A drag moves a node or the view; panning takes the camera off its node.
Drag ==
  /\ press # Null /\ ~press.moved
  /\ press' = [press EXCEPT !.moved = TRUE]
  /\ map' = IF GroupTab THEN [map EXCEPT !.focus = Null, !.camera = "free"] ELSE map
  /\ UNCHANGED <<filterVars, listVars, fetches, request, clicks, faults>>

Release ==
  /\ press # Null
  /\ press' = Null
  /\ ForceRelease \/ GroupRelease
  /\ UNCHANGED <<url, ranges, timers, options, fetches, request, clicks, faults>>

Filters == tab \in {"apps", "group"} /\ options # {}

\* TagAutocomplete: what matches some query and is not excluded.
matches(exclude) == options \ exclude

\* The picker adds, the chips of the selected tags remove.
PickTag ==
  /\ Click /\ Filters
  /\ \E t \in matches(Listed(url.tags)) \cup Listed(url.tags) : toggleTagFilter(t)
  /\ UNCHANGED <<url, ranges, timers, options, mapVars, request>>

ClearFilters ==
  /\ Click /\ Filters /\ url.tags # <<>>
  /\ pushParams([url EXCEPT !.tags = <<>>])
  /\ UNCHANGED <<url, ranges, timers, options, listVars, mapVars, request>>

\* "Jump to a tag": to the simulation, if it runs.
selectTagOnMap(t) ==
  /\ Click /\ tab = "tags" /\ t \in matches({})
  /\ request' = t
  /\ IF map.sim = Null THEN UNCHANGED <<map, listVars>> ELSE externalSelect(map, t)
  /\ UNCHANGED <<filterVars, fetches, press>>

\* The maps follow the fields at once, and refetch when their URL changes.
Follow(u, rs) ==
  LET key == FetchUrl(tab, u.tags, rs)
  IN IF key = map.key THEN UNCHANGED <<map, fetches, press>>
     ELSE /\ map' = Refetch(map, key)
          /\ fetches' = Overtaken(fetches) \cup {Ask(tab, key)}
          /\ press' = IF ForceTab THEN Null ELSE press

\* Its own timer for every field, which keeps the address of this render.
onRangeChange(f, v) ==
  /\ Click /\ Filters /\ ranges[f] # v
  /\ ranges' = [ranges EXCEPT ![f] = v]
  /\ timers' = {t \in timers : t.field # f \/ ~t.mounted}
               \cup {[field |-> f, value |-> v, params |-> url, mounted |-> TRUE]}
  /\ Follow(url, ranges')
  /\ UNCHANGED <<url, nav, options, listVars, request>>

TimerFires(t) ==
  /\ timers' = timers \ {t}
  /\ pushParams([t.params EXCEPT !.ranges[t.field] = t.value])
  /\ UNCHANGED <<url, ranges, options, listVars, mapVars, request, clicks, faults>>

\* The fields in use, which the panel's badge counts.
countActiveMapFilters == {f \in Fields : ranges[f] # ""}

clearRanges ==
  /\ Click /\ Filters /\ countActiveMapFilters # {}
  /\ ranges' = NoRanges
  /\ pushParams([url EXCEPT !.ranges = NoRanges])
  /\ Follow(url, NoRanges)
  /\ UNCHANGED <<url, timers, options, listVars, request>>

switchTab(t) ==
  /\ Click /\ url.view = "map" /\ t # tab
  /\ pushParams([url EXCEPT !.tab = t])
  /\ UNCHANGED <<url, ranges, timers, options, listVars, mapVars, request>>

\* RankingsTabs setTab.
setTab(view) ==
  /\ Click /\ view # url.view
  /\ pushParams([url EXCEPT !.view = view])
  /\ UNCHANGED <<url, ranges, timers, options, listVars, mapVars, request>>

\* The request seeded from an address that opens on a tag.
Seed(u) == IF TabOf(u) = "tags" /\ u.tags # <<>> THEN Head(u.tags) ELSE Null

\* ExploreMaps is mounted with the view and forgets everything with it, but for the
\* timers, which nothing clears.
Remount(u) ==
  /\ ranges' = IF u.view = "map" THEN u.ranges ELSE NoRanges
  /\ options' = {}
  /\ timers' = {[t EXCEPT !.mounted = FALSE] : t \in timers}
  /\ request' = Seed(u)

\* Mutant: the tab effect leaves the selection and the request.
KeepAcrossTabs == UNCHANGED <<ranges, timers, options, listVars, request>>

\* The tab effect of ExploreMaps.
ForgetAcrossTabs ==
  /\ Select(Null)
  /\ request' = Null
  /\ UNCHANGED <<ranges, timers, options>>

\* Each tab's map is mounted anew.
Mount(u) ==
  LET key == FetchUrl(TabOf(u), u.tags, ranges')
  IN /\ map' = IF TabOf(u) = "none" THEN NoMap ELSE Fresh(TabOf(u), key)
     /\ fetches' = Overtaken(fetches) \cup (IF TabOf(u) = "none" THEN {} ELSE {Ask(TabOf(u), key)})
     /\ press' = Null

\* The router commits a navigation.
Commit ==
  /\ nav # Null
  /\ url' = nav /\ nav' = Null
  /\ \/ nav.view # url.view /\ Remount(nav) /\ Mount(nav) /\ Select(Null)
     \/ nav.view = url.view /\ tab # TabOf(nav) /\ ForgetAcrossTabs /\ Mount(nav)
     \/ /\ nav.view = url.view /\ tab = TabOf(nav)
        /\ UNCHANGED <<ranges, timers, options, request>>
        /\ \/ ForceTab /\ Follow(nav, ranges) /\ UNCHANGED listVars
           \/ GroupTab /\ nav.tags # url.tags /\ map' = Reset(map) /\ Select(Null)
                    /\ UNCHANGED <<fetches, press>>
           \/ tab = "none" /\ UNCHANGED <<mapVars, listVars>>
           \/ GroupTab /\ nav.tags = url.tags /\ UNCHANGED <<mapVars, listVars>>
  /\ UNCHANGED <<clicks, faults>>

\* The pickers' tags, the most used ones.  A failed request leaves them hidden.
AnswerOptions ==
  /\ url.view = "map" /\ options = {}
  /\ options' = Listed(SubSeq(TagOrder, 1, MaxFilterTags)) \cap Tags
  /\ UNCHANGED <<url, nav, ranges, timers, listVars, mapVars, request, clicks, faults>>

\* Mutant: a failure leaves the map loading.
AnswerOkOnly(f) ==
  /\ fetches' = fetches \ {f}
  /\ \E ok \in BOOLEAN :
       /\ IF ok THEN UNCHANGED faults ELSE faults < MaxFaults /\ faults' = faults + 1
       /\ IF ~f.live \/ ~ok THEN UNCHANGED <<map, listVars>>
          ELSE IF GroupTab THEN GroupAnswer(f, ok) ELSE ForceAnswer(f, ok)
  /\ UNCHANGED <<filterVars, press, request, clicks>>

\* The answer of a request, or its failure; that of a cancelled one is dropped.
AnswerFetch(f) ==
  /\ fetches' = fetches \ {f}
  /\ \E ok \in BOOLEAN :
       /\ IF ok THEN UNCHANGED faults ELSE faults < MaxFaults /\ faults' = faults + 1
       /\ IF ~f.live THEN UNCHANGED <<map, listVars>>
          ELSE IF GroupTab THEN GroupAnswer(f, ok) ELSE ForceAnswer(f, ok)
  /\ UNCHANGED <<filterVars, press, request, clicks>>

-----------------------------------------------------------------------------
MapsInit ==
  /\ url \in Landings /\ nav = Null
  /\ ranges = IF url.view = "map" THEN url.ranges ELSE NoRanges
  /\ timers = {} /\ options = {}
  /\ request = Seed(url)
  /\ selection = Null /\ related = Null /\ relatedFetches = {}
  /\ LET key == FetchUrl(tab, url.tags, url.ranges)
     IN /\ map = IF tab = "none" THEN NoMap ELSE Fresh(tab, key)
        /\ fetches = IF tab = "none" THEN {} ELSE {Ask(tab, key)}
  /\ press = Null /\ clicks = 0 /\ faults = 0

MapsNext ==
  \/ Commit \/ AnswerOptions
  \/ \E f \in fetches : AnswerFetch(f)
  \/ \E r \in relatedFetches : AnswerRelated(r)
  \/ \E t \in timers : TimerFires(t)
  \/ Press \/ Drag \/ Release
  \/ \E n \in map.nodes : handleNodeListSelect(n)
  \/ \E i \in DOMAIN Metrics : handleSizeChange(Metrics[i])
  \/ ResetButton \/ LeafListSelect \/ zoomByFactor
  \/ PickTag \/ ClearFilters \/ ClearSelection \/ clearRanges
  \/ \E t \in Tags : selectTagOnMap(t)
  \/ \E f \in Fields, v \in Values : onRangeChange(f, v)
  \/ \E t \in {"apps", "tags", "group"} : switchTab(t)
  \/ \E v \in {"leaderboard", "map"} : setTab(v)

MapsSpec == MapsInit /\ [][MapsNext]_mapsVars

\* Requests are answered or fail.
MapsFairness == WF_mapsVars(\E f \in fetches : AnswerFetch(f))

MapsFairSpec == MapsSpec /\ MapsFairness

-----------------------------------------------------------------------------
(***************************************************************************)
(* Properties.                                                             *)
(***************************************************************************)
\* Every variable keeps its shape, and the mounted map is the one the address names.
MapsTypeOK ==
  /\ map.tab = tab
  /\ url.tags \in Seq(Tags \cup SampleTags \cup {Untagged}) /\ ranges \in [Fields -> Values]
  /\ map.nodes \subseteq Apps \cup SampleApps \cup Tags \cup SampleTags
  /\ map.sim # Null => map.sim.nodes = map.nodes /\ map.sim.selected \in map.nodes \cup {Null}
  /\ request \in Tags \cup SampleTags \cup {Untagged, Null} /\ options \subseteq Tags
  /\ \A t \in timers : t.field \in Fields /\ t.value \in Values

\* Once nothing loads, the map holds the answer, or the fallback, for the filters as
\* they are now, and the list the apps of the present selection: through retyped
\* ranges, tabs left and come back to, and answers out of order.
ShownIsAsked ==
  /\ map.tab # "none" => map.key = FetchUrl(tab, url.tags, ranges)
  /\ map.tab # "none" /\ ~map.loading =>
       map.nodes \in {Served(tab, map.key), Fallback(tab, map.key)}
  /\ related # Null => selection # Null /\ related \in {fetchRelatedApps(selection), {}}

\* The circles are sized by the metric chosen, also when it was chosen while the data
\* was on its way ("instead of the simulation silently initializing with the stale
\* mount-time default").
MetricApplies == map.sim # Null => map.sim.sizeKey = map.sizeKey

\* On the groups, the list is that of a leaf drawn now with the siblings it has now,
\* and the camera is where the next click on that leaf takes it to be: a filter, a
\* refetch or a resize may not leave either pointing into a tree that is gone.
GroupListMatchesTree ==
  GroupTab =>
    /\ {map.selectedId, map.focus} \subseteq
         Leaves(map, url.tags) \cup Circles(map, url.tags) \cup {Null}
    /\ selection # Null => selection = selectionFor(map, url.tags, map.selectedId)
    /\ map.focus # Null => map.camera = map.focus

\* A selection does not outlive its tab, nor is it made again by a request of an
\* earlier visit.
SelectionOfThisTab ==
  /\ selection # Null => tab # "none" /\ (selection.kind = "tag" <=> tab = "tags")
  /\ request # Null => tab = "tags"

\* What the tabs show belongs together, and to what was asked for.
MapsInv ==
  /\ MapsTypeOK
  /\ ShownIsAsked /\ MetricApplies
  /\ GroupListMatchesTree /\ SelectionOfThisTab

\* A map does not stay on "Loading": it is answered, falls back or is left.
Loads == Overlay(map) = "loading" ~> (Overlay(map) # "loading" \/ tab = "none")

\* A tag the address opens on, or picked before the map has started, ends up selected
\* if the map has it ("instead of silently no-op-ing").
Awaited == tab = "tags" /\ request # Null /\ map.sim = Null
Honoured == map.sim # Null /\ map.sim.selected = request
RequestHonoured ==
  Awaited ~> (tab # "tags" \/ Honoured \/ (map.sim # Null /\ request \notin map.nodes))

\* With nothing under way, the address holds the ranges of the fields: every field's
\* push gets through whatever was typed, toggled or cleared meanwhile.
RangesInUrl == url.view = "map" /\ nav = Null /\ timers = {} => url.ranges = ranges
================================================================================
