----------------------------- MODULE AppCatalogue -----------------------------
(***************************************************************************)
(* scripts/appData/apps.json and the tools that write it: the curator (a   *)
(* page opened in browser tabs, and its server, which serializes its own   *)
(* reads and writes of the file), and discoverApps / extendAppList, which  *)
(* read the file, ask a model for minutes and write the whole file back.   *)
(*                                                                         *)
(* An entry is a URL with its tags.  Two spellings of a URL may name one   *)
(* site (normalizeUrl).  Nothing orders two requests of a tab.             *)
(***************************************************************************)
EXTENDS Integers, Sequences, FiniteSets, Lists

CONSTANTS
  Tabs, Tags, Unset,
  normalizeUrl(_),   \* the site a URL names
  Listed,            \* the file to begin with
  Suggestions(_),    \* what the model may answer when asked for a category or tag
  Categories,        \* CATEGORIES, in order
  CategoryOf(_),     \* an entry's category, by URL
  Iterations,        \* extendAppList --iterations
  MaxEdits, MaxAsks, MaxStarts, MaxFailures   \* bounds: what is done by hand, and what fails

ASSUME CatalogueBounds ==
  /\ Iterations \in Nat \ {0}
  /\ {MaxEdits, MaxAsks, MaxStarts, MaxFailures} \subseteq Nat
  /\ Categories # <<>>
ASSUME UnsetIsNoSetOfTags == \A tags \in SUBSET Tags : tags # Unset

VARIABLES
  disk,      \* apps.json: its entries, and whether a write is half done
  queue,     \* writeQueue: the operations waiting for the lock
  jobs,      \* the operation that holds it, with what it will write
  tab,       \* the curator's page in each tab
  wire,      \* requests on their way to the server, and discoveries it runs
  replies,   \* its replies on their way back
  script,    \* a run of discoverApps or extendAppList
  acked,     \* sites an approval was answered for, and no script wrote over
  wanted,    \* tags a visitor added last, rather than removed
  edits, asks, starts, failures

serverVars == <<queue, jobs, disk>>
netVars == <<wire, replies>>
bounds == <<edits, asks, starts, failures>>
catalogueVars == <<serverVars, tab, netVars, script, acked, wanted, bounds>>

CategorySet == {Categories[i] : i \in DOMAIN Categories}
Urls == {Listed[i].url : i \in DOMAIN Listed}
          \cup UNION {{s[i].url : i \in DOMAIN s} : s \in UNION {Suggestions(c) : c \in CategorySet}}
Entry == [url : Urls, tags : SUBSET Tags]
Sites(apps) == {normalizeUrl(apps[i].url) : i \in DOMAIN apps}

\* No site is twice in a list.
EachSiteOnce(apps) ==
  \A i, j \in DOMAIN apps : normalizeUrl(apps[i].url) = normalizeUrl(apps[j].url) => i = j

ASSUME ListsOfEntries ==
  /\ Categories \in Seq(CategorySet)
  /\ Listed \in Seq(Entry) /\ EachSiteOnce(Listed)
  /\ \A c \in CategorySet : Suggestions(c) \subseteq Seq(Entry)

-----------------------------------------------------------------------------
(***************************************************************************)
(* Discovery.                                                              *)
(***************************************************************************)
\* Mutant: only the file is looked at, not the reply itself.
AgainstTheFile(found, existing) ==
  Keep(found, {i \in DOMAIN found : normalizeUrl(found[i].url) \notin Sites(existing)})

\* discoverTag: what was found, once, and not listed yet.
discoverTag(found, existing) ==
  Keep(found, {i \in DOMAIN found :
                 normalizeUrl(found[i].url)
                   \notin Sites(existing) \cup Sites(SubSeq(found, 1, i - 1))})

Count(apps, c) == Cardinality({i \in DOMAIN apps : CategoryOf(apps[i].url) = c})

\* The first of the categories with the fewest entries.
leastRepresentedCategory(apps) ==
  LET fewest(i) == \A j \in DOMAIN Categories :
        Count(apps, Categories[i]) <= Count(apps, Categories[j])
  IN Categories[CHOOSE i \in DOMAIN Categories :
                  fewest(i) /\ \A j \in 1..(i - 1) : ~fewest(j)]

Idle == [left |-> 0, entries |-> <<>>]

\* main of either script: the file is read once.  A file half written does not parse.
ReadList(n) ==
  /\ script.left = 0
  /\ starts < MaxStarts /\ starts' = starts + 1
  /\ ~disk.torn
  /\ script' = [left |-> n, entries |-> disk.apps]
  /\ UNCHANGED <<serverVars, tab, netVars, acked, wanted, edits, asks, failures>>

\* A round: ask for a tag, append what is new to the entries in memory, write them all.
Round(found) ==
  LET fresh == discoverTag(found, script.entries)
      entries == script.entries \o fresh
  IN /\ script.left > 0
     /\ script' = IF script.left = 1 THEN Idle
                  ELSE [left |-> script.left - 1, entries |-> entries]
     /\ disk' = IF fresh = <<>> THEN disk ELSE [disk EXCEPT !.apps = entries]
     /\ acked' = IF fresh = <<>> THEN acked ELSE acked \cap Sites(entries)
     /\ UNCHANGED <<queue, jobs, tab, netVars, wanted, bounds>>

\* discoverApps asks for the tag of its command line, extendAppList for one of the
\* category's.
discoverApps == script.left > 0 /\ \E c \in CategorySet : \E s \in Suggestions(c) : Round(s)
extendAppList ==
  script.left > 0
  /\ \E s \in Suggestions(leastRepresentedCategory(script.entries)) : Round(s)

\* claude -p fails or times out: the process ends.
ScriptFails ==
  /\ script.left > 0
  /\ failures < MaxFailures /\ failures' = failures + 1
  /\ script' = Idle
  /\ UNCHANGED <<serverVars, tab, netVars, acked, wanted, edits, asks, starts>>

-----------------------------------------------------------------------------
(***************************************************************************)
(* The page.                                                               *)
(***************************************************************************)
NoTimers == [u \in Urls |-> Unset]
Page == [apps |-> Listed, timers |-> NoTimers, cards |-> <<>>, asking |-> FALSE, approving |-> FALSE]

Get(t) == [kind |-> "get", tab |-> t]
Reply(t, kind, ok, apps) == [tab |-> t, kind |-> kind, ok |-> ok, apps |-> apps]

\* The reply to a PATCH is a toast and changes nothing.
Reported(op, ok) ==
  replies' = IF op.kind = "patch" THEN replies ELSE replies \cup {Reply(op.tab, op.kind, ok, <<>>)}

\* A tag is added or taken off: the whole list, changed.
Toggle(tags, g) == IF g \in tags THEN tags \ {g} ELSE tags \cup {g}

Want(site, g, added) ==
  wanted' = IF added THEN wanted \cup {<<site, g>>} ELSE wanted \ {<<site, g>>}

\* Mutant: one timer for all the cards.
OneTimer(page, u, tags) == [NoTimers EXCEPT ![u] = tags]

\* The save of an app is put off by 250 ms, its earlier one cancelled.
Rearmed(page, u, tags) == [page.timers EXCEPT ![u] = tags]

\* renderTagEditor on a Review card, and saveTags.
saveTags(t, i, g) ==
  LET app == tab[t].apps[i]
      tags == Toggle(app.tags, g)
  IN /\ i \in DOMAIN tab[t].apps
     /\ edits < MaxEdits /\ edits' = edits + 1
     /\ tab' = [tab EXCEPT ![t].apps[i].tags = tags,
                           ![t].timers = Rearmed(tab[t], app.url, tags)]
     /\ Want(normalizeUrl(app.url), g, g \in tags)
     /\ UNCHANGED <<serverVars, netVars, script, acked, asks, starts, failures>>

\* Its timer fires: PATCH the tags it was set with.
SaveTimer(t, u) ==
  /\ tab[t].timers[u] # Unset
  /\ wire' = wire \cup {[kind |-> "patch", tab |-> t, url |-> u, tags |-> tab[t].timers[u]]}
  /\ tab' = [tab EXCEPT ![t].timers[u] = Unset]
  /\ UNCHANGED <<serverVars, replies, script, acked, wanted, bounds>>

\* The Expand form: the button is disabled and the last results are dropped.
SubmitExpand(t) ==
  /\ ~tab[t].asking
  /\ asks < MaxAsks /\ asks' = asks + 1
  /\ tab' = [tab EXCEPT ![t].asking = TRUE, ![t].cards = <<>>]
  /\ wire' = wire \cup {[kind |-> "discover", tab |-> t]}
  /\ UNCHANGED <<serverVars, replies, script, acked, wanted, edits, starts, failures>>

\* The tags of a candidate live in its card until it is approved.
EditCandidate(t, i, g) ==
  /\ i \in DOMAIN tab[t].cards
  /\ edits < MaxEdits /\ edits' = edits + 1
  /\ tab' = [tab EXCEPT ![t].cards[i].tags = Toggle(@, g)]
  /\ UNCHANGED <<serverVars, netVars, script, acked, wanted, asks, starts, failures>>

\* The cards left checked, with their tags.
ApproveCards(t, checked) ==
  LET cards == tab[t].cards
      picked == Keep(cards, checked)
  IN /\ ~tab[t].approving
     /\ checked # {} /\ checked \subseteq DOMAIN cards
     /\ tab' = [tab EXCEPT ![t].approving = TRUE]
     /\ wire' = wire \cup {[kind |-> "approve", tab |-> t, apps |-> picked]}
     /\ UNCHANGED <<serverVars, replies, script, acked, wanted, bounds>>

\* fetchApps, after an approval: a reply that is not a list shows an empty one.
ShowList(r) ==
  /\ r.kind = "get"
  /\ tab' = [tab EXCEPT ![r.tab].approving = FALSE, ![r.tab].apps = IF r.ok THEN r.apps ELSE <<>>]
  /\ wire' = wire

ShowCandidates(r) ==
  /\ r.kind = "discover"
  /\ tab' = [tab EXCEPT ![r.tab].asking = FALSE, ![r.tab].cards = IF r.ok THEN r.apps ELSE <<>>]
  /\ wire' = wire

\* After an approval the cards go and the list is read again, before the button is back.
ShowApproved(r) ==
  /\ r.kind = "approve"
  /\ tab' = [tab EXCEPT ![r.tab].approving = r.ok, ![r.tab].cards = IF r.ok THEN <<>> ELSE @]
  /\ wire' = IF r.ok THEN wire \cup {Get(r.tab)} ELSE wire

Receive(r) ==
  /\ r \in replies
  /\ replies' = replies \ {r}
  /\ ShowList(r) \/ ShowCandidates(r) \/ ShowApproved(r)
  /\ UNCHANGED <<serverVars, script, acked, wanted, bounds>>

-----------------------------------------------------------------------------
(***************************************************************************)
(* The server.                                                             *)
(***************************************************************************)
\* readApps, outside of the lock: a file half written does not parse.
handleGetApps(r) ==
  /\ r \in wire /\ r.kind = "get"
  /\ wire' = wire \ {r}
  /\ replies' = replies \cup {Reply(r.tab, "get", ~disk.torn, IF disk.torn THEN <<>> ELSE disk.apps)}
  /\ UNCHANGED <<serverVars, tab, script, acked, wanted, bounds>>

\* The list is read when the request comes; the model's answer comes later.
handleDiscover(r) ==
  /\ r \in wire /\ r.kind = "discover"
  /\ IF disk.torn
     THEN /\ wire' = wire \ {r}
          /\ replies' = replies \cup {Reply(r.tab, "discover", FALSE, <<>>)}
     ELSE /\ wire' = (wire \ {r}) \cup {[kind |-> "asking", tab |-> r.tab, apps |-> disk.apps]}
          /\ UNCHANGED replies
  /\ UNCHANGED <<serverVars, tab, script, acked, wanted, bounds>>

Answered(r, ok, apps) ==
  /\ r \in wire /\ r.kind = "asking"
  /\ wire' = wire \ {r}
  /\ replies' = replies \cup {Reply(r.tab, "discover", ok, apps)}
  /\ UNCHANGED <<serverVars, tab, script, acked, wanted, edits, asks, starts>>

DiscoverAnswers(r) ==
  \E c \in CategorySet : \E s \in Suggestions(c) :
    Answered(r, TRUE, discoverTag(s, r.apps)) /\ UNCHANGED failures

DiscoverFails(r) == failures < MaxFailures /\ failures' = failures + 1 /\ Answered(r, FALSE, <<>>)

\* A PATCH or an approval has its body and joins the queue.
withFileLock(r) ==
  /\ r \in wire /\ r.kind \in {"patch", "approve"}
  /\ wire' = wire \ {r}
  /\ queue' = Append(queue, r)
  /\ UNCHANGED <<jobs, disk, tab, replies, script, acked, wanted, bounds>>

\* handlePatchAppTags: the tags of the first entry of that site are replaced.
handlePatchAppTags(apps, r) ==
  LET of == {i \in DOMAIN apps : normalizeUrl(apps[i].url) = normalizeUrl(r.url)}
      target == CHOOSE i \in of : \A j \in of : i <= j
  IN IF of = {} THEN apps ELSE [apps EXCEPT ![target].tags = r.tags]

\* Mutant: what was a new app when it was found still is.
AppendAll(apps, r) == apps \o r.apps

\* handleApprove: deduplicated against the file as it is now.
handleApprove(apps, r) ==
  apps \o Keep(r.apps, {i \in DOMAIN r.apps : normalizeUrl(r.apps[i].url) \notin Sites(apps)})

\* Mutant: every operation is begun as soon as it is asked for.
Unserialized == TRUE

Free == jobs = {}

\* A PATCH of a site that is not in the file writes nothing.
NotFound(r) == r.kind = "patch" /\ normalizeUrl(r.url) \notin Sites(disk.apps)

\* Begin, when nothing else holds the lock: read the file and change what was read.
Begin ==
  /\ queue # <<>> /\ Free
  /\ LET r == Head(queue)
         j == [op |-> r, stage |-> "read",
               apps |-> IF r.kind = "patch" THEN handlePatchAppTags(disk.apps, r)
                        ELSE handleApprove(disk.apps, r)]
     IN jobs' = IF NotFound(r) THEN jobs ELSE jobs \cup {j}
  /\ queue' = Tail(queue)
  /\ UNCHANGED <<disk, tab, netVars, script, acked, wanted, bounds>>

\* writeFile truncates the file first.
StartWrite(j) ==
  /\ j.stage = "read"
  /\ jobs' = (jobs \ {j}) \cup {[j EXCEPT !.stage = "writing"]}
  /\ disk' = [disk EXCEPT !.torn = TRUE]
  /\ UNCHANGED <<queue, tab, netVars, script, acked, wanted, bounds>>

FinishWrite(j) ==
  /\ j.stage = "writing"
  /\ disk' = [apps |-> j.apps, torn |-> FALSE]
  /\ jobs' = jobs \ {j}
  /\ Reported(j.op, TRUE)
  /\ acked' = IF j.op.kind = "approve" THEN acked \cup Sites(j.op.apps) ELSE acked
  /\ UNCHANGED <<queue, tab, wire, script, wanted, bounds>>

\* Mutant: the queue is chained on the operation itself.
Stuck(j) == jobs' = (jobs \ {j}) \cup {[j EXCEPT !.stage = "rejected"]}

\* A rejection is the caller's; the queue goes on.
GoOn(j) == jobs' = jobs \ {j}

\* The operation fails before it writes.
FailOperation(j) ==
  /\ j.stage = "read"
  /\ failures < MaxFailures /\ failures' = failures + 1
  /\ Reported(j.op, FALSE)
  /\ GoOn(j)
  /\ UNCHANGED <<queue, disk, tab, wire, script, acked, wanted, edits, asks, starts>>

-----------------------------------------------------------------------------
\* The pages have been opened and have fetched the list.
CatalogueInit ==
  /\ disk = [apps |-> Listed, torn |-> FALSE]
  /\ queue = <<>> /\ jobs = {}
  /\ tab = [t \in Tabs |-> Page]
  /\ wire = {} /\ replies = {}
  /\ script = Idle
  /\ acked = {} /\ wanted = {}
  /\ edits = 0 /\ asks = 0 /\ starts = 0 /\ failures = 0

Visit(t) ==
  \/ SubmitExpand(t)
  \/ \E i \in DOMAIN tab[t].apps, g \in Tags : saveTags(t, i, g)
  \/ \E i \in DOMAIN tab[t].cards, g \in Tags : EditCandidate(t, i, g)
  \/ \E checked \in SUBSET DOMAIN tab[t].cards : ApproveCards(t, checked)

RunScript == ReadList(1) \/ ReadList(Iterations) \/ discoverApps \/ extendAppList \/ ScriptFails

Timer == \E t \in Tabs, u \in Urls : SaveTimer(t, u)

Handle ==
  \E r \in wire :
    handleGetApps(r) \/ handleDiscover(r) \/ DiscoverAnswers(r) \/ DiscoverFails(r) \/ withFileLock(r)

Locked == Begin \/ \E j \in jobs : StartWrite(j) \/ FinishWrite(j) \/ FailOperation(j)

CatalogueNext ==
  \/ \E t \in Tabs : Visit(t)
  \/ \E r \in replies : Receive(r)
  \/ RunScript \/ Timer \/ Handle \/ Locked

CatalogueSpec == CatalogueInit /\ [][CatalogueNext]_catalogueVars

\* Timers fire, requests and replies arrive, file operations end.
Machine == Timer \/ Handle \/ Locked \/ \E r \in replies : Receive(r)
CatalogueFairSpec == CatalogueSpec /\ WF_catalogueVars(Machine)

-----------------------------------------------------------------------------
(***************************************************************************)
(* Properties.                                                             *)
(***************************************************************************)
\* The file and the pages hold entries; only one operation is between its read and its
\* write, and the file is torn only under it (apps-curator/server.ts, writeQueue).
CatalogueTypeOK ==
  /\ disk.torn \in BOOLEAN /\ disk.apps \in Seq(Entry)
  /\ disk.torn => \E j \in jobs : jobs = {j} /\ j.stage = "writing"
  /\ \A t \in Tabs : /\ tab[t].apps \in Seq(Entry) /\ tab[t].cards \in Seq(Entry)
                     /\ tab[t].timers \in [Urls -> (SUBSET Tags) \cup {Unset}]
                     /\ {tab[t].asking, tab[t].approving} \subseteq BOOLEAN
  /\ script.left \in 0..Iterations

\* No site is listed twice, whatever two tabs approve and the scripts write at the same
\* time (normalizeUrl and the two places that deduplicate by it).
OneEntryPerSite == EachSiteOnce(disk.apps)

\* An app the curator said it added stays in the list, unless a script wrote over it: no
\* operation of the curator writes from a reading older than another's write.
ApprovedStay == acked \subseteq Sites(disk.apps)

\* The file loses and repeats nothing.
CatalogueInv == CatalogueTypeOK /\ OneEntryPerSite /\ ApprovedStay

\* A pending save ends with its own PATCH; an edit of another app never cancels it
\* ("must not let the second app's debounce cancel the first's pending save").
NoSaveCancelled ==
  [][\A t \in Tabs, u \in Urls :
       tab[t].timers[u] # Unset /\ tab'[t].timers[u] = Unset =>
         [kind |-> "patch", tab |-> t, url |-> u, tags |-> tab[t].timers[u]] \in wire']_catalogueVars

\* Every approval is answered, whatever became of the operations before it: a rejection
\* does not "leave the queue permanently stuck", nor its button disabled.
ApprovalAnswered == \A t \in Tabs : tab[t].approving ~> ~tab[t].approving

\* Once everything is saved, a tag a visitor added, and nobody took off since, is in the
\* file ("two near-simultaneous requests ... can't race and clobber each other's edit").
TagEditsKept ==
  queue = <<>> /\ jobs = {} /\ wire = {} /\ (\A t \in Tabs : tab[t].timers = NoTimers) =>
    \A i \in DOMAIN disk.apps, g \in Tags :
      <<normalizeUrl(disk.apps[i].url), g>> \in wanted => g \in disk.apps[i].tags
================================================================================
