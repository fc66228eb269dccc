-------------------------------- MODULE Discover --------------------------------
(***************************************************************************)
(* The browse page: Discover with its filter panel and infinite scroll,    *)
(* and CreateAppForm, which opens over it.  Every control lives in the URL *)
(* of the page; text boxes get there through a timer of their own, 300 ms  *)
(* after the last keystroke, with the other controls as they were then.    *)
(*                                                                         *)
(* A navigation is one step.  The server answers a request in the step     *)
(* that sends it, and the answer comes in a step of its own.  What a page  *)
(* of results holds is told by the filters it is for, its number and the   *)
(* version of the catalogue.  The visitor is signed in (module Visitor).   *)
(***************************************************************************)
EXTENDS Integers, Sequences, FiniteSets, SequencesExt, Lists

CONSTANTS
  Filters,     \* boxes of the filter panel: "fuzzy" and the ranges
  Words,       \* what is typed in a box
  Tags, Sorts, \* "rank" is the sort that the URL leaves out
  Sites,       \* what is typed as the URL of an app
  Start,       \* URLs a visit starts at
  AppPage,     \* the page of an app: any other page of the site
  None,
  Pages,       \* how many pages of results there are
  MAX_TAGS,
  Attempts,    \* of pollUntilIndexed
  MaxFetches,  \* bound: answers to page 1 under way
  MaxEvents    \* bound: what the visitor does, what fails, and news of the catalogue

Blank == ""
Boxes == {"q"} \cup Filters
Urls == [boxes : [Boxes -> Words \cup {Blank}], tags : SUBSET Tags, sort : Sorts]

ASSUME Bounds == {Pages, MAX_TAGS, Attempts, MaxFetches, MaxEvents} \subseteq Nat \ {0}
ASSUME Starts == Start \subseteq Urls /\ "q" \notin Filters /\ Blank \notin Words \cup Sites
ASSUME Others == None \notin Sites \cup {Blank} /\ \A url \in Urls : url # AppPage

VARIABLES
  location,  \* the URL the browser shows
  past,      \* the entries behind it
  boxes,     \* query, fuzzy and ranges
  timers,    \* debounceRefs, as they will fire
  fetches,   \* answers to page 1 under way that the current effect asked for
  more,      \* the answer to loadMore under way
  apps,      \* the results shown, a page at a time; loadedPage is their number
  form,      \* CreateAppForm, while it is open
  job,       \* the submission under way, of that form or of one closed since
  chain,     \* the apps created on chain
  indexed,   \* how many of them the indexer has mirrored
  catalogue, \* version of what is searched
  aside,     \* history, of this visit: "back", the URL was changed from outside;
             \* "clear", filters were cleared while a timer ran
  straddled, \* history: the results were replaced while loadMore was under way
  failed,    \* history: the first page for these filters failed
  events

list == <<fetches, more, apps, straddled, failed>>
creation == <<form, job, chain, indexed>>
browseVars == <<location, past, boxes, timers, list, creation, catalogue, aside, events>>

away == location = AppPage
loadedPage == Len(apps)
hasMore == loadedPage < Pages
loading == \E f \in fetches : f.first
Event == events < MaxEvents /\ events' = events + 1

-----------------------------------------------------------------------------
(***************************************************************************)
(* Results.                                                                *)
(***************************************************************************)
\* Mutant: answers may come from a cache.
Mut_Cached(url, page) == [url |-> url, page |-> page, version |-> 0]

\* GET /api/apps.
searchApps(url, page) == [url |-> url, page |-> page, version |-> catalogue]

fetchPage1(url, first) == [first |-> first, answer |-> searchApps(url, 1)]

\* The effect's cleanup: answers to what it asked for no longer count.
Cancelled(runs) == {}

\* The effect on [params, refreshKey].
Refetch(url) ==
  /\ fetches' = Cancelled(fetches) \cup {fetchPage1(url, TRUE)}
  /\ failed' = FALSE
  /\ UNCHANGED <<more, apps, straddled>>

NoResults == /\ fetches' = {} /\ more' = None /\ apps' = <<>>
             /\ straddled' = FALSE /\ failed' = FALSE

\* The page is rendered with its first results, and asks for them again.
Mount(url) ==
  /\ boxes' = url.boxes /\ form' = None
  /\ apps' = <<searchApps(url, 1)>> /\ fetches' = {fetchPage1(url, TRUE)}
  /\ more' = None /\ straddled' = FALSE /\ failed' = FALSE
  /\ aside' = IF timers' = <<>> THEN {} ELSE {"back"}

Unmount ==
  /\ boxes' = [b \in Boxes |-> Blank] /\ form' = None /\ aside' = {}
  /\ NoResults

\* A submission goes on when its page is gone, but nothing on a later page is of it.
JobAt(url) == IF url = AppPage /\ job # None THEN [job EXCEPT !.here = FALSE] ELSE job

\* The browser shows another URL; the boxes of a mounted page stay as they are.
Show(url) ==
  /\ location' = url
  /\ IF url = location THEN UNCHANGED <<boxes, form, list, aside>>
     ELSE IF url = AppPage THEN Unmount
     ELSE IF away THEN Mount(url)
     ELSE Refetch(url) /\ UNCHANGED <<boxes, form, aside>>

\* router.push.
push(url) == Show(url) /\ past' = IF url = location THEN past ELSE Append(past, location)

\* Page 1 replaces everything, on the first answer as on a poll's.
ReceivePage1 ==
  \E f \in fetches :
    /\ fetches' = fetches \ {f}
    /\ IF f.answer = None
       THEN failed' = (failed \/ f.first) /\ UNCHANGED <<apps, straddled>>
       ELSE apps' = <<f.answer>> /\ straddled' = (more # None) /\ failed' = FALSE
    /\ UNCHANGED <<location, past, boxes, timers, more, creation, catalogue, aside, events>>

LosePage1 ==
  /\ Event
  /\ \E f \in fetches : fetches' = (fetches \ {f}) \cup {[f EXCEPT !.answer = None]}
  /\ UNCHANGED <<location, past, boxes, timers, more, apps, straddled, failed, creation,
                 catalogue, aside>>

pollIfAtRest ==
  /\ ~ away /\ loadedPage = 1
  /\ Cardinality(fetches) < MaxFetches
  /\ fetches' = fetches \cup {fetchPage1(location, FALSE)}
  /\ UNCHANGED <<location, past, boxes, timers, more, apps, straddled, failed, creation,
                 catalogue, aside, events>>

\* The sentinel below the results comes into view.
loadMore ==
  /\ ~ away /\ hasMore
  /\ more = None /\ ~ loading
  /\ more' = searchApps(location, loadedPage + 1)
  /\ straddled' = (straddled \/ apps[1].url # location)
  /\ UNCHANGED <<location, past, boxes, timers, fetches, apps, failed, creation, catalogue,
                 aside, events>>

\* Whatever the results are by now, the answer goes below them.
ReceiveMore ==
  /\ more # None
  /\ more' = None
  /\ \/ apps' = Append(apps, more) /\ UNCHANGED events
     \/ Event /\ UNCHANGED apps
  /\ UNCHANGED <<location, past, boxes, timers, fetches, straddled, failed, creation,
                 catalogue, aside>>

-----------------------------------------------------------------------------
(***************************************************************************)
(* Controls.                                                               *)
(***************************************************************************)
buildParams(b, tags, sort) == [boxes |-> b, tags |-> tags, sort |-> sort]

\* Mutant: a box's timer runs on with what was typed first.
Mut_Throttle(key, url) ==
  IF \E i \in DOMAIN timers : timers[i].key = key THEN timers
  ELSE Append(timers, [key |-> key, url |-> url])

\* A box's new timer takes the place of its old one.
debounce(key, url) ==
  Append(Keep(timers, {i \in DOMAIN timers : timers[i].key # key}), [key |-> key, url |-> url])

\* onQueryChange, onFuzzyChange and onRangeChange: what will be pushed is settled now.
Type(key, value) ==
  /\ Event
  /\ ~ away /\ value # boxes[key]
  /\ boxes' = [boxes EXCEPT ![key] = value]
  /\ timers' = debounce(key, buildParams(boxes', location.tags, location.sort))
  /\ UNCHANGED <<location, past, list, creation, catalogue, aside>>

\* A timer runs on when its page is gone.
Fire ==
  /\ timers # <<>>
  /\ timers' = Tail(timers)
  /\ push(Head(timers).url)
  /\ UNCHANGED <<job, chain, indexed, catalogue, events>>

Pushes(tags, sort) ==
  /\ Event
  /\ ~ away /\ UNCHANGED timers
  /\ push(buildParams(boxes, tags, sort))
  /\ UNCHANGED <<job, chain, indexed, catalogue>>

toggleTag(t) ==
  Pushes(IF t \in location.tags THEN location.tags \ {t} ELSE location.tags \cup {t},
         location.sort)

SortBy(s) == s # location.sort /\ Pushes(location.tags, s)

hasFilters == location.tags # {} \/ \E b \in Filters : boxes[b] # Blank

\* The timers of the boxes it empties run on.
clearFilters ==
  /\ Event
  /\ ~ away /\ hasFilters
  /\ boxes' = [b \in Boxes |-> IF b \in Filters THEN Blank ELSE boxes[b]]
  /\ aside' = IF timers = <<>> THEN aside ELSE aside \cup {"clear"}
  /\ LET url == buildParams(boxes', {}, location.sort) IN
       /\ location' = url
       /\ IF url = location THEN UNCHANGED <<past, list>>
          ELSE past' = Append(past, location) /\ Refetch(url)
  /\ UNCHANGED <<timers, creation, catalogue>>

\* The Back button: a mounted page keeps its boxes.
Back ==
  /\ Event
  /\ past # <<>>
  /\ past' = Front(past)
  /\ location' = Last(past)
  /\ UNCHANGED timers
  /\ IF Last(past) = AppPage THEN Unmount
     ELSE IF away THEN Mount(Last(past))
     ELSE Refetch(Last(past)) /\ aside' = aside \cup {"back"} /\ UNCHANGED <<boxes, form>>
  /\ job' = JobAt(Last(past))
  /\ UNCHANGED <<chain, indexed, catalogue>>

\* A click on an app.
VisitApp ==
  /\ Event
  /\ ~ away
  /\ UNCHANGED timers
  /\ push(AppPage)
  /\ job' = JobAt(AppPage)
  /\ UNCHANGED <<chain, indexed, catalogue>>

-----------------------------------------------------------------------------
(***************************************************************************)
(* CreateAppForm and Modal.                                                *)
(***************************************************************************)
Idle == UNCHANGED <<location, past, boxes, timers, list, catalogue, aside>>
FormOnly == Idle /\ UNCHANGED <<job, chain, indexed>>

NewForm == [url |-> Blank, og |-> None, asked |-> None, tags |-> <<>>, leaving |-> {},
            busy |-> FALSE]

OpenForm ==
  /\ Event
  /\ ~ away /\ form = None
  /\ form' = NewForm
  /\ FormOnly

\* Escape, a press beside it or on its button: what was typed is gone, a submission is not.
CloseForm ==
  /\ Event
  /\ form # None
  /\ form' = None
  /\ FormOnly

\* Mutant: the preview under way still counts.
Mut_AskedStays(url) ==
  /\ Event
  /\ form # None /\ url # form.url
  /\ form' = IF url = Blank THEN [form EXCEPT !.url = url, !.og = None, !.asked = None]
             ELSE [form EXCEPT !.url = url, !.asked = IF @ = None THEN url ELSE @]
  /\ FormOnly

\* The preview of the last site stays until that of the new one arrives.
EditUrl(url) ==
  /\ Event
  /\ form # None /\ url # form.url
  /\ form' = IF url = Blank THEN [form EXCEPT !.url = url, !.og = None, !.asked = None]
             ELSE [form EXCEPT !.url = url, !.asked = url]
  /\ FormOnly

\* The preview asked for last arrives, or nothing does.
ReceiveOg ==
  /\ form # None /\ form.asked # None
  /\ \E og \in {form.asked, None} : form' = [form EXCEPT !.og = og, !.asked = None]
  /\ FormOnly /\ UNCHANGED events

\* addTag, of a tag of the list or of one made up.
addTag(t) ==
  /\ Event
  /\ form # None /\ Len(form.tags) < MAX_TAGS /\ t \notin ToSet(form.tags)
  /\ form' = [form EXCEPT !.tags = Append(@, t)]
  /\ FormOnly

\* The tag leaves once its chip has faded; until then it is still one of them.
removeTag(t) ==
  /\ Event
  /\ form # None /\ t \in ToSet(form.tags) \ form.leaving
  /\ form' = [form EXCEPT !.leaving = @ \cup {t}]
  /\ FormOnly

TagGone ==
  /\ form # None
  /\ \E t \in form.leaving :
       form' = [form EXCEPT !.tags = Keep(form.tags, {i \in DOMAIN form.tags : form.tags[i] # t}),
                            !.leaving = @ \ {t}]
  /\ FormOnly /\ UNCHANGED events

canSubmit == form # None /\ form.url # Blank /\ ~ form.busy

\* One submission at a time is a bound: a form opened anew may start another.
handleSubmit ==
  /\ Event
  /\ canSubmit /\ job = None
  /\ form' = [form EXCEPT !.busy = TRUE]
  /\ job' = [step |-> "build", attempts |-> 0, here |-> TRUE,
             app |-> [url |-> form.url, og |-> form.og, tags |-> form.tags]]
  /\ Idle /\ UNCHANGED <<chain, indexed>>

\* It ends with a toast that says why.
Fails ==
  /\ job' = None
  /\ form' = IF form = None THEN None ELSE [form EXCEPT !.busy = FALSE]

\* The indexer builds the transaction and the wallet asks for the signature.
createApp ==
  /\ job # None /\ job.step = "build"
  /\ \/ job' = [job EXCEPT !.step = "prompt"] /\ UNCHANGED <<form, events>>
     \/ Event /\ Fails
  /\ Idle /\ UNCHANGED <<chain, indexed>>

\* Signed, submitted and confirmed; or refused; or confirmed without an answer.
signAndSubmit ==
  /\ job # None /\ job.step = "prompt"
  /\ \/ /\ chain' = Append(chain, job.app)
        /\ job' = [job EXCEPT !.step = "poll", !.app = Len(chain')]
        /\ UNCHANGED <<form, events>>
     \/ Event /\ Fails /\ chain' \in {chain, Append(chain, job.app)}
  /\ Idle /\ UNCHANGED indexed

\* onSuccess closes whatever form its page has open; an app that is indexed is visited.
Succeeds(found) ==
  /\ job' = None
  /\ IF found THEN push(AppPage)
     ELSE /\ IF away \/ ~ job.here THEN UNCHANGED <<form, list>>
             ELSE form' = None /\ Refetch(location)
          /\ UNCHANGED <<location, past, boxes, aside>>

\* Mutant: no limit to the attempts.
Mut_PollOn ==
  /\ job # None /\ job.step = "poll"
  /\ \/ indexed >= job.app /\ Succeeds(TRUE)
     \/ UNCHANGED <<location, past, boxes, form, job, list, aside>>
  /\ UNCHANGED <<timers, chain, indexed, catalogue, events>>

\* An attempt that fails is one that found nothing.
pollUntilIndexed ==
  /\ job # None /\ job.step = "poll"
  /\ \/ indexed >= job.app /\ Succeeds(TRUE)
     \/ job.attempts + 1 = Attempts /\ Succeeds(FALSE)
     \/ /\ job.attempts + 1 < Attempts
        /\ job' = [job EXCEPT !.attempts = @ + 1]
        /\ UNCHANGED <<location, past, boxes, form, list, aside>>
  /\ UNCHANGED <<timers, chain, indexed, catalogue, events>>

\* The crawler gets to the next app.
Index ==
  /\ indexed < Len(chain)
  /\ indexed' = indexed + 1 /\ catalogue' = catalogue + 1
  /\ UNCHANGED <<location, past, boxes, timers, list, form, job, chain, aside, events>>

\* Stakes, votes and traffic move the results.
News ==
  /\ Event
  /\ catalogue' = catalogue + 1
  /\ UNCHANGED <<location, past, boxes, timers, list, creation, aside>>

-----------------------------------------------------------------------------
BrowseInit ==
  /\ location \in Start /\ past = <<>>
  /\ boxes = location.boxes /\ timers = <<>>
  /\ catalogue = 0
  /\ apps = <<searchApps(location, 1)>> /\ fetches = {fetchPage1(location, TRUE)}
  /\ more = None
  /\ form \in {None, NewForm} /\ job = None   \* ?create=1
  /\ chain = <<>> /\ indexed = 0
  /\ aside = {} /\ straddled = FALSE /\ failed = FALSE
  /\ events = 0

Controls ==
  \/ \E key \in Boxes, value \in Words \cup {Blank} : Type(key, value)
  \/ ~ away /\ \E t \in Tags : toggleTag(t)
  \/ ~ away /\ \E s \in Sorts : SortBy(s)
  \/ clearFilters \/ Back \/ VisitApp \/ loadMore

FormSteps ==
  \/ OpenForm \/ CloseForm \/ handleSubmit
  \/ \E url \in Sites \cup {Blank} : EditUrl(url)
  \/ \E t \in Tags : addTag(t) \/ removeTag(t)
  \/ ReceiveOg \/ TagGone

JobSteps == createApp \/ signAndSubmit \/ pollUntilIndexed

BrowseNext ==
  \/ Controls \/ Fire \/ FormSteps \/ JobSteps
  \/ ReceivePage1 \/ LosePage1 \/ pollIfAtRest \/ ReceiveMore
  \/ Index \/ News

BrowseSpec == BrowseInit /\ [][BrowseNext]_browseVars

\* Requests are answered or fail and intervals go on; the wallet's prompt may stay open.
BrowseFairSpec ==
  /\ BrowseSpec
  /\ WF_browseVars(ReceivePage1) /\ WF_browseVars(pollIfAtRest)
  /\ WF_browseVars(createApp \/ pollUntilIndexed)

-----------------------------------------------------------------------------
App == [url : Sites, og : Sites \cup {None}, tags : Seq(Tags)]

\* Type correctness.
BrowseTypeOK ==
  /\ location \in Urls \cup {AppPage} /\ ToSet(past) \subseteq Urls \cup {AppPage}
  /\ boxes \in [Boxes -> Words \cup {Blank}]
  /\ \A i \in DOMAIN timers : timers[i].key \in Boxes /\ timers[i].url \in Urls
  /\ Len(apps) <= Pages + 1
  /\ form # None => /\ form.url \in Sites \cup {Blank} /\ form.og \in Sites \cup {None}
                    /\ form.leaving \subseteq ToSet(form.tags)
  /\ job # None => job.attempts < Attempts
  /\ ToSet(chain) \subseteq App
  /\ indexed <= Len(chain)
  /\ aside \subseteq {"back", "clear"}

\* Once the timers have run, the URL says what is in the boxes, in whatever order they
\* were typed in and whatever else was clicked meanwhile; except after Back, which leaves
\* the boxes alone, and except for a box that Clear emptied before its timer ran.
BoxesReachUrl ==
  ~ away /\ timers = <<>> /\ "back" \notin aside =>
    /\ boxes["q"] = location.boxes["q"]
    /\ "clear" \notin aside => boxes = location.boxes

\* When the page does not say that it is searching, its results are those of its URL,
\* unless the search failed.
IdleListIsOfUrl == ~ away /\ ~ loading /\ ~ failed => apps[1].url = location

\* The results are the first pages of one search in order, unless page 1 was replaced
\* while the next one was under way.
PagesInOrder ==
  ~ straddled => \A i \in DOMAIN apps : apps[i].page = i /\ apps[i].url = apps[1].url

\* A preview is of the URL in the form, whichever one was asked for before.
PreviewIsOfUrl == form # None /\ form.asked = None => form.og \in {None, form.url}

\* What is or may be sent to the program names no tag twice and no more than it takes.
TagsOnce ==
  LET Fine(tags) == IsInjective(tags) /\ Len(tags) <= MAX_TAGS
  IN  /\ \A i \in DOMAIN chain : Fine(chain[i].tags)
      /\ form # None => Fine(form.tags)

\* The results of the browse page, and the form over it.
BrowseInv ==
  /\ BrowseTypeOK
  /\ BoxesReachUrl /\ IdleListIsOfUrl /\ PagesInOrder
  /\ PreviewIsOfUrl /\ TagsOnce

\* A visitor who stays on the first page gets to see its latest state.
AtRest == ~ away /\ loadedPage = 1
SettlesOnUrl == <>[]AtRest =>
  []<>(AtRest /\ apps[1] = [url |-> location, page |-> 1, version |-> catalogue])

\* A submission that was signed ends, indexed or not.
SubmissionEnds == job # None /\ job.step = "poll" ~> job = None

\* CreateAppForm.tsx:67-70: the preview is of the URL "as it settles", and what is created
\* has the name of its site.  (Violated: Submit does not wait for it.)
NamedAfterItsSite == \A i \in DOMAIN chain : chain[i].og \in {None, chain[i].url}
================================================================================
