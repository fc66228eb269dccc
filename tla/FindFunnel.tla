------------------------------ MODULE FindFunnel ------------------------------
(***************************************************************************)
(* The /find funnel (components/find): a reducer of answers and of the     *)
(* engine's reply, mirrored in the address bar, whose navigations take a   *)
(* round trip and can be overtaken by the browser's own Back and Forward;  *)
(* and the outcome a visitor reports of a suggestion, sent with a          *)
(* single-use Turnstile token to /api/find/confirm.                        *)
(*                                                                         *)
(* A URL is the sequence of the entries of its query string, an entry      *)
(* being an answer or Damaged.  The engine is the indexer's, seen through  *)
(* its contract: it asks no facet twice and stops at MaxQuestions.         *)
(***************************************************************************)
EXTENDS Integers, Sequences, FiniteSets, Lists

CONSTANTS
  Facets, Values, Apps,   \* what can be asked, the answers on offer, what can be suggested
  Shortlist(_),       \* the apps the engine suggests after a history, best first
  Damaged, Null,      \* an unreadable entry; no value
  MaxQuestions,       \* FIND_MAX_QUESTIONS
  MaxForwarded,       \* MAX_FORWARDED_ANSWERS
  TurnstileEnabled,   \* a site key is configured
  Landings,           \* query strings the page may be opened with
  MaxClicks,          \* bound: what the visitor does, Back and Forward included
  MaxFailures           \* bound: requests that fail

ASSUME FunnelBounds ==
  /\ {MaxQuestions, MaxForwarded, MaxClicks, MaxFailures} \subseteq Nat
  /\ TurnstileEnabled \in BOOLEAN

VARIABLES
  answers, result, loading, failed,   \* FunnelState
  inflight,                           \* requests to /api/find/next
  hist, pos,                          \* the browser's entries; hist[1] is another site
  pending,                            \* a navigation of the router under way
  landing,                            \* landingCountRef
  view,                               \* FindResults: cursor and confirmed
  token, challenge,                   \* tokenStateRef; whether a challenge runs
  outcome,                            \* recordOutcome and its busy flag
  minted, redeemed,                   \* tokens issued, and those shown to Cloudflare
  sessions,                           \* FindSession rows of this session
  clicks, failures

reducerVars == <<answers, result, loading, failed, inflight, view>>
browserVars == <<hist, pos, pending, landing>>
outcomeVars == <<token, challenge, outcome, minted, redeemed, sessions>>
funnelVars == <<reducerVars, browserVars, outcomeVars, clicks, failures>>

Answer == [facet : Facets, value : Values]
Entry == Answer \cup {Damaged}
Outside == <<Null>>
OnSite == pos > 1

ASSUME FunnelData ==
  /\ Null \notin Apps /\ \A a \in Answer : a # Damaged
  /\ \A url \in Landings : url \in Seq(Entry)
  /\ \A n \in 0..MaxForwarded : \A h \in [1..n -> Answer] : Shortlist(h) \in Seq(Apps)

-----------------------------------------------------------------------------
(***************************************************************************)
(* Answers and URLs.                                                       *)
(***************************************************************************)
Take(s, n) == SubSeq(s, 1, IF Len(s) < n THEN Len(s) ELSE n)

FacetsOf(s) == {s[i].facet : i \in DOMAIN s}

\* The last answer for each facet wins; the order is that of first appearance.
dedupeAnswers(s) ==
  LET First(i) == s[i].facet \notin FacetsOf(Take(s, i - 1))
      Latest(f) == s[CHOOSE i \in DOMAIN s :
                       s[i].facet = f /\ f \notin FacetsOf(SubSeq(s, i + 1, Len(s)))]
      firsts == Keep(s, {i \in DOMAIN s : First(i)})
  IN [k \in DOMAIN firsts |-> Latest(firsts[k].facet)]

\* Mutant: what cannot be read is kept.
KeepDamaged(url) == url

\* Parsed up to the first entry that does not hold up.
parseFunnelAnswers(url) ==
  LET sound == {n \in 0..Len(url) : \A i \in 1..n : url[i] # Damaged}
      prefix == SubSeq(url, 1, CHOOSE n \in sound : \A m \in sound : m <= n)
  IN Take(dedupeAnswers(prefix), MaxForwarded)

\* Mutant: an answer is always appended.
Stacked(s, a) == Append(s, a)

\* Replaced in place, so that going back and answering again revises the answer.
Revise(s, a) ==
  IF a.facet \in FacetsOf(s)
  THEN [i \in DOMAIN s |-> IF s[i].facet = a.facet THEN a ELSE s[i]]
  ELSE Append(s, a)

\* Mutant: one entry too far.
PopAtLanding(count) ==
  IF count = 0 THEN "none" ELSE IF count >= landing THEN "pop" ELSE "rewrite"

backNavigation(count) ==
  IF count = 0 THEN "none" ELSE IF count > landing THEN "pop" ELSE "rewrite"

-----------------------------------------------------------------------------
(***************************************************************************)
(* The engine, and requests to it.                                         *)
(***************************************************************************)
\* handlers/find.rs next: a question about a facet not asked yet, or the shortlist.
Engine(history, force) ==
  LET open == Facets \ FacetsOf(history)
      done == force \/ open = {} \/ Len(history) >= MaxQuestions
  IN [of |-> history, asked |-> Len(history), done |-> done,
      facet |-> IF done THEN Null ELSE CHOOSE f \in open : TRUE,
      shortlist |-> IF done THEN Shortlist(history) ELSE <<>>]

ASSUME NullIsNoReply ==
  \A n \in 0..MaxForwarded : \A h \in [1..n -> Answer], force \in BOOLEAN : Engine(h, force) # Null

FirstView == [cursor |-> 1, confirmed |-> FALSE]

\* requestNext, with the dispatch that precedes it: `loading` hides question and
\* results, whose component is mounted anew afterwards.
Sent(requests, history, force) ==
  LET free == CHOOSE n \in 1..(Cardinality(requests) + 1) : \A r \in requests : r.id # n
  IN requests \cup {[id |-> free, answers |-> history, force |-> force]}

Awaiting(requests) ==
  inflight' = requests /\ loading' = TRUE /\ failed' = FALSE /\ view' = FirstView

Request(history, force) == Awaiting(Sent(inflight, history, force))

\* "answered", "restored", "back" and "restart" drop the result.
MoveTo(history) ==
  /\ answers' = history
  /\ result' = Null
  /\ Request(history, FALSE)

\* What the route makes of a request.
toFindNextInput(r) ==
  [answers |-> Take(dedupeAnswers(r.answers), MaxForwarded), force |-> r.force]

\* "resolved": whichever request it answers.
Resolved(r) ==
  /\ r \in inflight
  /\ inflight' = inflight \ {r}
  /\ \E input \in {toFindNextInput(r)} : result' = Engine(input.answers, input.force)
  /\ loading' = FALSE /\ failed' = FALSE
  /\ view' = IF result # Null /\ result.shortlist = result'.shortlist THEN view ELSE FirstView
  /\ UNCHANGED <<answers, browserVars, outcomeVars, clicks, failures>>

\* "failed" keeps answers and result.
Failed(r) ==
  /\ r \in inflight
  /\ failures < MaxFailures
  /\ failures' = failures + 1
  /\ inflight' = inflight \ {r}
  /\ loading' = FALSE /\ failed' = TRUE
  /\ UNCHANGED <<answers, result, view, browserVars, outcomeVars, clicks>>

-----------------------------------------------------------------------------
(***************************************************************************)
(* The address bar.                                                        *)
(***************************************************************************)
NoNavigation == [kind |-> "none", url |-> <<>>]
Navigate(kind, url) == pending' = [kind |-> kind, url |-> url]

\* A URL that could only partly be honoured is rewritten to the part that was.
CorrectUrl(url) ==
  IF url # parseFunnelAnswers(url) THEN Navigate("replace", parseFunnelAnswers(url))
  ELSE pending' = NoNavigation

\* Mutant: the funnel is restored whatever it holds.
RestoreAlways(url) == CorrectUrl(url) /\ MoveTo(parseFunnelAnswers(url))

\* The funnel moves to the URL's answers, and asks if it has no question and awaits none.
reconcileUrlAnswers(url) ==
  LET restored == parseFunnelAnswers(url)
  IN /\ CorrectUrl(url)
     /\ \/ restored # answers /\ MoveTo(restored)
        \/ /\ restored = answers
           /\ UNCHANGED <<answers, result>>
           /\ IF result = Null /\ ~loading THEN Request(restored, FALSE)
              ELSE UNCHANGED <<inflight, loading, failed, view>>

\* The effect runs when the query string changes.
ReadsAgain == hist'[pos'] # hist[pos] /\ pos' > 1

\* Mutant: not while the engine is being asked.
EffectWhenIdle ==
  IF ReadsAgain /\ ~loading THEN reconcileUrlAnswers(hist'[pos'])
  ELSE pending' = NoNavigation /\ UNCHANGED reducerVars

Effect ==
  IF ReadsAgain THEN reconcileUrlAnswers(hist'[pos'])
  ELSE pending' = NoNavigation /\ UNCHANGED reducerVars

\* The router commits a navigation; a push to the URL already shown replaces it.
Commit ==
  /\ pending # NoNavigation
  /\ IF pending.kind = "push" /\ pending.url # hist[pos]
     THEN hist' = Append(Take(hist, pos), pending.url) /\ pos' = pos + 1
     ELSE hist' = [hist EXCEPT ![pos] = pending.url] /\ pos' = pos
  /\ Effect
  /\ UNCHANGED <<landing, outcomeVars, clicks, failures>>

\* A traversal of the history; it discards the navigation under way.
Traverse(to) == hist' = hist /\ pos' = to

Click == OnSite /\ clicks < MaxClicks /\ clicks' = clicks + 1 /\ UNCHANGED failures

\* The browser's Back and Forward.
BrowserButton ==
  /\ Click
  /\ \E to \in {pos - 1, pos + 1} \cap DOMAIN hist : Traverse(to)
  /\ Effect
  /\ UNCHANGED <<landing, outcomeVars>>

-----------------------------------------------------------------------------
(***************************************************************************)
(* What the page offers, and its handlers.                                 *)
(***************************************************************************)
ShowsQuestion == ~loading /\ result # Null /\ ~result.done
ShowsResults == ~loading /\ result # Null /\ result.done

canGoBack == answers # <<>>

\* The card's tiles and keys, and the row under them.
OffersAnswers == ShowsQuestion /\ ~loading
OffersSteps == ShowsQuestion /\ canGoBack /\ ~loading

Busy == outcome.pc # "idle"
Top == IF view.cursor <= Len(result.shortlist) THEN result.shortlist[view.cursor] ELSE Null
OffersSuggestion == ShowsResults /\ Top # Null /\ ~view.confirmed /\ ~Busy

\* "Start over": on a question, beside a suggestion, or where there is none.
OffersRestart ==
  \/ OffersSteps
  \/ ShowsResults /\ (Top = Null \/ view.confirmed \/ ~Busy)

handleAnswer(value) ==
  /\ Click
  /\ OffersAnswers
  /\ LET history == Revise(answers, [facet |-> result.facet, value |-> value])
     IN MoveTo(history) /\ Navigate("push", history)
  /\ UNCHANGED <<hist, pos, landing, outcomeVars>>

\* "back" asks before the address bar moves; the effect asks again if the entry
\* underneath says otherwise.
handleBack ==
  LET history == SubSeq(answers, 1, Len(answers) - 1)
  IN /\ Click
     /\ OffersSteps
     /\ \/ /\ backNavigation(Len(answers)) = "rewrite"
           /\ MoveTo(history)
           /\ Navigate("replace", history)
           /\ UNCHANGED <<hist, pos>>
        \/ /\ backNavigation(Len(answers)) = "pop"
           /\ Traverse(pos - 1)
           /\ \/ /\ ~ReadsAgain
                 /\ MoveTo(history)
                 /\ pending' = NoNavigation
              \/ /\ ReadsAgain
                 /\ CorrectUrl(hist[pos'])
                 /\ LET restored == parseFunnelAnswers(hist[pos'])
                        asked == Sent(inflight, history, FALSE)
                    IN /\ answers' = restored /\ result' = Null
                       /\ Awaiting(IF restored = history THEN asked
                                   ELSE Sent(asked, restored, FALSE))
     /\ UNCHANGED <<landing, outcomeVars>>

handleShowResults ==
  /\ Click
  /\ OffersSteps
  /\ Request(answers, TRUE)
  /\ UNCHANGED <<answers, result, browserVars, outcomeVars>>

handleRestart ==
  /\ Click
  /\ OffersRestart
  /\ MoveTo(<<>>)
  /\ Navigate("push", <<>>)
  /\ UNCHANGED <<hist, pos, landing, outcomeVars>>

TryAgain ==
  /\ Click
  /\ failed
  /\ Request(answers, FALSE)
  /\ UNCHANGED <<answers, result, browserVars, outcomeVars>>

-----------------------------------------------------------------------------
(***************************************************************************)
(* Outcomes.                                                               *)
(***************************************************************************)
NoOutcome == [pc |-> "idle", app |-> Null, kind |-> Null, answers |-> <<>>, token |-> Null]

tokenToSend == IF token.spent THEN Null ELSE token.token

\* The challenge that render or reset started calls back, or never does.
ChallengeAnswers ==
  /\ challenge
  /\ challenge' = FALSE
  /\ minted' = minted + 1
  /\ token' = [token |-> minted', spent |-> FALSE]
  /\ UNCHANGED <<reducerVars, browserVars, outcome, redeemed, sessions, clicks, failures>>

\* "Yes, that is it" and "Not quite": recordOutcome takes the answers of the moment.
Report(kind) ==
  /\ Click
  /\ OffersSuggestion
  /\ outcome' = [pc |-> IF TurnstileEnabled THEN "waiting" ELSE "posting", app |-> Top,
                 kind |-> kind, answers |-> answers, token |-> Null]
  /\ view' = IF kind = "confirmed" THEN [view EXCEPT !.confirmed = TRUE]
             ELSE [view EXCEPT !.cursor = @ + 1]
  /\ UNCHANGED <<answers, result, loading, failed, inflight, browserVars, token, challenge,
                 minted, redeemed, sessions>>

\* Mutant: no bound on the wait.
AwaitTokenForever ==
  /\ outcome.pc = "waiting" /\ tokenToSend # Null
  /\ outcome' = [outcome EXCEPT !.pc = "posting", !.token = tokenToSend]
  /\ UNCHANGED <<reducerVars, browserVars, token, challenge, minted, redeemed, sessions,
                 clicks, failures>>

\* awaitTurnstileToken: the token once there is one, or none when the wait is over.
AwaitToken ==
  /\ outcome.pc = "waiting"
  /\ outcome' = [outcome EXCEPT !.pc = "posting", !.token = tokenToSend]
  /\ UNCHANGED <<reducerVars, browserVars, token, challenge, minted, redeemed, sessions,
                 clicks, failures>>

\* Mutant: the token goes only if the outcome was recorded.
CycleOnSuccess(sent) ==
  IF sent = Null \/ failures' # failures THEN UNCHANGED <<token, challenge>>
  ELSE token' = [token |-> Null, spent |-> TRUE] /\ challenge' = TRUE

\* The token goes once the request that carried it is over, however it ended.
cycleToken(sent) ==
  IF sent = Null THEN UNCHANGED <<token, challenge>>
  ELSE token' = [token |-> Null, spent |-> TRUE] /\ challenge' = TRUE

verifyTurnstileToken(sent) == TurnstileEnabled /\ sent # Null

\* An environment without Turnstile counts every outcome as verified.
mayRecordOutcome(configured, verified) == ~configured \/ verified

\* The route verifies the token before it writes; the first row of a session for an
\* app and an outcome stays.  A failure may come before the verification (the rate
\* limit), after it, or after the row is written (the response is lost).
Verify == redeemed' = IF outcome.token = Null THEN redeemed ELSE Append(redeemed, outcome.token)

Record ==
  sessions' = IF \E s \in sessions : s.app = outcome.app /\ s.kind = outcome.kind THEN sessions
              ELSE sessions \cup {[app |-> outcome.app, kind |-> outcome.kind,
                                   answers |-> Take(dedupeAnswers(outcome.answers), MaxForwarded),
                                   verified |-> mayRecordOutcome(TurnstileEnabled,
                                                  verifyTurnstileToken(outcome.token))]}

PostOutcome ==
  /\ outcome.pc = "posting"
  /\ \/ Verify /\ Record /\ UNCHANGED failures
     \/ /\ failures < MaxFailures /\ failures' = failures + 1
        /\ \/ UNCHANGED <<redeemed, sessions>>
           \/ Verify /\ UNCHANGED sessions
           \/ Verify /\ Record
  /\ cycleToken(outcome.token)
  /\ outcome' = NoOutcome
  /\ UNCHANGED <<reducerVars, browserVars, minted, clicks>>

-----------------------------------------------------------------------------
\* FindPage renders the first question unless the URL resumes a funnel or the engine
\* cannot be reached; then the effect runs.
FunnelInit ==
  /\ \E url \in Landings, reached \in BOOLEAN :
       LET restored == parseFunnelAnswers(url)
           initialResult == IF url = <<>> /\ reached THEN Engine(<<>>, FALSE) ELSE Null
       IN /\ hist = <<Outside, url>> /\ pos = 2
          /\ landing = Len(restored)
          /\ answers = restored /\ result = initialResult
          /\ loading = (initialResult = Null)
          /\ inflight = IF initialResult # Null THEN {}
                        ELSE {[id |-> 1, answers |-> restored, force |-> FALSE]}
          /\ pending = IF url # restored THEN [kind |-> "replace", url |-> restored]
                                         ELSE NoNavigation
  /\ failed = FALSE /\ view = FirstView
  /\ token = [token |-> Null, spent |-> FALSE] /\ challenge = TurnstileEnabled
  /\ outcome = NoOutcome /\ minted = 0 /\ redeemed = <<>> /\ sessions = {}
  /\ clicks = 0 /\ failures = 0

Answered == \E r \in inflight : Resolved(r) \/ Failed(r)

FunnelNext ==
  \/ OnSite /\ (Answered \/ Commit)
  \/ BrowserButton
  \/ \E value \in Values : handleAnswer(value)
  \/ handleBack \/ handleShowResults \/ handleRestart \/ TryAgain
  \/ OnSite /\ ChallengeAnswers
  \/ \E kind \in {"confirmed", "rejected"} : Report(kind)
  \/ AwaitToken \/ PostOutcome

FunnelSpec == FunnelInit /\ [][FunnelNext]_funnelVars

\* The server answers, and the wait for a token is bounded.
Fairness == WF_funnelVars(OnSite /\ Answered) /\ WF_funnelVars(AwaitToken \/ PostOutcome)

FunnelFairSpec == FunnelSpec /\ Fairness

-----------------------------------------------------------------------------
(***************************************************************************)
(* Properties.                                                             *)
(***************************************************************************)
\* Every variable keeps its shape: results are the engine's, outcomes name an app.
FunnelTypeOK ==
  /\ answers \in Seq(Answer) /\ result \in [of : Seq(Answer), asked : Nat, done : BOOLEAN,
                                            facet : Facets \cup {Null}, shortlist : Seq(Apps)] \cup {Null}
  /\ {loading, failed, challenge, view.confirmed, token.spent} \subseteq BOOLEAN
  /\ \A q \in inflight : q \in [id : Nat, answers : Seq(Answer), force : BOOLEAN]
  /\ pos \in DOMAIN hist /\ landing \in Nat
  /\ pending.kind \in {"none", "push", "replace"} /\ pending.url \in Seq(Answer)
  /\ {token.token, outcome.token} \subseteq 1..minted \cup {Null}
  /\ outcome.pc \in {"idle", "waiting", "posting"}
  /\ \A s \in sessions : s.app \in Apps /\ s.verified \in BOOLEAN

\* The engine is never given two answers to one facet, whatever links were followed,
\* answers revised and late replies shown (dedupeAnswers: "score each facet at most once").
OneAnswerPerFacet ==
  \A s \in {answers} \cup {r.answers : r \in inflight} : Cardinality(FacetsOf(s)) = Len(s)

Distinguishable == \A i \in 2..(Len(hist) - 1) : hist[i] # hist[i + 1]

\* An entry can be told from its neighbours, and what the funnel holds fits a link: two
\* equal neighbouring entries escape the effect, and more answers than are forwarded are
\* cut when they come back.
Readable == Distinguishable /\ Len(answers) <= MaxForwarded

\* With no navigation under way the address bar says what the funnel holds, so a
\* reload or a shared link resumes it: through any interleaving of in-page moves, late
\* commits, Back and Forward.
UrlAgrees ==
  OnSite /\ pending = NoNavigation /\ Readable => parseFunnelAnswers(hist[pos]) = answers

\* A committed navigation costs the engine nothing: the turn it belongs to has already
\* asked (find-history.e2e: "exactly one engine round trip").  Only after a failed turn
\* does it ask again.
CommitAsksNothing ==
  [][Commit /\ ~failed /\ Len(answers) <= MaxForwarded => inflight' = inflight]_funnelVars

\* With no navigation under way, the in-page Back stays on the site, however the history
\* was walked before (backNavigation: "popping past them would leave the site").  Back
\* between two equal entries takes a navigation back without the funnel being read again:
\* a later in-page Back may then count an answer the history never got.
BackStaysOnSite ==
  [][handleBack /\ pending = NoNavigation /\ Readable => pos' > 1]_funnelVars

\* With a navigation under way it should as well: backNavigation counts answers, but the
\* entry a "pop" goes back over may not have been pushed yet.
BackNeverLeaves == [][handleBack => pos' > 1]_funnelVars

\* The question or the shortlist on display, once nothing is awaited, is the engine's
\* for the answers the visitor has given.
ShownForTheAnswers ==
  OnSite /\ inflight = {} /\ ~loading /\ result # Null => result.of = answers

\* No token is shown to Cloudflare twice, whether the request that carried it was
\* refused, failed or answered (submitOutcome: a dead token would 403 every later one).
TokenRedeemedOnce == \A i, j \in DOMAIN redeemed : redeemed[i] = redeemed[j] => i = j

\* The questions and answers are sound and no token is spent twice.
FunnelInv == FunnelTypeOK /\ OneAnswerPerFacet /\ UrlAgrees /\ TokenRedeemedOnce

\* The history is walked without leaving the site and without asking anew.
HistoryKept == CommitAsksNothing /\ BackStaysOnSite

\* The page never stays on "Thinking" and the buttons of a suggestion never stay dead,
\* though requests fail and Turnstile may never call back.
NeverStuck == (loading ~> (~loading \/ ~OnSite)) /\ (Busy ~> ~Busy)
================================================================================
