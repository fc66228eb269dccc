-------------------------------- MODULE Revenue --------------------------------
(***************************************************************************)
(* From a page view to the reward pools.  An app's page sends a tracking   *)
(* beacon (TrafficBeacon) and asks for an ad (AdSlot, useAdServe); their   *)
(* routes find or create the view of the visitor's session.  Later         *)
(* scripts/settleEpoch.ts splits a week's earnings by the views that       *)
(* passed the challenge and funds the apps' pools, one transaction for     *)
(* each.  NebulousProgram has the program in detail; here funding a pool   *)
(* is one step that the program accepts or refuses.                        *)
(*                                                                         *)
(* One visitor, who may have several tabs.  Amounts are in raw token units *)
(* (earnings are spent one token to the dollar), shares in twentieths.     *)
(***************************************************************************)
EXTENDS Integers, Sequences, FiniteSets, Functions, FiniteSetsExt

CONSTANTS
  Apps, Tabs,
  NoApp,          \* the tab is on another page
  Captcha,        \* is a Turnstile site key configured?
  Earnings,       \* what a week earns
  Stakes,         \* the stakes the apps may start with, by app and pool
  Past,           \* the views there may be at first: sequences of apps
  MaxVisits,      \* bound: pages opened, before the last week
  MaxSessions,    \* bound: half-hour windows of the visitor
  MaxRuns,        \* bound: runs of the script
  MaxFaults       \* bound: lost requests and replies, crashes, withdrawals

ASSUME AppsFinite == IsFiniteSet(Apps)
ASSUME Beginnings == Past \subseteq Seq(Apps) /\ Stakes \subseteq [Apps -> [{"vote", "tags"} -> Nat]]
ASSUME RevenueBounds ==
  /\ NoApp \notin Apps /\ Captcha \in BOOLEAN
  /\ {Earnings, MaxVisits, MaxSessions, MaxRuns, MaxFaults} \subseteq Nat

VARIABLES
  tabs,          \* what each tab's beacon and ad slot are at
  calls,         \* requests under way
  views,         \* table PageView, in createdAt order
  impressions,   \* table AdImpression
  viewCount,     \* App.viewCount
  session,       \* the visitor's session now
  week,          \* the week now; a run settles the one before
  solved,        \* history: challenges the visitor passed on an app's page
  accounts,      \* apps that have an AppAccount
  stake,         \* its total_vote_stake and total_tag_stake
  cached,        \* App.voteWeight and App.stakeTotal
  job,           \* the run of the script
  outcomes,      \* history: pools paid, deferred or skipped, by run
  visits, faults

traffic == <<tabs, calls, views, impressions, viewCount, session, solved, visits>>
settlement == <<week, accounts, stake, cached, job, outcomes>>
vars == <<traffic, settlement, faults>>

Pools == {"vote", "tags"}
NoStake == [vote |-> 0, tags |-> 0]
Idle == [pc |-> "idle", run |-> 0, week |-> 0, todo |-> {}, gross |-> [a \in Apps |-> 0],
         cached |-> [a \in Apps |-> NoStake], app |-> NoApp, share |-> NoStake]
Closed == [app |-> NoApp, visit |-> 0, ready |-> FALSE, sent |-> FALSE, timer |-> FALSE,
           challenge |-> FALSE, ad |-> 0]

Init ==
  /\ tabs = [t \in Tabs |-> Closed]
  /\ calls = {} /\ impressions = <<>>
  /\ \E s \in Past :
       /\ views = [i \in DOMAIN s |->
                     [app |-> s[i], session |-> 1, week |-> 1, eligible |-> TRUE]]
       /\ solved = [a \in Apps |-> Cardinality({i \in DOMAIN s : s[i] = a})]
  /\ viewCount = solved
  /\ session = 1 /\ week = 1
  /\ stake \in Stakes
  /\ accounts \in SUBSET Apps /\ \A a \in Apps \ accounts : stake[a] = NoStake
  /\ cached = stake
  /\ job = Idle /\ outcomes = {}
  /\ visits = 0 /\ faults = 0

Fault == faults < MaxFaults /\ faults' = faults + 1

-----------------------------------------------------------------------------
(***************************************************************************)
(* The page.                                                               *)
(***************************************************************************)
Beacon(t, tab, token) == [kind |-> "track", tab |-> t, visit |-> tab.visit, app |-> tab.app,
                          ready |-> tab.ready, token |-> token, pc |-> "sent",
                          session |-> 0, view |-> 0, eligible |-> FALSE]
AdRequest(t, tab) == [Beacon(t, tab, FALSE) EXCEPT !.kind = "serve"]

\* send: once per run of the effect.
send(t, token) ==
  calls' = IF tabs[t].sent THEN calls ELSE calls \cup {Beacon(t, tabs[t], token)}

\* What a run of the effect leaves: a timer, or without a site key a beacon.
Effect(tab) == [tab EXCEPT !.sent = ~Captcha, !.timer = Captcha, !.challenge = Captcha /\ tab.ready]
SentAtOnce(t, tab) == IF Captcha THEN {} ELSE {Beacon(t, tab, FALSE)}

\* An app's page is opened: the beacon waits for its challenge, the ad slot does not.
Open(t, a) ==
  /\ visits < MaxVisits /\ week <= MaxRuns /\ visits' = visits + 1
  /\ LET tab == [Closed EXCEPT !.app = a, !.visit = visits + 1]
     IN /\ tabs' = [tabs EXCEPT ![t] = Effect(tab)]
        /\ calls' = calls \cup {AdRequest(t, tab)} \cup SentAtOnce(t, tab)
  /\ UNCHANGED <<views, impressions, viewCount, session, solved, settlement, faults>>

\* Turnstile's script is there: the effect starts over, and the view is sent again even
\* when the first run has already given up.
ScriptReady(t) ==
  /\ tabs[t].app # NoApp /\ ~tabs[t].ready
  /\ LET tab == [tabs[t] EXCEPT !.ready = TRUE]
     IN /\ tabs' = [tabs EXCEPT ![t] = Effect(tab)]
        /\ calls' = calls \cup SentAtOnce(t, tab)
  /\ UNCHANGED <<views, impressions, viewCount, session, solved, visits, settlement, faults>>

\* TURNSTILE_TIMEOUT_MS
TimeUp(t) ==
  /\ tabs[t].timer
  /\ send(t, FALSE)
  /\ tabs' = [tabs EXCEPT ![t].timer = FALSE, ![t].sent = TRUE]
  /\ UNCHANGED <<views, impressions, viewCount, session, solved, visits, settlement, faults>>

Solve(t) ==
  /\ tabs[t].challenge
  /\ send(t, TRUE)
  /\ tabs' = [tabs EXCEPT ![t].challenge = FALSE, ![t].sent = TRUE]
  /\ solved' = [solved EXCEPT ![tabs[t].app] = @ + 1]
  /\ UNCHANGED <<views, impressions, viewCount, session, visits, settlement, faults>>

\* useAdServe.onClick, with the impression that came with the ad.
Click(t) ==
  /\ tabs[t].ad # 0
  /\ impressions' = [impressions EXCEPT ![tabs[t].ad].clicked = TRUE]
  /\ UNCHANGED <<tabs, calls, views, viewCount, session, solved, visits, settlement, faults>>

Leave(t) ==
  /\ tabs[t].app # NoApp
  /\ tabs' = [tabs EXCEPT ![t] = Closed]
  /\ UNCHANGED <<calls, views, impressions, viewCount, session, solved, visits, settlement, faults>>

\* deriveSessionId: another half hour begins.
NextSession ==
  /\ session < MaxSessions
  /\ session' = session + 1
  /\ UNCHANGED <<tabs, calls, views, impressions, viewCount, solved, visits, settlement, faults>>

-----------------------------------------------------------------------------
(***************************************************************************)
(* The routes.  Each query of theirs is a step.                            *)
(***************************************************************************)
Becomes(c, d) == calls' = (calls \ {c}) \cup {d}

\* Mutant: the challenge is taken as passed when there is no token.
TrustMissingToken(c, passed) == IF c.token THEN passed ELSE TRUE

verifyTurnstileToken(c, passed) == c.token /\ passed

\* resolveVisitor, then the challenge is verified; Cloudflare may say no.
Receive(c) ==
  /\ c.pc = "sent"
  /\ \E passed \in BOOLEAN :
       Becomes(c, [c EXCEPT !.pc = "find", !.session = session,
                            !.eligible = c.kind = "track" /\ verifyTurnstileToken(c, passed)])
  /\ UNCHANGED <<tabs, views, impressions, viewCount, session, solved, visits, settlement, faults>>

\* The request does not get through, or Cloudflare does not answer.
Lose(c) ==
  /\ c.pc = "sent" /\ Fault
  /\ calls' = calls \ {c}
  /\ UNCHANGED <<tabs, views, impressions, viewCount, session, solved, visits, settlement>>

\* There is no active ad, or no such app: an ad slot is answered before a view is looked for.
NoAd(c) ==
  /\ c.pc = "find" /\ c.kind = "serve"
  /\ calls' = calls \ {c}
  /\ UNCHANGED <<tabs, views, impressions, viewCount, session, solved, visits, settlement, faults>>

\* Mutant: the page view of the session, whatever its app.
ViewOfSession(c) == {i \in DOMAIN views : views[i].session = c.session}

ViewsOf(c) == {i \in ViewOfSession(c) : views[i].app = c.app}

\* get_or_create_page_view looks for the session's view of the app; a beacon that finds
\* one is a duplicate.
Find(c) ==
  /\ c.pc = "find"
  /\ IF ViewsOf(c) = {} THEN Becomes(c, [c EXCEPT !.pc = "insert"])
     ELSE IF c.kind = "track" THEN calls' = calls \ {c}
     ELSE Becomes(c, [c EXCEPT !.pc = "impress", !.view = Max(ViewsOf(c))])
  /\ UNCHANGED <<tabs, views, impressions, viewCount, session, solved, visits, settlement, faults>>

\* It did not find one.
Insert(c) ==
  /\ c.pc = "insert"
  /\ views' = Append(views, [app |-> c.app, session |-> c.session, week |-> week,
                             eligible |-> c.eligible])
  /\ Becomes(c, [c EXCEPT !.pc = IF c.kind = "track" THEN "refresh" ELSE "impress",
                          !.view = Len(views) + 1])
  /\ UNCHANGED <<tabs, impressions, viewCount, session, solved, visits, settlement, faults>>

\* refresh_app, after a beacon's own view
Refresh(c) ==
  /\ c.pc = "refresh"
  /\ viewCount' = [viewCount EXCEPT ![c.app] = Cardinality({i \in DOMAIN views : views[i].app = c.app})]
  /\ calls' = calls \ {c}
  /\ UNCHANGED <<tabs, views, impressions, session, solved, visits, settlement, faults>>

\* Mutant: the slot takes the number the impression would have next.
ImpressAnother(c) ==
  /\ c.pc = "impress"
  /\ impressions' = Append(impressions, [app |-> c.app, view |-> c.view, clicked |-> FALSE])
  /\ calls' = calls \ {c}
  /\ tabs' = IF tabs[c.tab].visit = c.visit
               THEN [tabs EXCEPT ![c.tab].ad = Len(impressions) + 2] ELSE tabs
  /\ UNCHANGED <<views, viewCount, session, solved, visits, settlement, faults>>

\* The ad is chosen and its impression attached to the view; the slot may be gone.
Impress(c) ==
  /\ c.pc = "impress"
  /\ impressions' = Append(impressions, [app |-> c.app, view |-> c.view, clicked |-> FALSE])
  /\ calls' = calls \ {c}
  /\ tabs' = IF tabs[c.tab].visit = c.visit
               THEN [tabs EXCEPT ![c.tab].ad = Len(impressions) + 1] ELSE tabs
  /\ UNCHANGED <<views, viewCount, session, solved, visits, settlement, faults>>

-----------------------------------------------------------------------------
(***************************************************************************)
(* scripts/settleEpoch.ts                                                  *)
(***************************************************************************)
\* Math.round of n / d
Round(n, d) == (2 * n + d) \div (2 * d)

EligibleViews(w, a) ==
  Cardinality({i \in DOMAIN views : views[i].app = a /\ views[i].week = w /\ views[i].eligible})

trafficOf(w) == [a \in Apps |-> EligibleViews(w, a)]

allocateByTrafficShare(w) ==
  LET total == SumFunctionOnSet(trafficOf(w), Apps)
  IN [a \in Apps |-> IF total = 0 THEN 0 ELSE Round(Earnings * EligibleViews(w, a), total)]

\* Mutant: the fee is not taken off.
FeeForgotten(gross, db) ==
  IF db.tags = 0 THEN [vote |-> 20 * gross, tags |-> 0]
  ELSE IF db.vote = 0 THEN [vote |-> 0, tags |-> 20 * gross]
  ELSE [vote |-> 10 * gross, tags |-> 10 * gross]

\* Mutant: the half of a side without stake goes to nobody.
HalfUnspent(gross, db) ==
  [vote |-> IF db.vote = 0 THEN 0 ELSE 9 * gross, tags |-> IF db.tags = 0 THEN 0 ELSE 9 * gross]

\* In twentieths: ten percent are kept, and a side with no stake leaves its half to the
\* other one.
Shares(gross, db) ==
  IF db.tags = 0 THEN [vote |-> 18 * gross, tags |-> 0]
  ELSE IF db.vote = 0 THEN [vote |-> 0, tags |-> 18 * gross]
  ELSE [vote |-> 9 * gross, tags |-> 9 * gross]

\* The stake dropped below MIN_STAKE_FRACTION of what the run read.
Dropped(a, p) == 100 * stake[a][p] < 95 * job.cached[a][p]

Running == job.pc \in {"apps", "vote", "tags"}

\* Earnings, apps and traffic are read.
StartRun ==
  /\ ~Running /\ job.run < MaxRuns /\ week > 1
  /\ LET gross == allocateByTrafficShare(week - 1)
     IN job' = [Idle EXCEPT !.pc = "apps", !.run = job.run + 1, !.week = week - 1,
                            !.gross = gross, !.cached = cached,
                            !.todo = {a \in Apps : gross[a] > 0}]
  /\ UNCHANGED <<traffic, week, accounts, stake, cached, outcomes, faults>>

Outcome(a, p, what) ==
  [no |-> Cardinality(outcomes) + 1, run |-> job.run, app |-> a, pool |-> p, what |-> what,
   amount |-> Round(Shares(job.gross[a], job.cached[a])[p], 20)]

\* Mutant: an app whose pool was left out is looked at again.
CheckAppUntilPaid(a) ==
  /\ job.pc = "apps" /\ a \in job.todo \cap accounts
  /\ LET share == Shares(job.gross[a], job.cached[a])
         deferred == {p \in Pools : share[p] > 0 /\ Dropped(a, p)}
     IN job' = [job EXCEPT !.pc = "vote", !.app = a,
                  !.todo = IF deferred = {} THEN @ \ {a} ELSE @,
                  !.share = [p \in Pools |-> IF p \in deferred THEN 0 ELSE share[p]]]
  /\ UNCHANGED <<traffic, week, accounts, stake, cached, outcomes, faults>>

\* The next app: its account is fetched and the pools whose stake dropped are left out.
CheckApp(a) ==
  /\ job.pc = "apps" /\ a \in job.todo \cap accounts
  /\ LET share == Shares(job.gross[a], job.cached[a])
         deferred == {p \in Pools : share[p] > 0 /\ Dropped(a, p)}
     IN /\ outcomes' = outcomes \cup {Outcome(a, p, "deferred") : p \in deferred}
        /\ job' = [job EXCEPT !.pc = "vote", !.app = a, !.todo = @ \ {a},
                     !.share = [p \in Pools |-> IF p \in deferred THEN 0 ELSE share[p]]]
  /\ UNCHANGED <<traffic, week, accounts, stake, cached, faults>>

Skip(a, why) ==
  /\ job.pc = "apps" /\ a \in job.todo
  /\ outcomes' = outcomes \cup
       {Outcome(a, p, why) : p \in {q \in Pools : Shares(job.gross[a], job.cached[a])[q] > 0}}
  /\ job' = [job EXCEPT !.todo = @ \ {a}]
  /\ UNCHANGED <<traffic, week, accounts, stake, cached>>

\* The fetch throws: the app has no account yet, or the request failed.  The script takes
\* both for the former and goes on with the next app.
SkipApp(a) ==
  \/ a \notin accounts /\ Skip(a, "absent") /\ UNCHANGED faults
  \/ a \in accounts /\ Skip(a, "unread") /\ Fault

\* fund_app_rewards refuses an empty amount and an empty pool.
Accepted(a, p) == Outcome(a, p, "paid").amount > 0 /\ stake[a][p] > 0

Funded(p) == IF p = "vote" THEN "tags" ELSE "apps"

\* One pool after the other; a transaction that is refused, or whose reply is lost, ends
\* the run.
FundPool(p) ==
  /\ job.pc = p
  /\ IF job.share[p] = 0
       THEN job' = [job EXCEPT !.pc = Funded(p)] /\ UNCHANGED <<outcomes, faults>>
       ELSE \/ /\ Accepted(job.app, p)
               /\ outcomes' = outcomes \cup {Outcome(job.app, p, "paid")}
               /\ \/ job' = [job EXCEPT !.pc = Funded(p)] /\ UNCHANGED faults
                  \/ job' = [job EXCEPT !.pc = "failed"] /\ Fault
            \/ /\ ~Accepted(job.app, p)
               /\ job' = [job EXCEPT !.pc = "failed"]
               /\ UNCHANGED <<outcomes, faults>>
  /\ UNCHANGED <<traffic, week, accounts, stake, cached>>

Complete ==
  /\ job.pc = "apps" /\ job.todo = {}
  /\ job' = [job EXCEPT !.pc = "complete"]
  /\ UNCHANGED <<traffic, week, accounts, stake, cached, outcomes, faults>>

Crash ==
  /\ Running /\ Fault
  /\ job' = [job EXCEPT !.pc = "failed"]
  /\ UNCHANGED <<traffic, week, accounts, stake, cached, outcomes>>

\* The stakers of a pool withdraw everything while a run is on; the ledger follows.
Withdraw(a, p) ==
  /\ Running /\ stake[a][p] > 0 /\ Fault
  /\ stake' = [stake EXCEPT ![a][p] = 0]
  /\ UNCHANGED <<traffic, week, accounts, cached, job, outcomes>>

\* An app gets its account, with nothing staked yet.
InitApp(a) ==
  /\ a \notin accounts
  /\ accounts' = accounts \cup {a}
  /\ UNCHANGED <<traffic, week, stake, cached, job, outcomes, faults>>

refresh_app(a) ==
  /\ cached[a] # stake[a]
  /\ cached' = [cached EXCEPT ![a] = stake[a]]
  /\ UNCHANGED <<traffic, week, accounts, stake, job, outcomes, faults>>

\* Requests and timers take seconds: none of them outlives its week.
NextWeek ==
  /\ week <= MaxRuns
  /\ calls = {} /\ \A t \in Tabs : ~tabs[t].timer
  /\ week' = week + 1
  /\ UNCHANGED <<traffic, accounts, stake, cached, job, outcomes, faults>>

-----------------------------------------------------------------------------
Script == \/ Complete
          \/ \E a \in Apps : CheckApp(a) \/ SkipApp(a)
          \/ \E p \in Pools : FundPool(p)

Route(c) == Receive(c) \/ NoAd(c) \/ Find(c) \/ Insert(c) \/ Refresh(c) \/ Impress(c)

Next ==
  \/ \E t \in Tabs :
       \/ \E a \in Apps : Open(t, a)
       \/ ScriptReady(t) \/ TimeUp(t) \/ Solve(t) \/ Click(t) \/ Leave(t)
  \/ \E c \in calls : Route(c) \/ Lose(c)
  \/ NextSession \/ NextWeek
  \/ StartRun \/ Script \/ Crash
  \/ \E a \in Apps : InitApp(a) \/ refresh_app(a) \/ \E p \in Pools : Withdraw(a, p)

Spec == Init /\ [][Next]_vars

\* A run that is not killed goes on, and a request that got through is answered.
FairSpec == Spec /\ WF_vars(Script)

-----------------------------------------------------------------------------
\* Type invariant.
TypeOK ==
  /\ \A t \in Tabs : /\ tabs[t].app \in Apps \cup {NoApp}
                     /\ tabs[t].ad \in 0..Len(impressions)
                     /\ tabs[t].sent \in BOOLEAN /\ tabs[t].timer \in BOOLEAN
  /\ \A c \in calls : c.app \in Apps /\ c.view \in 0..Len(views) /\ c.session \in 0..session
  /\ views \in Seq([app : Apps, session : 1..session, week : 1..week, eligible : BOOLEAN])
  /\ viewCount \in [Apps -> 0..Len(views)]
  /\ job.pc \in {"idle", "apps", "vote", "tags", "complete", "failed"}
  /\ job.todo \subseteq Apps /\ job.week < week /\ accounts \subseteq Apps

\* However often a beacon is sent, timed out, repeated when the script comes late, or
\* overtaken by the ad slot, no more views of an app can earn than challenges were passed
\* on its page (turnstile.ts:3-7).
EligibleViewsVerified ==
  \A a \in Apps :
    Cardinality({i \in DOMAIN views : views[i].app = a /\ views[i].eligible}) <= solved[a]

\* The ad on display, and so the impression a click marks, belongs to a view of the app
\* whose page is open, whichever answers are late (useAdServe.ts:24-42).
AdOfThePage ==
  \A t \in Tabs : tabs[t].ad # 0 =>
    LET i == impressions[tabs[t].ad] IN i.app = tabs[t].app /\ views[i.view].app = i.app

\* What is counted was earned.
Inv == TypeOK /\ EligibleViewsVerified /\ AdOfThePage

OutcomesOf(r, w) == {o \in outcomes : o.run = r /\ o.what = w}
amountIn(O) == [o \in O |-> o.amount]
Amount(O) == SumFunctionOnSet(amountIn(O), O)

WithinEarnings(paid) ==
  20 * Amount(paid) <= 18 * Earnings + 9 * Cardinality(Apps) + 10 * Cardinality(paid)

\* A run never pays out more than the week earned less the fee, rounding to the nearest
\* unit aside, however its apps share the traffic (settleEpoch.ts:96-106).
RunPaysWithinEarnings == \A r \in 1..job.run : WithinEarnings(OutcomesOf(r, "paid"))

Skipped(O) == {o \in O : o.what \in {"absent", "unread"}}

\* A run that says "Settlement complete" has paid every app with traffic its share, once,
\* but for the pools it said it deferred and the apps it skipped.  An app is skipped as a
\* whole or not at all, and one skipped for want of an account had no stake when the run
\* began: "never voted/staked on-chain" (settleEpoch.ts:82-164).
CompleteRunsAreWhole ==
  job.pc = "complete" =>
    \A a \in Apps :
      LET of == {o \in outcomes : o.run = job.run /\ o.app = a}
      IN /\ 20 * Amount(of) \in (18 * job.gross[a] - 20)..(18 * job.gross[a] + 20)
         /\ \A o, q \in of : o.pool = q.pool => o = q
         /\ Skipped(of) \in {{}, of}
         /\ (\E o \in of : o.what = "absent") => job.cached[a] = NoStake

\* The shares of a run add up.
SharesAddUp == RunPaysWithinEarnings /\ CompleteRunsAreWhole

\* A run comes to an end, paid or not (settleEpoch.ts:82-164).
RunEnds == Running ~> ~Running

\* TrafficBeacon.tsx:32-33: "refreshes and re-mounts won't double-count".  (The views
\* there are at first are of session 1.)
OneViewPerSession ==
  \A i, j \in DOMAIN views :
    views[i].app = views[j].app /\ views[i].session = views[j].session /\ views[i].session > 1 => i = j

\* settleEpoch.ts:36-38: skipping "just defers that pool's funding to the next epoch".
NoFundsLost ==
  job.pc = "complete" =>
    \A d \in outcomes : d.what = "deferred" /\ d.run < job.run =>
      \E o \in outcomes : /\ o.run > d.run /\ o.app = d.app /\ o.pool = d.pool
                          /\ o.what = "deferred" \/ o.amount >= d.amount

================================================================================
