----------------------------- MODULE Revenue_proofs -----------------------------
(***************************************************************************)
(* Theorems about Revenue, for every set of apps, every number of tabs,    *)
(* visits, sessions, runs and faults, and every earnings of a week.        *)
(*                                                                         *)
(* The traffic half counts: views that earn, and beacons that may still    *)
(* become one, are never more than the challenges passed (Verified).  The  *)
(* settlement half follows a run app by app: each pool with a share has    *)
(* one outcome, of that share, or is still to be funded (DecidedOnce,      *)
(* AllDecided), an app is skipped as a whole (SkippedWhole), and what is   *)
(* paid, owed and still to come are never more than the shares of all apps *)
(* but for rounding (Budget).                                              *)
(***************************************************************************)
EXTENDS Revenue, DataTheorems

Calls ==
  [kind : {"track", "serve"}, tab : Tabs, visit : Nat, app : Apps, ready : BOOLEAN,
   token : BOOLEAN, pc : {"sent", "find", "insert", "refresh", "impress"}, session : Nat,
   view : Nat, eligible : BOOLEAN]
TabStates ==
  [app : Apps \cup {NoApp}, visit : Nat, ready : BOOLEAN, sent : BOOLEAN, timer : BOOLEAN,
   challenge : BOOLEAN, ad : Nat]
Views == [app : Apps, session : 1..session, week : 1..week, eligible : BOOLEAN]
Impressions == [app : Apps, view : Nat, clicked : BOOLEAN]

Shapes ==
  /\ session \in Nat \ {0} /\ week \in Nat \ {0} /\ visits \in Nat
  /\ tabs \in [Tabs -> TabStates]
  /\ calls \subseteq Calls /\ IsFiniteSet(calls)
  /\ views \in Seq(Views)
  /\ impressions \in Seq(Impressions)
  /\ viewCount \in [Apps -> 0..Len(views)]
  /\ solved \in [Apps -> Nat]

\* What a tab may still send, and the ad it shows, are of its page.
TabSound(t) ==
  /\ tabs[t].visit <= visits
  /\ tabs[t].timer \/ tabs[t].challenge => tabs[t].app # NoApp
  /\ tabs[t].app # NoApp => tabs[t].visit > 0
  /\ tabs[t].ad # 0 => /\ tabs[t].ad \in DOMAIN impressions
                       /\ impressions[tabs[t].ad].app = tabs[t].app

\* A request is of the page it came from, as long as that is open, and has found or made
\* a view of its app.
CallSound(c) ==
  /\ c.session <= session /\ c.view <= Len(views)
  /\ c.pc # "sent" => c.session > 0
  /\ c.visit \in 1..visits
  /\ tabs[c.tab].visit = c.visit => tabs[c.tab].app = c.app
  /\ c.pc = "impress" => c.view \in DOMAIN views /\ views[c.view].app = c.app
  /\ c.eligible => c.token
  /\ c.token => c.kind = "track"

ImpressionsOfViews ==
  \A i \in DOMAIN impressions :
    impressions[i].view \in DOMAIN views /\ views[impressions[i].view].app = impressions[i].app

\* The views of a that earn, and the requests that may still add one.
Earning(a) == {i \in DOMAIN views : views[i].app = a /\ views[i].eligible}
Passing(a) == {c \in calls : c.app = a /\ c.token /\ c.pc # "refresh"}

Verified == \A a \in Apps : Cardinality(Earning(a)) + Cardinality(Passing(a)) <= solved[a]

TrafficSound ==
  /\ Shapes
  /\ \A t \in Tabs : TabSound(t)
  /\ \A c \in calls : CallSound(c)
  /\ ImpressionsOfViews
  /\ Verified

-----------------------------------------------------------------------------
(***************************************************************************)
(* Traffic.                                                                *)
(***************************************************************************)
LEMMA Bounds ==
  /\ NoApp \notin Apps /\ Captcha \in BOOLEAN
  /\ {Earnings, MaxVisits, MaxSessions, MaxRuns, MaxFaults} \subseteq Nat
  /\ IsFiniteSet(Apps)
BY RevenueBounds, AppsFinite

\* Sequences that grow, and whose elements change.
LEMMA Sequences ==
  ASSUME NEW S, NEW s \in Seq(S)
  PROVE  /\ DOMAIN s = 1..Len(s) /\ Len(s) \in Nat /\ \A i \in DOMAIN s : s[i] \in S
         /\ \A x \in S : /\ Append(s, x) \in Seq(S) /\ Len(Append(s, x)) = Len(s) + 1
                         /\ DOMAIN Append(s, x) = 1..(Len(s) + 1)
                         /\ Append(s, x)[Len(s) + 1] = x
                         /\ \A i \in DOMAIN s : Append(s, x)[i] = s[i]
         /\ \A i \in DOMAIN s, x \in S :
              [s EXCEPT ![i] = x] \in Seq(S) /\ Len([s EXCEPT ![i] = x]) = Len(s)
OBVIOUS

LEMMA Contents ==
  ASSUME Shapes
  PROVE  /\ DOMAIN views = 1..Len(views) /\ Len(views) \in Nat
         /\ \A i \in DOMAIN views : views[i] \in Views
         /\ DOMAIN impressions = 1..Len(impressions) /\ Len(impressions) \in Nat
         /\ \A i \in DOMAIN impressions : impressions[i] \in Impressions
         /\ \A t \in Tabs : tabs[t] \in TabStates
         /\ \A c \in calls : c \in Calls
BY Sequences DEF Shapes

\* The sets that are counted.
LEMMA CountedSets ==
  ASSUME Shapes, NEW a \in Apps
  PROVE  /\ IsFiniteSet(Earning(a)) /\ Cardinality(Earning(a)) \in Nat
         /\ IsFiniteSet(Passing(a)) /\ Cardinality(Passing(a)) \in Nat
<1>1. IsFiniteSet(DOMAIN views)
  BY Contents, FS_Interval
<1>2. IsFiniteSet(Earning(a))
  BY <1>1, FS_Subset DEF Earning
<1>3. IsFiniteSet(Passing(a))
  BY FS_Subset DEF Shapes, Passing
<1>4. QED
  BY <1>2, <1>3, FS_CardinalityType

\* A set that gives up an element and gets at most one other has not grown.
LEMMA ReplacedCount ==
  ASSUME NEW S, IsFiniteSet(S), NEW R, NEW c, NEW d,
         R \subseteq (S \ {c}) \cup {d}, c \in S \/ d \notin R
  PROVE  IsFiniteSet(R) /\ Cardinality(R) <= Cardinality(S)
<1>1. IsFiniteSet(S \ {c}) /\ IsFiniteSet((S \ {c}) \cup {d})
  BY FS_Subset, FS_AddElement
<1>2. IsFiniteSet(R)
  BY <1>1, FS_Subset
<1>3. Cardinality(S) \in Nat /\ Cardinality(R) \in Nat /\ Cardinality(S \ {c}) \in Nat
  BY <1>1, <1>2, FS_CardinalityType
<1>4. CASE R \subseteq S
  BY <1>2, <1>4, FS_Subset
<1>5. CASE ~(R \subseteq S)
  <2>1. c \in S /\ d \in R /\ d \notin S
    BY <1>5
  <2>2. Cardinality(S \ {c}) = Cardinality(S) - 1
    BY <2>1, FS_RemoveElement
  <2>3. Cardinality((S \ {c}) \cup {d}) = Cardinality(S \ {c}) + 1
    BY <1>1, <2>1, FS_AddElement
  <2>4. Cardinality(R) <= Cardinality((S \ {c}) \cup {d})
    BY <1>1, FS_Subset
  <2>5. QED
    BY <1>2, <1>3, <2>2, <2>3, <2>4
<1>6. QED
  BY <1>4, <1>5

\* One element more.
LEMMA AddedCount ==
  ASSUME NEW S, IsFiniteSet(S), NEW x
  PROVE  /\ IsFiniteSet(S \cup {x})
         /\ Cardinality(S \cup {x}) \in Nat /\ Cardinality(S) \in Nat
         /\ Cardinality(S \cup {x}) <= Cardinality(S) + 1
<1>1. IsFiniteSet(S \cup {x})
  BY FS_AddElement
<1>2. Cardinality(S \cup {x}) \in Nat /\ Cardinality(S) \in Nat
  BY <1>1, FS_CardinalityType
<1>3. CASE x \in S
  <2>1. S \cup {x} = S
    BY <1>3
  <2>2. Cardinality(S \cup {x}) = Cardinality(S)
    BY <2>1
  <2>3. QED
    BY <1>1, <1>2, <2>2
<1>4. CASE x \notin S
  <2>1. Cardinality(S \cup {x}) = Cardinality(S) + 1
    BY <1>4, FS_AddElement
  <2>2. QED
    BY <1>1, <1>2, <2>1
<1>5. QED
  BY <1>3, <1>4

\* A page opens, is left, or goes on, and sends N.
LEMMA PageKeeps ==
  ASSUME TrafficSound, NEW t \in Tabs, NEW tab \in TabStates, NEW N, IsFiniteSet(N), N \subseteq Calls,
         tabs' = [tabs EXCEPT ![t] = tab], calls' = calls \cup N,
         UNCHANGED <<views, impressions, viewCount, session, week>>,
         \/ visits' = visits /\ tab.visit = tabs[t].visit /\ tab.app = tabs[t].app /\ tab.ad = tabs[t].ad
         \/ visits' = visits + 1 /\ tab.visit = visits' /\ tab.app \in Apps /\ tab.ad = 0
         \/ visits' = visits /\ tab.visit = 0 /\ tab.app = NoApp /\ tab.ad = 0,
         tab.timer \/ tab.challenge => tab.app # NoApp,
         \A n \in N : /\ n.tab = t /\ n.visit = tab.visit /\ n.app = tab.app
                      /\ n.pc = "sent" /\ n.session = 0 /\ n.view = 0 /\ ~n.eligible
                      /\ n.token => n.kind = "track",
         solved' \in [Apps -> Nat], \A a \in Apps : solved[a] <= solved'[a],
         \A n \in N : n.token => N = {n} /\ solved'[n.app] = solved[n.app] + 1
  PROVE  TrafficSound'
<1>1. /\ Shapes /\ TabSound(t) /\ Verified /\ ImpressionsOfViews
      /\ tabs \in [Tabs -> TabStates] /\ visits \in Nat /\ NoApp \notin Apps
      /\ \A c \in calls : c \in Calls /\ CallSound(c)
      /\ \A s \in Tabs : TabSound(s)
  BY Contents, Bounds DEF TrafficSound, Shapes
<1>2. /\ tabs' \in [Tabs -> TabStates] /\ tabs'[t] = tab /\ \A s \in Tabs \ {t} : tabs'[s] = tabs[s]
  BY <1>1
<1>3. visits' \in Nat /\ visits <= visits' /\ tab.visit \in Nat /\ tab.visit <= visits'
  BY <1>1 DEF TabSound, TabStates
<1>4. IsFiniteSet(calls \cup N)
  BY <1>1, FS_Union DEF Shapes
<1>5. Shapes'
  <2>1. Views' = Views
    BY DEF Views
  <2>2. QED
    BY <1>1, <1>2, <1>3, <1>4, <2>1 DEF Shapes
<1>6. ASSUME NEW s \in Tabs
      PROVE  TabSound(s)'
  <2>1. CASE s = t
    <3>1. tab.ad # 0 => tab.ad = tabs[t].ad /\ tab.app = tabs[t].app
      OBVIOUS
    <3>2. tab.app # NoApp => tab.visit > 0
      BY <1>1, <1>3 DEF TabSound
    <3>3. QED
      BY <1>1, <1>2, <1>3, <2>1, <3>1, <3>2 DEF TabSound
  <2>2. CASE s # t
    <3>1. tabs'[s] = tabs[s] /\ TabSound(s) /\ tabs[s].visit \in Nat
      BY <1>1, <1>2, <2>2 DEF TabStates
    <3>2. QED
      BY <1>1, <1>3, <3>1 DEF TabSound
  <2>3. QED
    BY <2>1, <2>2
<1>7. ASSUME NEW c \in calls'
      PROVE  CallSound(c)'
  <2>1. CASE c \in calls
    <3>1. c \in Calls /\ CallSound(c) /\ c.visit \in 1..visits
      BY <1>1, <2>1 DEF CallSound
    <3>2. c.visit \in 1..visits'
      BY <1>1, <1>3, <3>1
    <3>3. tabs'[c.tab].visit = c.visit => tabs'[c.tab].app = c.app
      <4>1. CASE c.tab = t
        <5>1. tabs[t].visit = c.visit => tabs[t].app = c.app
          BY <3>1, <4>1 DEF CallSound
        <5>2. c.visit # 0 /\ c.visit # visits + 1
          BY <1>1, <3>1
        <5>3. QED
          BY <1>2, <4>1, <5>1, <5>2
      <4>2. CASE c.tab # t
        BY <1>2, <3>1, <4>2 DEF Calls, CallSound
      <4>3. QED
        BY <4>1, <4>2
    <3>4. QED
      BY <3>1, <3>2, <3>3 DEF CallSound
  <2>2. CASE c \in N
    <3>1. /\ c \in Calls /\ c.tab = t /\ c.visit = tab.visit /\ c.app = tab.app
          /\ c.pc = "sent" /\ c.session = 0 /\ c.view = 0 /\ ~c.eligible /\ (c.token => c.kind = "track")
      BY <2>2
    <3>2. tab.app # NoApp
      BY <1>1, <3>1 DEF Calls
    <3>3. tab.visit \in 1..visits'
      BY <1>1, <1>3, <3>2 DEF TabSound
    <3>4. 0 <= session /\ 0 <= Len(views)
      BY <1>1, Contents DEF Shapes
    <3>5. QED
      BY <1>2, <3>1, <3>3, <3>4 DEF CallSound
  <2>3. QED
    BY <2>1, <2>2
<1>8. Verified'
  <2> SUFFICES ASSUME NEW a \in Apps
               PROVE  Cardinality(Earning(a)') + Cardinality(Passing(a)') <= solved'[a]
    BY DEF Verified
  <2>1. Earning(a)' = Earning(a)
    BY DEF Earning
  <2>2. /\ Cardinality(Earning(a)) + Cardinality(Passing(a)) <= solved[a]
        /\ Cardinality(Earning(a)) \in Nat /\ Cardinality(Passing(a)) \in Nat
        /\ IsFiniteSet(Passing(a))
        /\ solved[a] \in Nat /\ solved'[a] \in Nat /\ solved[a] <= solved'[a]
    BY <1>1, CountedSets DEF Verified, Shapes
  <2>3. CASE \A n \in N : ~n.token
    <3>1. Passing(a)' = Passing(a)
      BY <2>3 DEF Passing
    <3>2. QED
      BY <2>1, <2>2, <3>1
  <2>4. CASE \E n \in N : n.token
    <3>1. PICK n \in N : n.token
      BY <2>4
    <3>2. N = {n} /\ solved'[n.app] = solved[n.app] + 1
      BY <3>1
    <3>3. CASE n.app = a
      <4>1. Passing(a)' \subseteq Passing(a) \cup {n}
        BY <3>2 DEF Passing
      <4>2. IsFiniteSet(Passing(a) \cup {n}) /\ Cardinality(Passing(a) \cup {n}) <= Cardinality(Passing(a)) + 1
        BY <2>2, AddedCount
      <4>3. Cardinality(Passing(a)') <= Cardinality(Passing(a) \cup {n}) /\ IsFiniteSet(Passing(a)')
        BY <4>1, <4>2, FS_Subset
      <4>4. Cardinality(Passing(a)') \in Nat /\ Cardinality(Passing(a) \cup {n}) \in Nat
        BY <4>2, <4>3, FS_CardinalityType
      <4>5. Cardinality(Passing(a)') <= Cardinality(Passing(a)) + 1
        BY <2>2, <4>2, <4>3, <4>4
      <4>6. QED
        BY <2>1, <2>2, <3>2, <3>3, <4>4, <4>5
    <3>4. CASE n.app # a
      <4>1. Passing(a)' = Passing(a)
        BY <3>2, <3>4 DEF Passing
      <4>2. QED
        BY <2>1, <2>2, <4>1
    <3>5. QED
      BY <3>3, <3>4
  <2>5. QED
    BY <2>3, <2>4
<1>9. ImpressionsOfViews'
  BY <1>1 DEF ImpressionsOfViews
<1>10. QED
  BY <1>5, <1>6, <1>7, <1>8, <1>9 DEF TrafficSound

\* A request is answered or takes its next step, with the pages and the views as they are.
LEMMA RequestKeeps ==
  ASSUME TrafficSound, NEW c \in calls, NEW d \in Calls, calls' \subseteq (calls \ {c}) \cup {d},
         d.tab = c.tab, d.visit = c.visit, d.app = c.app, d.kind = c.kind, d.token = c.token,
         d.pc = "refresh" \/ c.pc # "refresh",
         d.session <= session, d.view <= Len(views), d.pc # "sent" => d.session > 0,
         d.pc = "impress" => d.view \in DOMAIN views /\ views[d.view].app = d.app,
         d.eligible => d.token,
         UNCHANGED <<tabs, views, impressions, session, solved, visits, week>>,
         viewCount' \in [Apps -> 0..Len(views)]
  PROVE  TrafficSound'
<1>1. /\ Shapes /\ Verified /\ ImpressionsOfViews /\ IsFiniteSet(calls) /\ calls \subseteq Calls
      /\ \A x \in calls : CallSound(x)
      /\ \A s \in Tabs : TabSound(s)
  BY DEF TrafficSound, Shapes
<1>2. calls' \subseteq Calls /\ IsFiniteSet(calls')
  BY <1>1, ReplacedCount, FS_Subset, FS_AddElement
<1>3. Shapes'
  <2>1. Views' = Views
    BY DEF Views
  <2>2. QED
    BY <1>1, <1>2, <2>1 DEF Shapes
<1>4. \A s \in Tabs : TabSound(s)'
  BY <1>1 DEF TabSound
<1>5. ASSUME NEW x \in calls'
      PROVE  CallSound(x)'
  <2>1. CallSound(c)
    BY <1>1
  <2>2. CASE x = d
    BY <2>1, <2>2 DEF CallSound
  <2>3. CASE x \in calls
    BY <1>1, <2>3 DEF CallSound
  <2>4. QED
    BY <2>2, <2>3
<1>6. Verified'
  <2> SUFFICES ASSUME NEW a \in Apps
               PROVE  Cardinality(Earning(a)') + Cardinality(Passing(a)') <= solved'[a]
    BY DEF Verified
  <2>1. Earning(a)' = Earning(a)
    BY DEF Earning
  <2>2. Passing(a)' \subseteq (Passing(a) \ {c}) \cup {d} /\ (c \in Passing(a) \/ d \notin Passing(a)')
    BY DEF Passing
  <2>3. /\ Cardinality(Earning(a)) + Cardinality(Passing(a)) <= solved[a]
        /\ Cardinality(Earning(a)) \in Nat /\ Cardinality(Passing(a)) \in Nat
        /\ IsFiniteSet(Passing(a)) /\ solved[a] \in Nat
    BY <1>1, CountedSets DEF Verified, Shapes
  <2>4. IsFiniteSet(Passing(a)') /\ Cardinality(Passing(a)') <= Cardinality(Passing(a))
    BY <2>2, <2>3, ReplacedCount
  <2>5. Cardinality(Passing(a)') \in Nat
    BY <2>4, FS_CardinalityType
  <2>6. QED
    BY <2>1, <2>3, <2>4, <2>5
<1>7. ImpressionsOfViews'
  BY <1>1 DEF ImpressionsOfViews
<1>8. QED
  BY <1>3, <1>4, <1>5, <1>6, <1>7 DEF TrafficSound

\* Time passes, or the script runs.
LEMMA LaterKeeps ==
  ASSUME TrafficSound, session' \in Nat, session <= session', week' \in Nat, week <= week',
         UNCHANGED <<tabs, calls, views, impressions, viewCount, solved, visits>>
  PROVE  TrafficSound'
<1>1. /\ Shapes /\ Verified /\ ImpressionsOfViews
      /\ \A c \in calls : c \in Calls /\ CallSound(c)
      /\ \A t \in Tabs : TabSound(t)
  BY Contents DEF TrafficSound
<1>2. Shapes'
  <2>1. Views \subseteq Views'
    BY <1>1 DEF Shapes, Views
  <2>2. Seq(Views) \subseteq Seq(Views')
    BY <2>1
  <2>3. QED
    BY <1>1, <2>2 DEF Shapes
<1>3. \A t \in Tabs : TabSound(t)'
  BY <1>1 DEF TabSound
<1>4. \A c \in calls : CallSound(c)'
  BY <1>1 DEF CallSound, Calls, Shapes
<1>5. Verified'
  BY <1>1 DEF Verified, Earning, Passing
<1>6. ImpressionsOfViews'
  BY <1>1 DEF ImpressionsOfViews
<1>7. QED
  BY <1>2, <1>3, <1>4, <1>5, <1>6 DEF TrafficSound

\* What a tab sends.
LEMMA Sent ==
  ASSUME NEW t \in Tabs, NEW tab \in TabStates, tab.app \in Apps, NEW token \in BOOLEAN
  PROVE  /\ Beacon(t, tab, token) \in Calls
         /\ Beacon(t, tab, token).token = token /\ Beacon(t, tab, token).kind = "track"
         /\ AdRequest(t, tab) \in Calls /\ ~AdRequest(t, tab).token
         /\ \A n \in {Beacon(t, tab, token), AdRequest(t, tab)} :
              /\ n.tab = t /\ n.visit = tab.visit /\ n.app = tab.app
              /\ n.pc = "sent" /\ n.session = 0 /\ n.view = 0 /\ ~n.eligible
<1> DEFINE b == Beacon(t, tab, token)
           f == Beacon(t, tab, FALSE)
<1>1. tab.visit \in Nat /\ tab.ready \in BOOLEAN
  BY DEF TabStates
<1>2. /\ b \in Calls /\ b.token = token /\ b.kind = "track" /\ b.tab = t /\ b.visit = tab.visit
      /\ b.app = tab.app /\ b.pc = "sent" /\ b.session = 0 /\ b.view = 0 /\ ~b.eligible
  BY <1>1 DEF Beacon, Calls
<1>3. /\ f \in Calls /\ ~f.token /\ f.tab = t /\ f.visit = tab.visit
      /\ f.app = tab.app /\ f.pc = "sent" /\ f.session = 0 /\ f.view = 0 /\ ~f.eligible
  BY <1>1 DEF Beacon, Calls
<1> DEFINE q == [f EXCEPT !.kind = "serve"]
<1>4. AdRequest(t, tab) = q
  BY DEF AdRequest
<1> HIDE DEF b, f
<1>5. /\ q \in Calls /\ ~q.token /\ q.tab = t /\ q.visit = tab.visit
      /\ q.app = tab.app /\ q.pc = "sent" /\ q.session = 0 /\ q.view = 0 /\ ~q.eligible
  BY <1>3 DEF Calls
<1> HIDE DEF q
<1>6. /\ AdRequest(t, tab) \in Calls /\ ~AdRequest(t, tab).token
      /\ \A n \in {b, AdRequest(t, tab)} :
              /\ n.tab = t /\ n.visit = tab.visit /\ n.app = tab.app
              /\ n.pc = "sent" /\ n.session = 0 /\ n.view = 0 /\ ~n.eligible
  BY <1>2, <1>4, <1>5
<1>7. QED
  BY <1>2, <1>6 DEF b

LEMMA EffectTyped ==
  ASSUME NEW tab \in TabStates
  PROVE  /\ Effect(tab) \in TabStates
         /\ Effect(tab).visit = tab.visit /\ Effect(tab).app = tab.app /\ Effect(tab).ad = tab.ad
<1>1. Captcha \in BOOLEAN
  BY Bounds
<1>2. QED
  BY <1>1 DEF Effect, TabStates

LEMMA PageSteps ==
  ASSUME TrafficSound, NEW t \in Tabs,
         \/ \E a \in Apps : Open(t, a)
         \/ ScriptReady(t) \/ TimeUp(t) \/ Solve(t) \/ Leave(t)
  PROVE  TrafficSound'
<1>1. /\ tabs \in [Tabs -> TabStates] /\ tabs[t] \in TabStates /\ TabSound(t)
      /\ solved \in [Apps -> Nat] /\ \A a \in Apps : solved[a] \in Nat
      /\ NoApp \notin Apps /\ visits \in Nat
  BY Bounds DEF TrafficSound, Shapes
<1>2. \A b \in TabStates : \A token \in BOOLEAN :
        /\ b.app \in Apps \cup {NoApp} /\ b.visit \in Nat
        /\ Beacon(t, b, token).visit = b.visit
  BY DEF TabStates, Beacon
<1>3. ASSUME NEW a \in Apps, Open(t, a)
      PROVE  TrafficSound'
  <2> DEFINE page == [Closed EXCEPT !.app = a, !.visit = visits + 1]
             N == {AdRequest(t, page)} \cup SentAtOnce(t, page)
  <2>1. page \in TabStates /\ page.app = a /\ page.visit = visits + 1 /\ page.ad = 0
    <3>1. visits + 1 \in Nat /\ a \in Apps \cup {NoApp}
      BY <1>1
    <3>2. Closed \in TabStates /\ Closed.ad = 0
      BY DEF Closed, TabStates
    <3>3. QED
      BY <3>1, <3>2 DEF TabStates
  <2>2. tabs' = [tabs EXCEPT ![t] = Effect(page)] /\ calls' = calls \cup N /\ visits' = visits + 1
    BY <1>3 DEF Open
  <2>3. /\ UNCHANGED <<views, impressions, viewCount, session, week>>
        /\ solved' = solved
    BY <1>3 DEF Open, settlement
  <2> HIDE DEF page
  <2>4. /\ Effect(page) \in TabStates
        /\ Effect(page).visit = visits' /\ Effect(page).app \in Apps /\ Effect(page).ad = 0
        /\ Effect(page).app = a /\ page.visit = visits'
    BY <2>1, <2>2, EffectTyped
  <2>5. IsFiniteSet(N) /\ \A n \in N : n \in {AdRequest(t, page), Beacon(t, page, FALSE)}
    <3>1. IsFiniteSet({AdRequest(t, page)}) /\ IsFiniteSet({Beacon(t, page, FALSE)}) /\ IsFiniteSet({})
      BY FS_Singleton, FS_EmptySet
    <3>2. IsFiniteSet(SentAtOnce(t, page))
      BY <3>1 DEF SentAtOnce
    <3>3. QED
      BY <3>1, <3>2, FS_Union DEF SentAtOnce
  <2>6. \A n \in {AdRequest(t, page), Beacon(t, page, FALSE)} :
          /\ n \in Calls /\ n.tab = t /\ n.visit = page.visit /\ n.app = page.app
          /\ n.pc = "sent" /\ n.session = 0 /\ n.view = 0 /\ ~n.eligible /\ ~n.token
    <3>1. page.app \in Apps /\ FALSE \in BOOLEAN
      BY <2>1
    <3>2. /\ Beacon(t, page, FALSE) \in Calls /\ AdRequest(t, page) \in Calls
          /\ Beacon(t, page, FALSE).token = FALSE /\ ~AdRequest(t, page).token
          /\ \A n \in {Beacon(t, page, FALSE), AdRequest(t, page)} :
               /\ n.tab = t /\ n.visit = page.visit /\ n.app = page.app
               /\ n.pc = "sent" /\ n.session = 0 /\ n.view = 0 /\ ~n.eligible
      BY <2>1, <3>1, Sent
    <3>3. QED
      BY <3>2
  <2>7. N \subseteq Calls
    BY <2>5, <2>6
  <2> HIDE DEF N
  <2>8. /\ solved' \in [Apps -> Nat] /\ \A x \in Apps : solved[x] <= solved'[x]
        /\ Effect(page).app # NoApp
    BY <1>1, <2>3, <2>4
  <2>9. \A n \in N : /\ n.tab = t /\ n.visit = Effect(page).visit /\ n.app = Effect(page).app
                     /\ n.pc = "sent" /\ n.session = 0 /\ n.view = 0 /\ ~n.eligible /\ ~n.token
    BY <2>1, <2>4, <2>5, <2>6
  <2> DEFINE tab == Effect(page)
  <2>10. tab \in TabStates /\ tabs' = [tabs EXCEPT ![t] = tab]
    BY <2>2, <2>4
  <2>11. visits' = visits + 1 /\ tab.visit = visits' /\ tab.app \in Apps /\ tab.ad = 0 /\ tab.app # NoApp
    BY <2>2, <2>4, <2>8
  <2>12. \A n \in N : /\ n.tab = t /\ n.visit = tab.visit /\ n.app = tab.app
                      /\ n.pc = "sent" /\ n.session = 0 /\ n.view = 0 /\ ~n.eligible /\ ~n.token
    BY <2>9
  <2> HIDE DEF tab
  <2>13. /\ \A n \in N : /\ n.tab = t /\ n.visit = tab.visit /\ n.app = tab.app
                         /\ n.pc = "sent" /\ n.session = 0 /\ n.view = 0 /\ ~n.eligible
                         /\ n.token => n.kind = "track"
         /\ \A n \in N : n.token => N = {n} /\ solved'[n.app] = solved[n.app] + 1
    BY <2>12
  <2>14. IsFiniteSet(N) /\ N \subseteq Calls /\ calls' = calls \cup N
    BY <2>2, <2>5, <2>7
  <2>15. /\ solved' \in [Apps -> Nat] /\ \A x \in Apps : solved[x] <= solved'[x]
         /\ tab.timer \/ tab.challenge => tab.app # NoApp
    BY <2>8, <2>11
  <2>16. QED
    BY <2>3, <2>10, <2>11, <2>13, <2>14, <2>15, PageKeeps
<1>4. ASSUME NEW tab \in TabStates, NEW N, IsFiniteSet(N), N \subseteq Calls,
             tabs' = [tabs EXCEPT ![t] = tab], calls' = calls \cup N, visits' = visits,
             UNCHANGED <<views, impressions, viewCount, session, week>>,
             tab.visit = tabs[t].visit /\ tab.app = tabs[t].app /\ tab.ad = tabs[t].ad,
             tab.app \in Apps,
             \A n \in N : /\ n.tab = t /\ n.visit = tab.visit /\ n.app = tab.app
                          /\ n.pc = "sent" /\ n.session = 0 /\ n.view = 0 /\ ~n.eligible
                          /\ n.token => n.kind = "track",
             solved' \in [Apps -> Nat], \A a \in Apps : solved[a] <= solved'[a],
             \A n \in N : n.token => N = {n} /\ solved'[n.app] = solved[n.app] + 1
      PROVE  TrafficSound'
  <2>1. tab.app # NoApp
    BY <1>1, <1>4
  <2>2. QED
    BY <1>4, <2>1, PageKeeps
<1>5. CASE ScriptReady(t)
  <2> DEFINE page == [tabs[t] EXCEPT !.ready = TRUE]
             N == SentAtOnce(t, page)
             tab == Effect(page)
  <2>1. /\ page \in TabStates /\ page.app = tabs[t].app /\ page.visit = tabs[t].visit
        /\ page.ad = tabs[t].ad
    BY <1>1 DEF TabStates
  <2>2. page.app \in Apps
    BY <1>2, <1>5, <2>1 DEF ScriptReady
  <2>3. /\ tabs' = [tabs EXCEPT ![t] = tab] /\ calls' = calls \cup N
        /\ UNCHANGED <<views, impressions, viewCount, session, week>> /\ solved' = solved /\ visits' = visits
    BY <1>5 DEF ScriptReady, settlement
  <2> HIDE DEF page
  <2>4. /\ tab \in TabStates /\ tab.visit = page.visit /\ tab.app = page.app /\ tab.ad = page.ad
    BY <2>1, EffectTyped
  <2>5. IsFiniteSet(N) /\ \A n \in N : n = Beacon(t, page, FALSE)
    <3>1. IsFiniteSet({Beacon(t, page, FALSE)}) /\ IsFiniteSet({})
      BY FS_Singleton, FS_EmptySet
    <3>2. QED
      BY <3>1 DEF SentAtOnce
  <2>6. LET n == Beacon(t, page, FALSE)
        IN /\ n \in Calls /\ n.tab = t /\ n.visit = page.visit /\ n.app = page.app
           /\ n.pc = "sent" /\ n.session = 0 /\ n.view = 0 /\ ~n.eligible /\ ~n.token
    BY <2>1, <2>2, Sent
  <2>7. \A n \in N : /\ n \in Calls /\ n.tab = t /\ n.visit = tab.visit /\ n.app = tab.app
                     /\ n.pc = "sent" /\ n.session = 0 /\ n.view = 0 /\ ~n.eligible /\ ~n.token
    BY <2>4, <2>5, <2>6
  <2>8. /\ solved' \in [Apps -> Nat] /\ \A a \in Apps : solved[a] <= solved'[a]
        /\ N \subseteq Calls /\ tab.app \in Apps
        /\ tab.visit = tabs[t].visit /\ tab.app = tabs[t].app /\ tab.ad = tabs[t].ad
    BY <1>1, <2>1, <2>2, <2>3, <2>4, <2>7
  <2> HIDE DEF N, tab
  <2>9. QED
    BY <1>4, <2>3, <2>4, <2>5, <2>7, <2>8
<1>6. CASE TimeUp(t)
  <2> DEFINE N == IF tabs[t].sent THEN {} ELSE {Beacon(t, tabs[t], FALSE)}
             tab == [tabs[t] EXCEPT !.timer = FALSE, !.sent = TRUE]
  <2>1. tabs[t].app \in Apps
    BY <1>1, <1>2, <1>6 DEF TimeUp, TabSound
  <2>2. /\ tab \in TabStates /\ tab.visit = tabs[t].visit /\ tab.app = tabs[t].app /\ tab.ad = tabs[t].ad
    BY <1>1 DEF TabStates
  <2>3. /\ tabs' = [tabs EXCEPT ![t] = tab] /\ calls' = calls \cup N
        /\ UNCHANGED <<views, impressions, viewCount, session, week>> /\ solved' = solved /\ visits' = visits
    BY <1>1, <1>6 DEF TimeUp, send, settlement
  <2>4. IsFiniteSet(N) /\ \A n \in N : n = Beacon(t, tabs[t], FALSE)
    <3>1. CASE tabs[t].sent
      <4>1. N = {}
        BY <3>1
      <4>2. QED
        BY <4>1, FS_EmptySet
    <3>2. CASE ~tabs[t].sent
      <4>1. N = {Beacon(t, tabs[t], FALSE)}
        BY <3>2
      <4>2. QED
        BY <4>1, FS_Singleton
    <3>3. QED
      BY <3>1, <3>2
  <2>5. LET n == Beacon(t, tabs[t], FALSE)
        IN /\ n \in Calls /\ n.tab = t /\ n.visit = tabs[t].visit /\ n.app = tabs[t].app
           /\ n.pc = "sent" /\ n.session = 0 /\ n.view = 0 /\ ~n.eligible /\ ~n.token
    BY <1>1, <2>1, Sent
  <2>6. \A n \in N : /\ n \in Calls /\ n.tab = t /\ n.visit = tab.visit /\ n.app = tab.app
                     /\ n.pc = "sent" /\ n.session = 0 /\ n.view = 0 /\ ~n.eligible /\ ~n.token
    BY <2>2, <2>4, <2>5
  <2> HIDE DEF N, tab
  <2>7. /\ solved' \in [Apps -> Nat] /\ \A a \in Apps : solved[a] <= solved'[a]
        /\ N \subseteq Calls /\ tab.app \in Apps
    <3>1. solved' \in [Apps -> Nat] /\ \A a \in Apps : solved[a] <= solved'[a]
      BY <1>1, <2>3
    <3>2. N \subseteq Calls
      BY <2>6
    <3>3. QED
      BY <2>1, <2>2, <3>1, <3>2
  <2>8. QED
    BY <1>4, <2>2, <2>3, <2>4, <2>6, <2>7
<1>7. CASE Solve(t)
  <2> DEFINE N == IF tabs[t].sent THEN {} ELSE {Beacon(t, tabs[t], TRUE)}
             tab == [tabs[t] EXCEPT !.challenge = FALSE, !.sent = TRUE]
  <2>1. tabs[t].app \in Apps
    BY <1>1, <1>2, <1>7 DEF Solve, TabSound
  <2>2. /\ tab \in TabStates /\ tab.visit = tabs[t].visit /\ tab.app = tabs[t].app /\ tab.ad = tabs[t].ad
    BY <1>1 DEF TabStates
  <2>3. /\ tabs' = [tabs EXCEPT ![t] = tab] /\ calls' = calls \cup N
        /\ UNCHANGED <<views, impressions, viewCount, session, week>> /\ visits' = visits
        /\ solved' = [solved EXCEPT ![tabs[t].app] = @ + 1]
    BY <1>1, <1>7 DEF Solve, send, settlement
  <2>4. IsFiniteSet(N) /\ \A n \in N : n = Beacon(t, tabs[t], TRUE)
    <3>1. CASE tabs[t].sent
      <4>1. N = {}
        BY <3>1
      <4>2. QED
        BY <4>1, FS_EmptySet
    <3>2. CASE ~tabs[t].sent
      <4>1. N = {Beacon(t, tabs[t], TRUE)}
        BY <3>2
      <4>2. QED
        BY <4>1, FS_Singleton
    <3>3. QED
      BY <3>1, <3>2
  <2>5. LET n == Beacon(t, tabs[t], TRUE)
        IN /\ n \in Calls /\ n.tab = t /\ n.visit = tabs[t].visit /\ n.app = tabs[t].app
           /\ n.pc = "sent" /\ n.session = 0 /\ n.view = 0 /\ ~n.eligible /\ n.kind = "track"
    BY <1>1, <2>1, Sent
  <2>6. /\ solved' \in [Apps -> Nat] /\ \A a \in Apps : solved[a] <= solved'[a]
        /\ solved'[tabs[t].app] = solved[tabs[t].app] + 1
    BY <1>1, <2>1, <2>3
  <2>7. \A n \in N : /\ n \in Calls /\ n.tab = t /\ n.visit = tab.visit /\ n.app = tab.app
                     /\ n.pc = "sent" /\ n.session = 0 /\ n.view = 0 /\ ~n.eligible /\ n.kind = "track"
                     /\ N = {n} /\ solved'[n.app] = solved[n.app] + 1
    BY <2>2, <2>4, <2>5, <2>6
  <2>8. N \subseteq Calls /\ tab.app \in Apps
    BY <2>1, <2>2, <2>7
  <2> HIDE DEF N, tab
  <2>9. QED
    BY <1>4, <2>2, <2>3, <2>4, <2>6, <2>7, <2>8
<1>8. CASE Leave(t)
  <2>1. /\ Closed \in TabStates /\ Closed.visit = 0 /\ Closed.app = NoApp /\ Closed.ad = 0
        /\ ~Closed.timer /\ ~Closed.challenge
    BY DEF Closed, TabStates
  <2>2. /\ tabs' = [tabs EXCEPT ![t] = Closed] /\ calls' = calls \cup {}
        /\ UNCHANGED <<views, impressions, viewCount, session, week>> /\ solved' = solved /\ visits' = visits
    BY <1>8 DEF Leave, settlement
  <2>3. solved' \in [Apps -> Nat] /\ \A a \in Apps : solved[a] <= solved'[a]
    BY <1>1, <2>2
  <2>4. IsFiniteSet({}) /\ {} \subseteq Calls
    BY FS_EmptySet
  <2> HIDE DEF Closed
  <2>5. QED
    BY <2>1, <2>2, <2>3, <2>4, PageKeeps
<1>9. QED
  BY <1>3, <1>5, <1>6, <1>7, <1>8

LEMMA ClickKeeps ==
  ASSUME TrafficSound, NEW t \in Tabs, Click(t)
  PROVE  TrafficSound'
<1> DEFINE i == tabs[t].ad
           x == [impressions[i] EXCEPT !.clicked = TRUE]
<1>1. /\ Shapes /\ Verified /\ ImpressionsOfViews
      /\ \A c \in calls : CallSound(c)
      /\ \A u \in Tabs : TabSound(u)
  BY DEF TrafficSound
<1>2. i \in DOMAIN impressions /\ impressions[i] \in Impressions /\ impressions \in Seq(Impressions)
  BY <1>1, Contents DEF Click, TabSound, Shapes
<1>3. /\ impressions' = [impressions EXCEPT ![i] = x]
      /\ UNCHANGED <<tabs, calls, views, viewCount, session, solved, visits, week>>
  BY DEF Click, settlement
<1>4. x \in Impressions /\ x.app = impressions[i].app /\ x.view = impressions[i].view
  BY <1>2 DEF Impressions
<1> HIDE DEF i, x
<1>5. impressions' \in Seq(Impressions) /\ Len(impressions') = Len(impressions)
  BY <1>2, <1>3, <1>4, Sequences
<1>6. DOMAIN impressions' = DOMAIN impressions
  BY <1>3
<1>7. \A j \in DOMAIN impressions :
        impressions'[j].app = impressions[j].app /\ impressions'[j].view = impressions[j].view
  BY <1>2, <1>3, <1>4
<1>8. Shapes'
  <2>1. Views' = Views
    BY <1>3 DEF Views
  <2>2. QED
    BY <1>1, <1>3, <1>5, <2>1 DEF Shapes
<1>9. \A u \in Tabs : TabSound(u)'
  BY <1>1, <1>3, <1>6, <1>7 DEF TabSound
<1>10. \A c \in calls : CallSound(c)'
  BY <1>1, <1>3 DEF CallSound
<1>11. ImpressionsOfViews'
  BY <1>1, <1>3, <1>6, <1>7 DEF ImpressionsOfViews
<1>12. Verified'
  BY <1>1, <1>3 DEF Verified, Earning, Passing
<1>13. QED
  BY <1>3, <1>8, <1>9, <1>10, <1>11, <1>12 DEF TrafficSound

LEMMA UpTo ==
  ASSUME NEW n \in Nat
  PROVE  IsFiniteSet(1..n) /\ Cardinality(1..n) = n
<1>1. IsFiniteSet(1..n) /\ Cardinality(1..n) = IF 1 > n THEN 0 ELSE n - 1 + 1
  BY FS_Interval
<1>2. QED
  BY <1>1

\* The latest of some views is one of them.
LEMMA MaxIsMember ==
  ASSUME NEW n \in Nat, NEW S, S \subseteq 1..n, S # {}
  PROVE  Max(S) \in S
<1> DEFINE T == {n - x : x \in S}
<1>0. \A x \in S : x \in 1..n /\ n - x \in Nat
  OBVIOUS
<1>1. T \subseteq Nat /\ T # {}
  BY <1>0
<1>2. \A x \in S : n - x \in T
  OBVIOUS
<1>3. \A m \in T : \E x \in S : m = n - x
  OBVIOUS
<1> HIDE DEF T
<1>4. PICK m \in T : \A k \in T : m <= k
  BY <1>1, LeastNatural
<1>5. PICK x \in S : m = n - x
  BY <1>3
<1>6. ASSUME NEW y \in S
      PROVE  x >= y
  <2>1. n - x <= n - y
    BY <1>2, <1>4, <1>5
  <2>2. QED
    BY <2>1
<1>7. QED
  BY <1>6 DEF Max


LEMMA RequestSteps ==
  ASSUME TrafficSound, NEW c \in calls, Receive(c) \/ NoAd(c) \/ Lose(c) \/ Find(c) \/ Refresh(c)
  PROVE  TrafficSound'
<1>1. /\ c \in Calls /\ CallSound(c) /\ Len(views) \in Nat
      /\ session \in Nat \ {0} /\ DOMAIN views = 1..Len(views)
      /\ viewCount \in [Apps -> 0..Len(views)]
      /\ \A i \in DOMAIN views : views[i] \in Views
  BY Contents DEF TrafficSound, Shapes
<1>2. /\ c.app \in Apps /\ c.session \in Nat /\ c.view \in Nat /\ c.token \in BOOLEAN
      /\ c.eligible \in BOOLEAN /\ c.kind \in {"track", "serve"}
  BY <1>1 DEF Calls
<1>3. /\ c.session <= session /\ c.view <= Len(views) /\ (c.eligible => c.token)
      /\ c.pc # "sent" => c.session > 0
      /\ c.pc = "impress" => c.view \in DOMAIN views /\ views[c.view].app = c.app
  BY <1>1 DEF CallSound
<1>4. CASE Receive(c)
  <2>1. PICK passed \in BOOLEAN :
          /\ c.pc = "sent"
          /\ Becomes(c, [c EXCEPT !.pc = "find", !.session = session,
                                  !.eligible = c.kind = "track" /\ verifyTurnstileToken(c, passed)])
    BY <1>4 DEF Receive
  <2> DEFINE ok == c.kind = "track" /\ verifyTurnstileToken(c, passed)
             d == [c EXCEPT !.pc = "find", !.session = session, !.eligible = ok]
  <2>2. ok \in BOOLEAN /\ (ok => c.token)
    BY <1>2 DEF verifyTurnstileToken
  <2>3. calls' = (calls \ {c}) \cup {d}
    BY <2>1 DEF Becomes
  <2>4. UNCHANGED <<tabs, views, impressions, viewCount, session, solved, visits, week>>
    BY <1>4 DEF Receive, settlement
  <2> HIDE DEF ok
  <2>5. /\ d \in Calls /\ d.tab = c.tab /\ d.visit = c.visit /\ d.app = c.app /\ d.kind = c.kind
        /\ d.token = c.token /\ d.pc = "find" /\ d.session = session /\ d.view = c.view /\ d.eligible = ok
    BY <1>1, <2>2 DEF Calls
  <2> HIDE DEF d
  <2>6. d.eligible => d.token
    BY <2>2, <2>5
  <2>7. d.session <= session /\ d.view <= Len(views) /\ d.session > 0
    BY <1>1, <1>3, <2>5
  <2>8. viewCount' \in [Apps -> 0..Len(views)]
    BY <1>1, <2>4
  <2>9. calls' \subseteq (calls \ {c}) \cup {d} /\ d.pc # "refresh" /\ d.pc # "impress" /\ c.pc # "refresh"
    BY <2>1, <2>3, <2>5
  <2>10. QED
    BY <2>4, <2>5, <2>6, <2>7, <2>8, <2>9, RequestKeeps
<1>5. ASSUME calls' \subseteq calls \ {c}, viewCount' \in [Apps -> 0..Len(views)],
             UNCHANGED <<tabs, views, impressions, session, solved, visits, week>>
      PROVE  TrafficSound'
  <2>1. calls' \subseteq (calls \ {c}) \cup {c}
    BY <1>5
  <2>2. c.pc = "refresh" \/ c.pc # "refresh"
    OBVIOUS
  <2>3. QED
    BY <1>1, <1>3, <1>5, <2>1, <2>2, RequestKeeps
<1>6. CASE NoAd(c) \/ Lose(c)
  BY <1>1, <1>5, <1>6 DEF NoAd, Lose, settlement
<1>7. CASE Refresh(c)
  <2> DEFINE S == {i \in DOMAIN views : views[i].app = c.app}
  <2>1. Cardinality(S) \in 0..Len(views)
    <3>1. IsFiniteSet(1..Len(views)) /\ Cardinality(1..Len(views)) = Len(views)
      BY <1>1, UpTo
    <3>2. S \subseteq 1..Len(views)
      BY <1>1
    <3> HIDE DEF S
    <3>3. IsFiniteSet(S) /\ Cardinality(S) <= Len(views)
      BY <3>1, <3>2, FS_Subset
    <3>4. Cardinality(S) \in Nat
      BY <3>3, FS_CardinalityType
    <3>5. QED
      BY <1>1, <3>3, <3>4
  <2>2. viewCount' = [viewCount EXCEPT ![c.app] = Cardinality(S)]
    BY <1>7 DEF Refresh
  <2> HIDE DEF S
  <2>3. viewCount' \in [Apps -> 0..Len(views)]
    BY <1>1, <2>1, <2>2
  <2>4. calls' \subseteq calls \ {c} /\ UNCHANGED <<tabs, views, impressions, session, solved, visits, week>>
    BY <1>7 DEF Refresh, settlement
  <2>5. QED
    BY <1>5, <2>3, <2>4
<1>8. CASE Find(c)
  <2>1. /\ c.pc = "find" /\ c.session > 0 /\ viewCount' \in [Apps -> 0..Len(views)]
        /\ UNCHANGED <<tabs, views, impressions, session, solved, visits, week>>
    BY <1>1, <1>3, <1>8 DEF Find, settlement
  <2>2. CASE ViewsOf(c) = {}
    <3> DEFINE d == [c EXCEPT !.pc = "insert"]
    <3>1. calls' = (calls \ {c}) \cup {d}
      BY <1>8, <2>2 DEF Find, Becomes
    <3>2. /\ d \in Calls /\ d.tab = c.tab /\ d.visit = c.visit /\ d.app = c.app /\ d.kind = c.kind
          /\ d.token = c.token /\ d.pc = "insert" /\ d.session = c.session /\ d.view = c.view
          /\ d.eligible = c.eligible
      BY <1>1 DEF Calls
    <3> HIDE DEF d
    <3>3. /\ calls' \subseteq (calls \ {c}) \cup {d} /\ d.pc # "impress" /\ c.pc # "refresh"
          /\ d.session <= session /\ d.view <= Len(views) /\ d.session > 0 /\ (d.eligible => d.token)
      BY <1>3, <2>1, <3>1, <3>2
    <3>4. QED
      BY <2>1, <3>2, <3>3, RequestKeeps
  <2>3. CASE ViewsOf(c) # {} /\ c.kind = "track"
    <3>1. calls' \subseteq calls \ {c}
      BY <1>8, <2>3 DEF Find
    <3>2. QED
      BY <1>5, <2>1, <3>1
  <2>4. CASE ViewsOf(c) # {} /\ c.kind # "track"
    <3> DEFINE n == Max(ViewsOf(c))
               d == [c EXCEPT !.pc = "impress", !.view = n]
    <3>1. n \in ViewsOf(c)
      <4>1. ViewsOf(c) \subseteq 1..Len(views)
        BY <1>1 DEF ViewsOf, ViewOfSession
      <4>2. QED
        BY <1>1, <2>4, <4>1, MaxIsMember
    <3>2. calls' = (calls \ {c}) \cup {d}
      BY <1>8, <2>4 DEF Find, Becomes
    <3> HIDE DEF n
    <3>3. n \in DOMAIN views /\ views[n].app = c.app /\ n \in Nat /\ n <= Len(views)
      BY <1>1, <3>1 DEF ViewsOf, ViewOfSession
    <3>4. /\ d \in Calls /\ d.tab = c.tab /\ d.visit = c.visit /\ d.app = c.app /\ d.kind = c.kind
          /\ d.token = c.token /\ d.pc = "impress" /\ d.session = c.session /\ d.view = n
          /\ d.eligible = c.eligible
      BY <1>1, <3>3 DEF Calls
    <3> HIDE DEF d
    <3>5. /\ calls' \subseteq (calls \ {c}) \cup {d} /\ c.pc # "refresh"
          /\ d.session <= session /\ d.view <= Len(views) /\ d.session > 0 /\ (d.eligible => d.token)
          /\ d.view \in DOMAIN views /\ views[d.view].app = d.app
      BY <1>3, <2>1, <3>2, <3>3, <3>4
    <3>6. QED
      BY <2>1, <3>4, <3>5, RequestKeeps
  <2>5. QED
    BY <2>2, <2>3, <2>4
<1>9. QED
  BY <1>4, <1>6, <1>7, <1>8

LEMMA InsertKeeps ==
  ASSUME TrafficSound, NEW c \in calls, Insert(c)
  PROVE  TrafficSound'
<1> DEFINE v == [app |-> c.app, session |-> c.session, week |-> week, eligible |-> c.eligible]
           n == Len(views) + 1
           d == [c EXCEPT !.pc = IF c.kind = "track" THEN "refresh" ELSE "impress", !.view = n]
<1>1. /\ Shapes /\ Verified /\ ImpressionsOfViews
      /\ \A x \in calls : CallSound(x) /\ x \in Calls
      /\ \A t \in Tabs : TabSound(t)
  BY Contents DEF TrafficSound
<1>2. /\ views \in Seq(Views) /\ DOMAIN views = 1..Len(views) /\ Len(views) \in Nat
      /\ n \in Nat /\ n \notin DOMAIN views
      /\ week \in Nat \ {0} /\ session \in Nat \ {0}
      /\ calls \subseteq Calls /\ IsFiniteSet(calls)
      /\ viewCount \in [Apps -> 0..Len(views)]
  BY <1>1, Contents DEF Shapes
<1>3. /\ c.app \in Apps /\ c.eligible \in BOOLEAN /\ c.session \in 1..session /\ c.pc = "insert"
      /\ c.kind \in {"track", "serve"} /\ c.token \in BOOLEAN
      /\ c.eligible => c.token
      /\ c.token => c.kind = "track"
  BY <1>1, <1>2 DEF Insert, CallSound, Calls
<1>4. /\ views' = Append(views, v) /\ calls' = (calls \ {c}) \cup {d}
      /\ UNCHANGED <<tabs, impressions, viewCount, session, solved, visits, week>>
  BY DEF Insert, Becomes, settlement
<1>5. v \in Views /\ v.app = c.app /\ v.eligible = c.eligible
  BY <1>2, <1>3 DEF Views
<1>6. /\ d \in Calls /\ d.tab = c.tab /\ d.visit = c.visit /\ d.app = c.app /\ d.kind = c.kind
      /\ d.token = c.token /\ d.session = c.session /\ d.view = n /\ d.eligible = c.eligible
      /\ d.pc = IF c.kind = "track" THEN "refresh" ELSE "impress"
  BY <1>1, <1>2 DEF Calls
<1> HIDE DEF v, d
<1>7. /\ views' \in Seq(Views) /\ Len(views') = n /\ DOMAIN views' = 1..n /\ views'[n] = v
      /\ \A i \in DOMAIN views : views'[i] = views[i]
  BY <1>2, <1>4, <1>5, Sequences
<1>8. Len(views) <= n /\ DOMAIN views' = DOMAIN views \cup {n}
  BY <1>2, <1>7
<1> HIDE DEF n
<1>9. Shapes'
  <2>1. Views' = Views
    BY <1>4 DEF Views
  <2>2. calls' \subseteq Calls /\ IsFiniteSet(calls')
    BY <1>2, <1>4, <1>6, FS_Subset, FS_AddElement
  <2>3. viewCount' \in [Apps -> 0..Len(views')]
    BY <1>2, <1>4, <1>7, <1>8
  <2>4. QED
    BY <1>1, <1>4, <1>7, <2>1, <2>2, <2>3 DEF Shapes
<1>10. \A t \in Tabs : TabSound(t)'
  BY <1>1, <1>4 DEF TabSound
<1>11. ASSUME NEW x \in calls'
       PROVE  CallSound(x)'
  <2>1. CASE x \in calls
    <3>1. x \in Calls /\ CallSound(x) /\ x.view \in Nat
      BY <1>1, <2>1 DEF Calls
    <3>2. x.view <= Len(views) => x.view <= Len(views')
      BY <1>2, <1>7, <1>8, <3>1
    <3>3. QED
      BY <1>4, <1>7, <1>8, <3>1, <3>2 DEF CallSound
  <2>2. CASE x = d
    <3>1. CallSound(c)
      BY <1>1
    <3>2. /\ x.view = n /\ n <= Len(views') /\ n \in DOMAIN views' /\ views'[n].app = x.app
          /\ x.session > 0
      BY <1>2, <1>3, <1>5, <1>6, <1>7, <1>8, <2>2
    <3>3. QED
      BY <1>4, <1>6, <2>2, <3>1, <3>2 DEF CallSound
  <2>3. QED
    BY <1>4, <2>1, <2>2
<1>12. ImpressionsOfViews'
  BY <1>1, <1>4, <1>7, <1>8 DEF ImpressionsOfViews
<1>13. Verified'
  <2> SUFFICES ASSUME NEW a \in Apps
               PROVE  Cardinality(Earning(a)') + Cardinality(Passing(a)') <= solved'[a]
    BY DEF Verified
  <2>1. /\ Cardinality(Earning(a)) + Cardinality(Passing(a)) <= solved[a]
        /\ Cardinality(Earning(a)) \in Nat /\ Cardinality(Passing(a)) \in Nat
        /\ IsFiniteSet(Passing(a)) /\ IsFiniteSet(Earning(a)) /\ solved[a] \in Nat /\ solved' = solved
    BY <1>1, <1>4, CountedSets DEF Verified, Shapes
  <2>2. CASE c.eligible /\ c.app = a
    <3>1. Earning(a)' \subseteq Earning(a) \cup {n}
      BY <1>7, <1>8 DEF Earning
    <3>2. Cardinality(Earning(a)') <= Cardinality(Earning(a)) + 1 /\ Cardinality(Earning(a)') \in Nat
      <4>1. /\ IsFiniteSet(Earning(a) \cup {n}) /\ Cardinality(Earning(a) \cup {n}) \in Nat
            /\ Cardinality(Earning(a) \cup {n}) <= Cardinality(Earning(a)) + 1
        BY <2>1, AddedCount
      <4>2. IsFiniteSet(Earning(a)') /\ Cardinality(Earning(a)') <= Cardinality(Earning(a) \cup {n})
        BY <3>1, <4>1, FS_Subset
      <4>3. Cardinality(Earning(a)') \in Nat
        BY <4>2, FS_CardinalityType
      <4>4. QED
        BY <2>1, <4>1, <4>2, <4>3
    <3>3. c \in Passing(a)
      BY <1>3, <2>2 DEF Passing
    <3>4. Passing(a)' \subseteq Passing(a) \ {c}
      BY <1>3, <1>4, <1>6, <2>2 DEF Passing
    <3>5. /\ IsFiniteSet(Passing(a) \ {c})
          /\ Cardinality(Passing(a) \ {c}) = Cardinality(Passing(a)) - 1
      BY <2>1, <3>3, FS_RemoveElement
    <3>6. IsFiniteSet(Passing(a)') /\ Cardinality(Passing(a)') <= Cardinality(Passing(a) \ {c})
      BY <3>4, <3>5, FS_Subset
    <3>7. Cardinality(Passing(a)') \in Nat
      BY <3>6, FS_CardinalityType
    <3>8. QED
      BY <2>1, <3>2, <3>5, <3>6, <3>7
  <2>3. CASE ~(c.eligible /\ c.app = a)
    <3>1. Earning(a)' = Earning(a)
      BY <1>5, <1>7, <1>8, <2>3 DEF Earning
    <3>2. Passing(a)' \subseteq (Passing(a) \ {c}) \cup {d} /\ (c \in Passing(a) \/ d \notin Passing(a)')
      BY <1>3, <1>4, <1>6 DEF Passing
    <3>3. IsFiniteSet(Passing(a)') /\ Cardinality(Passing(a)') <= Cardinality(Passing(a))
      BY <2>1, <3>2, ReplacedCount
    <3>4. Cardinality(Passing(a)') \in Nat
      BY <3>3, FS_CardinalityType
    <3>5. QED
      BY <2>1, <3>1, <3>3, <3>4
  <2>4. QED
    BY <2>2, <2>3
<1>14. QED
  BY <1>9, <1>10, <1>11, <1>12, <1>13 DEF TrafficSound

LEMMA ImpressKeeps ==
  ASSUME TrafficSound, NEW c \in calls, Impress(c)
  PROVE  TrafficSound'
<1> DEFINE x == [app |-> c.app, view |-> c.view, clicked |-> FALSE]
           n == Len(impressions) + 1
           tab == [tabs[c.tab] EXCEPT !.ad = n]
<1>1. /\ Shapes /\ Verified /\ ImpressionsOfViews
      /\ \A y \in calls : CallSound(y) /\ y \in Calls
      /\ \A t \in Tabs : TabSound(t)
      /\ \A t \in Tabs : tabs[t] \in TabStates
  BY Contents DEF TrafficSound
<1>2. /\ impressions \in Seq(Impressions) /\ DOMAIN impressions = 1..Len(impressions)
      /\ Len(impressions) \in Nat /\ n \in Nat /\ n # 0 /\ n \notin DOMAIN impressions
      /\ tabs \in [Tabs -> TabStates]
      /\ calls \subseteq Calls /\ IsFiniteSet(calls)
  BY <1>1, Contents DEF Shapes
<1>3. /\ c.app \in Apps /\ c.view \in Nat /\ c.tab \in Tabs /\ c.pc = "impress"
      /\ c.view \in DOMAIN views /\ views[c.view].app = c.app
      /\ tabs[c.tab].visit = c.visit => tabs[c.tab].app = c.app
  BY <1>1 DEF Impress, CallSound, Calls
<1>4. /\ impressions' = Append(impressions, x) /\ calls' = calls \ {c}
      /\ UNCHANGED <<views, viewCount, session, solved, visits, week>>
      /\ tabs' = IF tabs[c.tab].visit = c.visit THEN [tabs EXCEPT ![c.tab] = tab] ELSE tabs
  BY DEF Impress, settlement
<1>5. x \in Impressions /\ x.app = c.app /\ x.view = c.view
  BY <1>3 DEF Impressions
<1>6. /\ tab \in TabStates /\ tab.visit = tabs[c.tab].visit /\ tab.app = tabs[c.tab].app
      /\ tab.timer = tabs[c.tab].timer /\ tab.challenge = tabs[c.tab].challenge /\ tab.ad = n
  BY <1>1, <1>2, <1>3 DEF TabStates
<1> HIDE DEF x, tab
<1>7. /\ impressions' \in Seq(Impressions) /\ Len(impressions') = n /\ DOMAIN impressions' = 1..n
      /\ impressions'[n] = x
      /\ \A i \in DOMAIN impressions : impressions'[i] = impressions[i]
  BY <1>2, <1>4, <1>5, Sequences
<1>8. DOMAIN impressions' = DOMAIN impressions \cup {n}
  BY <1>2, <1>7
<1> HIDE DEF n
<1>9. tabs' \in [Tabs -> TabStates]
  BY <1>2, <1>3, <1>4, <1>6
<1>10. Shapes'
  <2>1. Views' = Views
    BY <1>4 DEF Views
  <2>2. calls' \subseteq Calls /\ IsFiniteSet(calls')
    BY <1>2, <1>4, FS_Subset
  <2>3. QED
    BY <1>1, <1>4, <1>7, <1>9, <2>1, <2>2 DEF Shapes
<1>11. ASSUME NEW t \in Tabs
       PROVE  TabSound(t)' /\ tabs'[t].visit = tabs[t].visit /\ tabs'[t].app = tabs[t].app
  <2>1. CASE tabs'[t] = tabs[t]
    BY <1>1, <1>4, <1>7, <1>8, <2>1 DEF TabSound
  <2>2. CASE tabs'[t] # tabs[t]
    <3>1. t = c.tab /\ tabs[t].visit = c.visit /\ tabs'[t] = tab
      BY <1>2, <1>3, <1>4, <2>2
    <3>2. tab.app = c.app
      BY <1>3, <1>6, <3>1
    <3>3. TabSound(t)
      BY <1>1
    <3>4. tab.ad \in DOMAIN impressions' /\ impressions'[tab.ad].app = tab.app
      BY <1>5, <1>6, <1>7, <1>8, <3>2
    <3>5. QED
      BY <1>4, <1>6, <3>1, <3>3, <3>4 DEF TabSound
  <2>3. QED
    BY <2>1, <2>2
<1>12. \A y \in calls' : CallSound(y)'
  <2>1. \A y \in calls : y.tab \in Tabs
    BY <1>1 DEF Calls
  <2>2. QED
    BY <1>1, <1>4, <1>11, <2>1 DEF CallSound
<1>13. ImpressionsOfViews'
  BY <1>1, <1>3, <1>4, <1>5, <1>7, <1>8 DEF ImpressionsOfViews
<1>14. Verified'
  <2> SUFFICES ASSUME NEW a \in Apps
               PROVE  Cardinality(Earning(a)') + Cardinality(Passing(a)') <= solved'[a]
    BY DEF Verified
  <2>1. /\ Cardinality(Earning(a)) + Cardinality(Passing(a)) <= solved[a]
        /\ Cardinality(Earning(a)) \in Nat /\ Cardinality(Passing(a)) \in Nat
        /\ IsFiniteSet(Passing(a)) /\ solved[a] \in Nat /\ solved' = solved
    BY <1>1, <1>4, CountedSets DEF Verified, Shapes
  <2>2. Earning(a)' = Earning(a) /\ Passing(a)' \subseteq Passing(a)
    BY <1>4 DEF Earning, Passing
  <2>3. IsFiniteSet(Passing(a)') /\ Cardinality(Passing(a)') <= Cardinality(Passing(a))
    BY <2>1, <2>2, FS_Subset
  <2>4. Cardinality(Passing(a)') \in Nat
    BY <2>3, FS_CardinalityType
  <2>5. QED
    BY <2>1, <2>2, <2>3, <2>4
<1>15. QED
  BY <1>10, <1>11, <1>12, <1>13, <1>14 DEF TrafficSound

LEMMA TrafficAtFirst == Init => TrafficSound
<1> SUFFICES ASSUME Init
             PROVE  TrafficSound
  OBVIOUS
<1>1. PICK s \in Past :
        /\ views = [i \in DOMAIN s |-> [app |-> s[i], session |-> 1, week |-> 1, eligible |-> TRUE]]
        /\ solved = [a \in Apps |-> Cardinality({i \in DOMAIN s : s[i] = a})]
  BY DEF Init
<1>2. /\ tabs = [t \in Tabs |-> Closed] /\ calls = {} /\ impressions = <<>> /\ viewCount = solved
      /\ session = 1 /\ week = 1 /\ visits = 0
  BY DEF Init
<1>3. s \in Seq(Apps) /\ DOMAIN s = 1..Len(s) /\ Len(s) \in Nat /\ \A i \in DOMAIN s : s[i] \in Apps
  BY Beginnings, Sequences
<1>4. \A i \in DOMAIN s :
        [app |-> s[i], session |-> 1, week |-> 1, eligible |-> TRUE] \in Views
  BY <1>2, <1>3 DEF Views
<1>5. views \in Seq(Views) /\ Len(views) = Len(s) /\ DOMAIN views = DOMAIN s
  BY <1>1, <1>3, <1>4
<1>6. \A a \in Apps : Cardinality({i \in DOMAIN s : s[i] = a}) \in 0..Len(s)
  <2> SUFFICES ASSUME NEW a \in Apps
               PROVE  Cardinality({i \in DOMAIN s : s[i] = a}) \in 0..Len(s)
    OBVIOUS
  <2> DEFINE S == {i \in DOMAIN s : s[i] = a}
  <2>1. S \subseteq 1..Len(s)
    BY <1>3
  <2> HIDE DEF S
  <2>2. IsFiniteSet(1..Len(s)) /\ Cardinality(1..Len(s)) = Len(s)
    BY <1>3, UpTo
  <2>3. IsFiniteSet(S) /\ Cardinality(S) <= Len(s)
    BY <2>1, <2>2, FS_Subset
  <2>4. Cardinality(S) \in Nat
    BY <2>3, FS_CardinalityType
  <2>5. Cardinality(S) \in 0..Len(s)
    BY <1>3, <2>3, <2>4
  <2>6. QED
    BY <2>5 DEF S
<1>7. solved \in [Apps -> Nat] /\ viewCount \in [Apps -> 0..Len(views)]
  BY <1>1, <1>2, <1>5, <1>6
<1>8. Closed \in TabStates
  BY DEF Closed, TabStates
<1>9. Shapes
  <2>1. IsFiniteSet({})
    BY FS_EmptySet
  <2>2. impressions \in Seq(Impressions)
    BY <1>2
  <2>3. QED
    BY <1>2, <1>5, <1>7, <1>8, <2>1, <2>2 DEF Shapes
<1>10. \A t \in Tabs : TabSound(t)
  BY <1>2 DEF TabSound, Closed
<1>11. ImpressionsOfViews
  BY <1>2 DEF ImpressionsOfViews
<1>12. Verified
  <2> SUFFICES ASSUME NEW a \in Apps
               PROVE  Cardinality(Earning(a)) + Cardinality(Passing(a)) <= solved[a]
    BY DEF Verified
  <2>1. Earning(a) = {i \in DOMAIN s : s[i] = a}
    BY <1>1, <1>5 DEF Earning
  <2>2. Cardinality(Earning(a)) = solved[a]
    BY <1>1, <2>1
  <2>3. Passing(a) = {} /\ Cardinality({}) = 0
    BY <1>2, FS_EmptySet DEF Passing
  <2>4. solved[a] \in Nat
    BY <1>7
  <2>5. QED
    BY <2>2, <2>3, <2>4
<1>13. \A c \in calls : CallSound(c)
  BY <1>2
<1>14. QED
  BY <1>9, <1>10, <1>11, <1>12, <1>13 DEF TrafficSound

LEMMA TrafficStep == TrafficSound /\ [Next]_vars => TrafficSound'
<1> SUFFICES ASSUME TrafficSound, [Next]_vars
             PROVE  TrafficSound'
  OBVIOUS
<1>1. session \in Nat /\ week \in Nat
  BY DEF TrafficSound, Shapes
<1>2. ASSUME UNCHANGED traffic, week' = week
      PROVE  TrafficSound'
  BY <1>1, <1>2, LaterKeeps DEF traffic
<1>3. ASSUME NEW t \in Tabs,
             \/ \E a \in Apps : Open(t, a)
             \/ ScriptReady(t) \/ TimeUp(t) \/ Solve(t) \/ Leave(t) \/ Click(t)
      PROVE  TrafficSound'
  BY <1>3, PageSteps, ClickKeeps
<1>4. ASSUME NEW c \in calls, Route(c) \/ Lose(c)
      PROVE  TrafficSound'
  BY <1>4, RequestSteps, InsertKeeps, ImpressKeeps DEF Route
<1>5. CASE NextSession
  BY <1>1, <1>5, LaterKeeps DEF NextSession, settlement
<1>6. CASE NextWeek
  BY <1>1, <1>6, LaterKeeps DEF NextWeek, traffic
<1>7. CASE StartRun \/ Script \/ Crash
  <2>1. UNCHANGED traffic /\ week' = week
    BY <1>7 DEF StartRun, Script, Crash, Complete, CheckApp, SkipApp, Skip, FundPool
  <2>2. QED
    BY <1>2, <2>1
<1>8. CASE \E a \in Apps : InitApp(a) \/ refresh_app(a) \/ \E p \in Pools : Withdraw(a, p)
  <2>1. UNCHANGED traffic /\ week' = week
    BY <1>8 DEF InitApp, refresh_app, Withdraw
  <2>2. QED
    BY <1>2, <2>1
<1>9. CASE UNCHANGED vars
  BY <1>2, <1>9 DEF vars, settlement
<1>10. QED
  BY <1>3, <1>4, <1>5, <1>6, <1>7, <1>8, <1>9 DEF Next

\* What a tab sends, what a request has found, and the challenges behind the views, in
\* every reachable state.
THEOREM TrafficIsSound == Spec => []TrafficSound
BY TrafficAtFirst, TrafficStep, PTL DEF Spec

LEMMA TrafficMeans == TrafficSound => EligibleViewsVerified /\ AdOfThePage
<1> SUFFICES ASSUME TrafficSound
             PROVE  EligibleViewsVerified /\ AdOfThePage
  OBVIOUS
<1>1. ASSUME NEW a \in Apps
      PROVE  Cardinality({i \in DOMAIN views : views[i].app = a /\ views[i].eligible}) <= solved[a]
  <2>1. /\ Cardinality(Earning(a)) + Cardinality(Passing(a)) <= solved[a]
        /\ Cardinality(Earning(a)) \in Nat /\ Cardinality(Passing(a)) \in Nat
        /\ solved[a] \in Nat
    BY CountedSets DEF TrafficSound, Verified, Shapes
  <2>2. Cardinality(Earning(a)) <= solved[a]
    BY <2>1
  <2>3. QED
    BY <2>2 DEF Earning
<1>2. AdOfThePage
  BY DEF AdOfThePage, TrafficSound, TabSound, ImpressionsOfViews
<1>3. QED
  BY <1>1, <1>2 DEF EligibleViewsVerified

\* No more views of an app earn than challenges were passed on its page, whatever is
\* repeated, delayed or lost (turnstile.ts:3-7).
THEOREM ViewsAreVerified == Spec => []EligibleViewsVerified
<1>1. TrafficSound => EligibleViewsVerified
  BY TrafficMeans
<1>2. QED
  BY <1>1, TrafficIsSound, PTL

\* The ad on display is of the page that is open, whichever answers are late
\* (useAdServe.ts:24-42).
THEOREM AdsAreOfThePage == Spec => []AdOfThePage
<1>1. TrafficSound => AdOfThePage
  BY TrafficMeans
<1>2. QED
  BY <1>1, TrafficIsSound, PTL

-----------------------------------------------------------------------------
(***************************************************************************)
(* Settlement: rounding, the shares of an app, and the gross amounts.      *)
(***************************************************************************)
LEMMA RoundFacts ==
  ASSUME NEW n \in Nat
  PROVE  /\ Round(n, 20) \in Nat
         /\ 20 * Round(n, 20) <= n + 10 /\ n <= 20 * Round(n, 20) + 10
         /\ n = 0 => Round(n, 20) = 0
BY DEF Round

LEMMA Products ==
  ASSUME NEW c \in Nat \ {0}, NEW m \in Int, NEW n \in Int
  PROVE  /\ c * m \in Int /\ c * n \in Int /\ c * (m + n) = c * m + c * n
         /\ c * m <= c * n => m <= n
<1>1. c * m \in Int /\ c * n \in Int /\ c * (m + n) = c * m + c * n
  OBVIOUS
<1>2. ASSUME c * m <= c * n, ~(m <= n)
      PROVE  FALSE
  <2>1. m - (n + 1) \in Nat
    BY <1>2
  <2>2. \A k \in Nat : c * k \in Nat
    OBVIOUS
  <2>3. c * (m - (n + 1)) \in Nat
    BY <2>1, <2>2
  <2>4. c * (m - (n + 1)) = c * m - (c * n + c)
    OBVIOUS
  <2>5. QED
    BY <1>1, <1>2, <2>3, <2>4
<1>3. QED
  BY <1>1, <1>2

\* Rounding to the nearest unit gains half of one at most.
LEMMA RoundBounds ==
  ASSUME NEW n \in Nat, NEW d \in Nat \ {0}
  PROVE  Round(n, d) \in Nat /\ (2 * d) * Round(n, d) <= 2 * n + d
<1> DEFINE m == 2 * n + d
           c == 2 * d
<1>1. m \in Nat /\ c \in Nat \ {0}
  OBVIOUS
<1>2. \A x \in Nat, y \in Nat \ {0} : x \div y \in Nat /\ y * (x \div y) <= x
  OBVIOUS
<1>3. Round(n, d) = m \div c
  BY DEF Round
<1> HIDE DEF m, c
<1>4. m \div c \in Nat /\ c * (m \div c) <= m
  BY <1>1, <1>2
<1>5. QED
  BY <1>3, <1>4 DEF m, c

Amounts == [Pools -> Nat]

\* What a pool of the app is to get is a natural, and all of them together are nine
\* tenths of its gross.
LEMMA SharesFacts ==
  ASSUME NEW g \in Nat, NEW db \in Amounts
  PROVE  /\ Shares(g, db) \in Amounts
         /\ Shares(g, db)["vote"] + Shares(g, db)["tags"] = 18 * g
         /\ Shares(g, db)["vote"] \in Nat /\ Shares(g, db)["tags"] \in Nat
<1>1. 18 * g \in Nat /\ 9 * g \in Nat /\ 9 * g + 9 * g = 18 * g
  OBVIOUS
<1>2. \A x, y \in Nat : LET s == [vote |-> x, tags |-> y]
                        IN s \in Amounts /\ s["vote"] = x /\ s["tags"] = y
  BY DEF Amounts, Pools
<1>3. \/ Shares(g, db) = [vote |-> 18 * g, tags |-> 0]
      \/ Shares(g, db) = [vote |-> 0, tags |-> 18 * g]
      \/ Shares(g, db) = [vote |-> 9 * g, tags |-> 9 * g]
  BY DEF Shares
<1>4. QED
  BY <1>1, <1>2, <1>3

\* A sum of ones counts.
LEMMA SumCounts ==
  ASSUME NEW f, NEW S, IsFiniteSet(S), \A x \in S : f[x] = 1
  PROVE  SumFunctionOnSet(f, S) = Cardinality(S)
<1> DEFINE Counts(r) == SumFunctionOnSet(f, r) = Cardinality(r)
           T == {r \in SUBSET S : Counts(r)}
<1>1. {} \in T
  BY SumOfNone, FS_EmptySet
<1>2. ASSUME NEW r \in SUBSET S, NEW x \in S, x \in r, r \ {x} \in T
      PROVE  r \in T
  <2>1. IsFiniteSet(r) /\ \A y \in r : f[y] \in Int
    BY FS_Subset
  <2>2. SumFunctionOnSet(f, r) = f[x] + SumFunctionOnSet(f, r \ {x})
    BY <1>2, <2>1, SumSplits
  <2>3. Cardinality(r \ {x}) = Cardinality(r) - 1 /\ Cardinality(r) \in Nat
    BY <1>2, <2>1, FS_RemoveElement, FS_CardinalityType
  <2>4. Counts(r)
    BY <1>2, <2>2, <2>3
  <2>5. QED
    BY <2>4
<1> HIDE DEF T
<1>3. S \in T
  BY <1>1, <1>2, FiniteInduction
<1>4. QED
  BY <1>3 DEF T

\* Part of a sum of naturals.
LEMMA PartOfSum ==
  ASSUME NEW f, NEW S, IsFiniteSet(S), \A x \in S : f[x] \in Nat, NEW R, R \subseteq S
  PROVE  /\ SumFunctionOnSet(f, R) \in Nat /\ SumFunctionOnSet(f, S) \in Nat
         /\ SumFunctionOnSet(f, R) <= SumFunctionOnSet(f, S)
<1>1. IsFiniteSet(R) /\ IsFiniteSet(S \ R) /\ R \cap (S \ R) = {} /\ R \cup (S \ R) = S
  BY FS_Subset
<1>2. /\ SumFunctionOnSet(f, R) \in Nat /\ SumFunctionOnSet(f, S \ R) \in Nat
      /\ SumFunctionOnSet(f, S) \in Nat
  BY <1>1, SumIsNat
<1>3. \A x \in R \cup (S \ R) : f[x] \in Int
  BY <1>1
<1>4. SumFunctionOnSet(f, R \cup (S \ R)) = SumFunctionOnSet(f, R) + SumFunctionOnSet(f, S \ R)
  BY <1>1, <1>3, SumOfUnion
<1>5. QED
  BY <1>1, <1>2, <1>4

\* What the apps earn by their traffic is what the week earned, but for half a unit each.
GrossWithin(gross) ==
  2 * SumFunctionOnSet(gross, Apps) <= 2 * Earnings + Cardinality(Apps)

LEMMA GrossFacts ==
  ASSUME Shapes, NEW w
  PROVE  allocateByTrafficShare(w) \in [Apps -> Nat] /\ GrossWithin(allocateByTrafficShare(w))
<1> DEFINE v == trafficOf(w)
           t == SumFunctionOnSet(v, Apps)
           g == allocateByTrafficShare(w)
<1>1. IsFiniteSet(Apps) /\ Cardinality(Apps) \in Nat /\ Earnings \in Nat
  BY Bounds, FS_CardinalityType
<1>2. v \in [Apps -> Nat]
  <2>1. \A a \in Apps : EligibleViews(w, a) \in Nat
    <3> SUFFICES ASSUME NEW a \in Apps
                 PROVE  EligibleViews(w, a) \in Nat
      OBVIOUS
    <3> DEFINE S == {i \in DOMAIN views : views[i].app = a /\ views[i].week = w /\ views[i].eligible}
    <3>1. IsFiniteSet(DOMAIN views) /\ S \subseteq DOMAIN views
      BY Contents, UpTo
    <3> HIDE DEF S
    <3>2. Cardinality(S) \in Nat
      BY <3>1, FS_Subset, FS_CardinalityType
    <3>3. QED
      BY <3>2 DEF EligibleViews, S
  <2>2. QED
    BY <2>1 DEF trafficOf
<1>3. g = [a \in Apps |-> IF t = 0 THEN 0 ELSE Round(Earnings * v[a], t)]
  BY DEF allocateByTrafficShare, trafficOf
<1> HIDE DEF v, g
<1>4. \A a \in Apps : v[a] \in Nat
  BY <1>2
<1>5. t \in Nat
  BY <1>1, <1>4, SumIsNat
<1> HIDE DEF t
<1>6. CASE t = 0
  <2>1. g \in [Apps -> Nat] /\ \A a \in Apps : g[a] = 0
    BY <1>3, <1>6
  <2>2. SumFunctionOnSet(g, Apps) = 0
    BY <1>1, <2>1, SumOfZeros
  <2>3. QED
    BY <1>1, <2>1, <2>2 DEF GrossWithin, g
<1>7. CASE t # 0
  <2>1. \A a \in Apps : Earnings * v[a] \in Nat
    BY <1>1, <1>4
  <2>2. t \in Nat \ {0} /\ \A a \in Apps : g[a] = Round(Earnings * v[a], t)
    BY <1>3, <1>5, <1>7
  <2>3. \A a \in Apps : g[a] \in Nat /\ (2 * t) * g[a] <= 2 * (Earnings * v[a]) + t
    BY <2>1, <2>2, RoundBounds
  <2>4. g \in [Apps -> Nat]
    BY <1>3, <2>3
  <2> DEFINE one == [a \in Apps |-> 1]
             f1 == [a \in Apps |-> (2 * t) * g[a]]
             f2 == [a \in Apps |-> (2 * Earnings) * v[a]]
             f3 == [a \in Apps |-> t * one[a]]
             f4 == [a \in Apps |-> f2[a] + f3[a]]
  <2>5. 2 * t \in Int /\ 2 * Earnings \in Int /\ \A a \in Apps : 2 * (Earnings * v[a]) = (2 * Earnings) * v[a]
    BY <1>1, <1>4, <1>5
  <2>6. \A a \in Apps : /\ f1[a] = (2 * t) * g[a] /\ f2[a] = (2 * Earnings) * v[a]
                        /\ f3[a] = t * one[a] /\ f4[a] = f2[a] + f3[a] /\ one[a] = 1
    OBVIOUS
  <2>7. \A a \in Apps : (2 * t) * g[a] \in Int /\ (2 * Earnings) * v[a] \in Int /\ t * 1 = t
    BY <1>4, <2>3, <2>5, <1>5
  <2> HIDE DEF one, f1, f2, f3, f4
  <2>8. \A a \in Apps : /\ f1[a] \in Int /\ f2[a] \in Int /\ f3[a] \in Int /\ f4[a] \in Int
                        /\ f1[a] <= f4[a] /\ g[a] \in Int /\ v[a] \in Int /\ one[a] \in Int
    BY <1>4, <1>5, <2>3, <2>5, <2>6, <2>7
  <2>9. SumFunctionOnSet(f1, Apps) = (2 * t) * SumFunctionOnSet(g, Apps)
    BY <1>1, <2>5, <2>6, <2>8, SumOfMultiples
  <2>10. SumFunctionOnSet(f2, Apps) = (2 * Earnings) * SumFunctionOnSet(v, Apps)
    BY <1>1, <2>5, <2>6, <2>8, SumOfMultiples
  <2>11. SumFunctionOnSet(f3, Apps) = t * SumFunctionOnSet(one, Apps) /\ SumFunctionOnSet(one, Apps) = Cardinality(Apps)
    <3>1. t \in Int
      BY <1>5
    <3>2. SumFunctionOnSet(f3, Apps) = t * SumFunctionOnSet(one, Apps)
      BY <1>1, <2>6, <2>8, <3>1, SumOfMultiples
    <3>3. QED
      BY <1>1, <2>6, <3>2, SumCounts
  <2>12. SumFunctionOnSet(f4, Apps) = SumFunctionOnSet(f2, Apps) + SumFunctionOnSet(f3, Apps)
    BY <1>1, <2>6, <2>8, SumOfSums
  <2>13. SumFunctionOnSet(f1, Apps) <= SumFunctionOnSet(f4, Apps)
    BY <1>1, <2>8, SumIsMonotone
  <2>14. SumFunctionOnSet(g, Apps) \in Int
    BY <1>1, <2>8, SumIsInt
  <2>15. GrossWithin(g)
    <3> DEFINE s == SumFunctionOnSet(g, Apps)
               n == Cardinality(Apps)
    <3>1. (2 * t) * s <= (2 * Earnings) * t + t * n
      BY <2>9, <2>10, <2>11, <2>12, <2>13 DEF t
    <3>2. s \in Int /\ n \in Int
      BY <1>1, <2>14
    <3> HIDE DEF s, n
    <3>3. (2 * t) * s = t * (2 * s) /\ (2 * Earnings) * t + t * n = t * (2 * Earnings + n)
      BY <1>1, <1>5, <3>2
    <3>4. 2 * s \in Int /\ 2 * Earnings + n \in Int
      BY <1>1, <3>2
    <3>5. 2 * s <= 2 * Earnings + n
      BY <2>2, <3>1, <3>3, <3>4, Products
    <3>6. QED
      BY <3>5 DEF GrossWithin, s, n
  <2>16. QED
    BY <2>4, <2>15 DEF g
<1>8. QED
  BY <1>6, <1>7

-----------------------------------------------------------------------------
(***************************************************************************)
(* The state of a run.                                                     *)
(***************************************************************************)
Stakings == [Apps -> Amounts]
Jobs ==
  [pc : {"idle", "apps", "vote", "tags", "complete", "failed"}, run : Nat, week : Nat,
   todo : SUBSET Apps, gross : [Apps -> Nat], cached : Stakings, app : Apps \cup {NoApp},
   share : Amounts]
Outcomes ==
  [no : Nat, run : Nat, app : Apps, pool : Pools, what : {"paid", "deferred", "absent", "unread"},
   amount : Nat]

Decided == {o \in outcomes : o.run = job.run}
ShareOf(a) == Shares(job.gross[a], job.cached[a])

JobShapes ==
  /\ job \in Jobs /\ stake \in Stakings /\ cached \in Stakings /\ job.week < week
  /\ outcomes \subseteq Outcomes /\ IsFiniteSet(outcomes)
  /\ \A o \in outcomes : o.run \in 1..job.run
  /\ job.pc # "idle" => job.run > 0

\* Stake is in an account, on the chain, in the ledger and in what the run read.
StakeNeedsAccount ==
  \A a \in Apps \ accounts : stake[a] = NoStake /\ cached[a] = NoStake /\ job.cached[a] = NoStake

\* A pool of the app at hand that is still to be funded.
Pending(a, p) ==
  /\ a = job.app /\ job.share[p] > 0
  /\ job.pc = "vote" \/ (job.pc = "tags" /\ p = "tags")

AtHand ==
  /\ job.pc \in {"vote", "tags"} =>
       job.app \in Apps \ job.todo /\ \A p \in Pools : job.share[p] \in {0, ShareOf(job.app)[p]}
  /\ job.pc = "complete" => job.todo = {}

\* What the run has decided of a pool is its share, rounded, and it decides once.
DecidedOnce ==
  /\ \A o \in Decided : /\ o.app \notin job.todo /\ ShareOf(o.app)[o.pool] > 0
                        /\ o.amount = Round(ShareOf(o.app)[o.pool], 20)
  /\ \A o, q \in Decided : o.app = q.app /\ o.pool = q.pool => o = q

\* The pools of the apps looked at have their outcome or are still to be funded.
AllDecided ==
  job.pc # "failed" =>
    \A a \in Apps \ job.todo : \A p \in Pools :
      ShareOf(a)[p] > 0 => (Pending(a, p) <=> ~\E o \in Decided : o.app = a /\ o.pool = p)

\* The run skips an app with all its pools, and never the app at hand.
SkippedWhole ==
  /\ \A o, q \in Decided :
       o.app = q.app /\ o.what \in {"absent", "unread"} => q.what \in {"absent", "unread"}
  /\ \A o \in Decided : o.what \in {"absent", "unread"} /\ job.pc \in {"vote", "tags"} =>
       o.app # job.app
  /\ \A o \in Decided : o.what = "absent" => job.cached[o.app] = NoStake

\* What is still to be spent on the app at hand.
Owed == IF job.pc = "vote" THEN job.share["vote"] + job.share["tags"]
        ELSE IF job.pc = "tags" THEN job.share["tags"] ELSE 0

\* With what the apps to come are to get, the run stays within the shares of all.
Budget(paid) ==
  20 * Amount(paid) + 18 * SumFunctionOnSet(job.gross, job.todo) + Owed
    <= 18 * SumFunctionOnSet(job.gross, Apps) + 10 * Cardinality(paid)

EarlierRuns == \A r \in 1..job.run : r < job.run => WithinEarnings(OutcomesOf(r, "paid"))

RunSound ==
  /\ JobShapes /\ accounts \subseteq Apps /\ StakeNeedsAccount
  /\ AtHand /\ DecidedOnce /\ AllDecided /\ SkippedWhole
  /\ GrossWithin(job.gross)
  /\ Budget(OutcomesOf(job.run, "paid"))
  /\ EarlierRuns

LEMMA JobFields ==
  ASSUME JobShapes
  PROVE  /\ job.pc \in {"idle", "apps", "vote", "tags", "complete", "failed"} /\ job.run \in Nat
         /\ job.week \in Nat /\ job.todo \subseteq Apps /\ job.gross \in [Apps -> Nat]
         /\ job.cached \in Stakings /\ job.app \in Apps \cup {NoApp} /\ job.share \in Amounts
         /\ \A a \in Apps : job.gross[a] \in Nat /\ job.cached[a] \in Amounts /\ stake[a] \in Amounts
         /\ \A p \in Pools : job.share[p] \in Nat
         /\ job.share["vote"] \in Nat /\ job.share["tags"] \in Nat
         /\ \A a \in Apps : /\ ShareOf(a) \in Amounts /\ \A p \in Pools : ShareOf(a)[p] \in Nat
                            /\ ShareOf(a)["vote"] \in Nat /\ ShareOf(a)["tags"] \in Nat
                            /\ ShareOf(a)["vote"] + ShareOf(a)["tags"] = 18 * job.gross[a]
         /\ Owed \in Nat
<1>1. /\ job.pc \in {"idle", "apps", "vote", "tags", "complete", "failed"} /\ job.run \in Nat
      /\ job.week \in Nat /\ job.todo \subseteq Apps /\ job.gross \in [Apps -> Nat]
      /\ job.cached \in Stakings /\ job.app \in Apps \cup {NoApp} /\ job.share \in Amounts
      /\ stake \in Stakings
  BY DEF JobShapes, Jobs
<1>2. \A a \in Apps : job.gross[a] \in Nat /\ job.cached[a] \in Amounts /\ stake[a] \in Amounts
  BY <1>1 DEF Stakings
<1>3. /\ \A p \in Pools : job.share[p] \in Nat
      /\ job.share["vote"] \in Nat /\ job.share["tags"] \in Nat
  BY <1>1 DEF Amounts, Pools
<1>4. \A a \in Apps : /\ ShareOf(a) \in Amounts
                      /\ ShareOf(a)["vote"] \in Nat /\ ShareOf(a)["tags"] \in Nat
                      /\ ShareOf(a)["vote"] + ShareOf(a)["tags"] = 18 * job.gross[a]
  BY <1>2, SharesFacts DEF ShareOf
<1>5. \A a \in Apps : \A p \in Pools : ShareOf(a)[p] \in Nat
  BY <1>4 DEF Amounts
<1>6. Owed \in Nat
  BY <1>3 DEF Owed
<1>7. QED
  BY <1>1, <1>2, <1>3, <1>4, <1>5, <1>6

\* The amounts of some outcomes, and of one more.
LEMMA AmountFacts ==
  ASSUME NEW O, IsFiniteSet(O), \A o \in O : o.amount \in Nat
  PROVE  /\ Amount(O) \in Nat
         /\ \A o : o.amount \in Nat /\ o \notin O => Amount(O \cup {o}) = Amount(O) + o.amount
<1>1. \A o \in O : amountIn(O)[o] = o.amount /\ amountIn(O)[o] \in Nat
  BY DEF amountIn
<1>2. Amount(O) \in Nat
  BY <1>1, SumIsNat DEF Amount
<1>3. ASSUME NEW o, o.amount \in Nat, o \notin O
      PROVE  Amount(O \cup {o}) = Amount(O) + o.amount
  <2> DEFINE P == O \cup {o}
             f == amountIn(P)
             g == amountIn(O)
  <2>1. IsFiniteSet(P) /\ o \in P /\ P \ {o} = O
    BY <1>3, FS_AddElement
  <2>2. \A x \in P : f[x] = x.amount
    BY DEF amountIn
  <2>3. \A x \in P : f[x] \in Int
    BY <1>3, <2>2
  <2>4. f[o] = o.amount /\ \A x \in O : f[x] = g[x]
    BY <1>1, <2>1, <2>2
  <2> HIDE DEF P, f, g
  <2>5. SumFunctionOnSet(f, P) = f[o] + SumFunctionOnSet(f, P \ {o})
    BY <2>1, <2>3, SumSplits
  <2>6. SumFunctionOnSet(f, O) = SumFunctionOnSet(g, O)
    BY <2>4, SumAgrees
  <2>7. SumFunctionOnSet(f, P) = o.amount + SumFunctionOnSet(g, O)
    BY <2>1, <2>4, <2>5, <2>6
  <2>8. Amount(P) = SumFunctionOnSet(f, P) /\ Amount(O) = SumFunctionOnSet(g, O)
    BY DEF Amount, f, g
  <2>9. Amount(P) = Amount(O) + o.amount
    BY <1>2, <1>3, <2>7, <2>8
  <2>10. QED
    BY <2>9 DEF P
<1>4. QED
  BY <1>2, <1>3

\* A run that stays within its budget stays within the week's earnings.
LEMMA BudgetSuffices ==
  ASSUME RunSound
  PROVE  WithinEarnings(OutcomesOf(job.run, "paid"))
<1> DEFINE paid == OutcomesOf(job.run, "paid")
           x == SumFunctionOnSet(job.gross, job.todo)
           y == SumFunctionOnSet(job.gross, Apps)
           n == Cardinality(paid)
           m == Amount(paid)
<1>1. /\ JobShapes /\ Budget(paid) /\ GrossWithin(job.gross)
      /\ Earnings \in Nat /\ IsFiniteSet(Apps) /\ Cardinality(Apps) \in Nat
  BY Bounds, FS_CardinalityType DEF RunSound
<1>2. \A a \in Apps : job.gross[a] \in Nat
  BY <1>1, JobFields
<1>3. x \in Nat /\ y \in Nat
  BY <1>1, <1>2, JobFields, PartOfSum
<1>4. IsFiniteSet(paid) /\ \A o \in paid : o.amount \in Nat
  <2>1. \A o \in Outcomes : o.amount \in Nat
    BY DEF Outcomes
  <2>2. paid \subseteq outcomes
    BY DEF OutcomesOf
  <2>3. QED
    BY <1>1, <2>1, <2>2, FS_Subset DEF JobShapes
<1> HIDE DEF paid
<1>5. m \in Nat /\ n \in Nat
  BY <1>4, AmountFacts, FS_CardinalityType
<1>6. Owed \in Nat
  BY <1>1, JobFields
<1>7. 20 * m + 18 * x + Owed <= 18 * y + 10 * n /\ 2 * y <= 2 * Earnings + Cardinality(Apps)
  BY <1>1 DEF Budget, GrossWithin
<1> HIDE DEF x, y, n, m
<1>8. 20 * m <= 18 * Earnings + 9 * Cardinality(Apps) + 10 * n
  BY <1>1, <1>3, <1>5, <1>6, <1>7
<1>9. QED
  BY <1>8 DEF WithinEarnings, m, n, paid

\* The outcomes of one pool: its share, rounded, if it has one.
LEMMA PoolAmount ==
  ASSUME RunSound, job.pc = "complete", NEW a \in Apps, NEW p \in Pools
  PROVE  LET O == {o \in outcomes : o.run = job.run /\ o.app = a /\ o.pool = p}
         IN IsFiniteSet(O) /\ Amount(O) = Round(ShareOf(a)[p], 20)
<1> DEFINE O == {o \in outcomes : o.run = job.run /\ o.app = a /\ o.pool = p}
           n == ShareOf(a)[p]
<1>1. /\ JobShapes /\ AtHand /\ DecidedOnce /\ AllDecided
  BY DEF RunSound
<1>2. IsFiniteSet(O) /\ \A o \in O : o.amount \in Nat /\ o \in Decided
  <2>1. \A o \in Outcomes : o.amount \in Nat
    BY DEF Outcomes
  <2>2. O \subseteq outcomes
    OBVIOUS
  <2>3. QED
    BY <1>1, <2>1, <2>2, FS_Subset DEF JobShapes, Decided
<1>3. n \in Nat
  BY <1>1, JobFields
<1>4. \A o \in O : n > 0 /\ o.amount = Round(n, 20)
  BY <1>1, <1>2 DEF DecidedOnce
<1>5. \A o, q \in O : o = q
  BY <1>1, <1>2 DEF DecidedOnce
<1>6. n > 0 => \E o \in O : TRUE
  <2>1. job.todo = {} /\ job.pc # "failed" /\ ~Pending(a, p)
    BY <1>1 DEF AtHand, Pending
  <2>2. n > 0 => \E o \in Decided : o.app = a /\ o.pool = p
    BY <1>1, <2>1 DEF AllDecided
  <2>3. QED
    BY <2>2 DEF Decided
<1>7. n = 0 => Round(n, 20) = 0
  BY <1>3, RoundFacts
<1>8. Amount({}) = 0
  BY SumOfNone DEF Amount
<1>9. IsFiniteSet({}) /\ \A o \in {} : o.amount \in Nat
  BY FS_EmptySet
<1> HIDE DEF O, n
<1>10. CASE O = {}
  BY <1>2, <1>3, <1>6, <1>7, <1>8, <1>10 DEF O, n
<1>11. CASE O # {}
  <2>1. PICK o : o \in O
    BY <1>11
  <2>2. O = {} \cup {o}
    BY <1>5, <2>1
  <2>3. o.amount \in Nat /\ o \notin {} /\ o.amount = Round(n, 20)
    BY <1>2, <1>4, <2>1
  <2>4. Amount({} \cup {o}) = Amount({}) + o.amount
    BY <1>9, <2>3, AmountFacts
  <2>5. Amount(O) = Round(n, 20)
    BY <1>8, <2>2, <2>3, <2>4
  <2>6. QED
    BY <1>2, <2>5 DEF O, n
<1>12. QED
  BY <1>10, <1>11

LEMMA RunSoundMeans ==
  ASSUME RunSound
  PROVE  SharesAddUp
<1>1. RunPaysWithinEarnings
  <2> SUFFICES ASSUME NEW r \in 1..job.run
               PROVE  WithinEarnings(OutcomesOf(r, "paid"))
    BY DEF RunPaysWithinEarnings
  <2>1. job.run \in Nat
    BY JobFields DEF RunSound
  <2>2. r = job.run \/ r < job.run
    BY <2>1
  <2>3. EarlierRuns
    BY DEF RunSound
  <2>4. QED
    BY <2>2, <2>3, BudgetSuffices DEF EarlierRuns
<1>2. CompleteRunsAreWhole
  <2> SUFFICES ASSUME job.pc = "complete", NEW a \in Apps
               PROVE  LET of == {o \in outcomes : o.run = job.run /\ o.app = a}
                      IN /\ 20 * Amount(of) \in (18 * job.gross[a] - 20)..(18 * job.gross[a] + 20)
                         /\ \A o, q \in of : o.pool = q.pool => o = q
                         /\ Skipped(of) \in {{}, of}
                         /\ (\E o \in of : o.what = "absent") => job.cached[a] = NoStake
    BY DEF CompleteRunsAreWhole
  <2> DEFINE of == {o \in outcomes : o.run = job.run /\ o.app = a}
             V == {o \in outcomes : o.run = job.run /\ o.app = a /\ o.pool = "vote"}
             T == {o \in outcomes : o.run = job.run /\ o.app = a /\ o.pool = "tags"}
             f == amountIn(of)
             v == ShareOf(a)["vote"]
             t == ShareOf(a)["tags"]
             g == job.gross[a]
  <2>1. JobShapes /\ DecidedOnce
    BY DEF RunSound
  <2>2. \A o, q \in of : o.pool = q.pool => o = q
    BY <2>1 DEF DecidedOnce, Decided
  <2>0. Skipped(of) \in {{}, of} /\ ((\E o \in of : o.what = "absent") => job.cached[a] = NoStake)
    <3>1. \A o \in of : o \in Decided /\ o.app = a
      BY DEF Decided
    <3> HIDE DEF of
    <3>2. \A o, q \in of : o.what \in {"absent", "unread"} => q.what \in {"absent", "unread"}
      BY <3>1 DEF RunSound, SkippedWhole
    <3>3. Skipped(of) # {} => Skipped(of) = of
      BY <3>2 DEF Skipped
    <3>4. QED
      BY <3>1, <3>3 DEF RunSound, SkippedWhole
  <2>3. "vote" \in Pools /\ "tags" \in Pools /\ Pools = {"vote", "tags"}
    BY DEF Pools
  <2>4. IsFiniteSet(V) /\ IsFiniteSet(T) /\ Amount(V) = Round(v, 20) /\ Amount(T) = Round(t, 20)
    BY <2>3, PoolAmount
  <2>5. \A o \in Outcomes : o.amount \in Nat /\ o.pool \in {"vote", "tags"}
    BY <2>3 DEF Outcomes
  <2>6. of = V \cup T /\ V \cap T = {} /\ \A o \in of : o.amount \in Int
    BY <2>1, <2>5 DEF JobShapes
  <2>7. \A o \in of : f[o] = o.amount
    BY DEF amountIn
  <2>8. /\ \A o \in V : f[o] = amountIn(V)[o]
        /\ \A o \in T : f[o] = amountIn(T)[o]
    BY <2>6, <2>7 DEF amountIn
  <2>9. Amount(of) = SumFunctionOnSet(f, of)
    BY DEF Amount
  <2>10. v \in Nat /\ t \in Nat /\ v + t = 18 * g /\ g \in Nat
    BY <2>1, JobFields
  <2> HIDE DEF of, V, T, f, v, t, g
  <2>11. \A o \in V \cup T : f[o] \in Int
    BY <2>6, <2>7
  <2>12. SumFunctionOnSet(f, V \cup T) = SumFunctionOnSet(f, V) + SumFunctionOnSet(f, T)
    BY <2>4, <2>6, <2>11, SumOfUnion
  <2>13. SumFunctionOnSet(f, V) = Amount(V) /\ SumFunctionOnSet(f, T) = Amount(T)
    BY <2>4, <2>8, SumAgrees DEF Amount
  <2>14. Amount(of) = Round(v, 20) + Round(t, 20)
    BY <2>4, <2>6, <2>9, <2>12, <2>13
  <2>15. /\ Round(v, 20) \in Nat /\ 20 * Round(v, 20) <= v + 10 /\ v <= 20 * Round(v, 20) + 10
         /\ Round(t, 20) \in Nat /\ 20 * Round(t, 20) <= t + 10 /\ t <= 20 * Round(t, 20) + 10
    BY <2>10, RoundFacts
  <2>16. 20 * Amount(of) \in (18 * g - 20)..(18 * g + 20)
    BY <2>10, <2>14, <2>15
  <2>17. QED
    BY <2>0, <2>2, <2>16 DEF of, g
<1>3. QED
  BY <1>1, <1>2 DEF SharesAddUp

-----------------------------------------------------------------------------
(***************************************************************************)
(* The steps of a run.                                                     *)
(***************************************************************************)
LEMMA IdleFacts ==
  /\ Idle \in Jobs /\ Idle.pc = "idle" /\ Idle.run = 0 /\ Idle.week = 0 /\ Idle.todo = {}
  /\ \A a \in Apps : Idle.gross[a] = 0 /\ Idle.cached[a] = NoStake
<1>1. NoStake \in Amounts
  BY DEF NoStake, Amounts, Pools
<1>2. [a \in Apps |-> NoStake] \in Stakings
  BY <1>1 DEF Stakings
<1>3. QED
  BY <1>1, <1>2 DEF Idle, Jobs

LEMMA RunAtFirst == Init => RunSound
<1> SUFFICES ASSUME Init
             PROVE  RunSound
  OBVIOUS
<1>1. job = Idle /\ outcomes = {} /\ stake \in Stakes /\ cached = stake /\ week = 1
  BY DEF Init
<1>2. stake \in Stakings
  BY <1>1, Beginnings DEF Stakings, Amounts, Pools
<1>3. IsFiniteSet({}) /\ Cardinality({}) = 0
  BY FS_EmptySet
<1>4. JobShapes
  BY <1>1, <1>2, <1>3, IdleFacts DEF JobShapes
<1>5. AtHand
  BY <1>1, IdleFacts DEF AtHand
<1>6. Decided = {} /\ DecidedOnce /\ SkippedWhole
  BY <1>1 DEF Decided, DecidedOnce, SkippedWhole
<1>7. AllDecided
  <2> SUFFICES ASSUME NEW a \in Apps, NEW p \in Pools
               PROVE  ~(ShareOf(a)[p] > 0)
    BY DEF AllDecided
  <2>1. job.gross[a] = 0
    BY <1>1, IdleFacts
  <2>2. /\ ShareOf(a)["vote"] \in Nat /\ ShareOf(a)["tags"] \in Nat
        /\ ShareOf(a)["vote"] + ShareOf(a)["tags"] = 18 * job.gross[a]
    BY <1>4, JobFields
  <2>3. ShareOf(a)["vote"] = 0 /\ ShareOf(a)["tags"] = 0
    BY <2>1, <2>2
  <2>4. QED
    BY <2>3 DEF Pools
<1>8. SumFunctionOnSet(job.gross, Apps) = 0 /\ SumFunctionOnSet(job.gross, job.todo) = 0
  BY <1>1, Bounds, IdleFacts, SumOfZeros, SumOfNone
<1>9. GrossWithin(job.gross)
  BY <1>8, Bounds, FS_CardinalityType DEF GrossWithin
<1>10. Budget(OutcomesOf(job.run, "paid"))
  <2>1. OutcomesOf(job.run, "paid") = {}
    BY <1>1 DEF OutcomesOf
  <2>2. Amount({}) = 0
    BY SumOfNone DEF Amount
  <2>3. Owed = 0
    BY <1>1, IdleFacts DEF Owed
  <2>4. QED
    BY <1>3, <1>8, <2>1, <2>2, <2>3 DEF Budget
<1>11. EarlierRuns
  BY <1>1, IdleFacts DEF EarlierRuns
<1>12. accounts \subseteq Apps /\ StakeNeedsAccount
  BY <1>1, IdleFacts DEF Init, StakeNeedsAccount
<1>13. QED
  BY <1>4, <1>5, <1>6, <1>7, <1>9, <1>10, <1>11, <1>12 DEF RunSound

\* Accounts, stakes or the week change, and the run stands.
LEMMA RunStands ==
  ASSUME RunSound, week \in Nat, week' \in Nat, week <= week', UNCHANGED <<job, outcomes>>,
         stake' \in Stakings, cached' \in Stakings,
         accounts' \subseteq Apps, StakeNeedsAccount'
  PROVE  RunSound'
<1>1. JobShapes'
  <2>1. JobShapes /\ job.week \in Nat /\ Stakings' = Stakings /\ Jobs' = Jobs /\ Outcomes' = Outcomes
    BY JobFields DEF RunSound, Stakings, Jobs, Outcomes
  <2>2. QED
    BY <2>1 DEF JobShapes
<1>2. AtHand' /\ DecidedOnce' /\ AllDecided' /\ SkippedWhole'
  BY DEF RunSound, AtHand, DecidedOnce, AllDecided, SkippedWhole, Pending, Decided, ShareOf
<1>3. GrossWithin(job.gross)' /\ Budget(OutcomesOf(job.run, "paid"))' /\ EarlierRuns'
  BY DEF RunSound, GrossWithin, Budget, OutcomesOf, Owed, EarlierRuns
<1>4. QED
  BY <1>1, <1>2, <1>3 DEF RunSound

LEMMA StartRunKeeps ==
  ASSUME RunSound, Shapes, StartRun
  PROVE  RunSound'
<1> DEFINE gross == allocateByTrafficShare(week - 1)
           todo == {a \in Apps : gross[a] > 0}
<1>1. /\ JobShapes /\ week \in Nat \ {0} /\ week' = week /\ week > 1
      /\ outcomes' = outcomes /\ stake' = stake /\ cached' = cached /\ accounts' = accounts
      /\ job' = [Idle EXCEPT !.pc = "apps", !.run = job.run + 1, !.week = week - 1,
                             !.gross = gross, !.cached = cached, !.todo = todo]
  BY DEF RunSound, Shapes, StartRun
<1>2. job.run \in Nat /\ stake \in Stakings /\ cached \in Stakings
  BY <1>1, JobFields DEF JobShapes
<1>3. gross \in [Apps -> Nat] /\ GrossWithin(gross)
  BY GrossFacts
<1> HIDE DEF gross
<1>4. /\ todo \subseteq Apps /\ week - 1 \in Nat /\ job.run + 1 \in Nat
      /\ \A a \in Apps : gross[a] \in Nat
  BY <1>1, <1>2, <1>3
<1>5. \A a \in Apps \ todo : gross[a] = 0
  BY <1>4
<1> HIDE DEF todo
<1>6. /\ job' \in Jobs
      /\ job'.pc = "apps" /\ job'.run = job.run + 1 /\ job'.week = week - 1
      /\ job'.gross = gross /\ job'.cached = cached /\ job'.todo = todo
  BY <1>1, <1>2, <1>3, <1>4, IdleFacts DEF Jobs
<1>7. \A o \in outcomes : o \in Outcomes /\ o.run \in 1..job.run /\ o.run # job.run + 1 /\ o.run \in 1..(job.run + 1)
  BY <1>1, <1>2 DEF JobShapes
<1>8. JobShapes'
  <2>1. Stakings' = Stakings /\ Jobs' = Jobs /\ Outcomes' = Outcomes
    BY DEF Stakings, Jobs, Outcomes
  <2>2. job'.week < week'
    BY <1>1, <1>6
  <2>3. QED
    BY <1>1, <1>2, <1>6, <1>7, <2>1, <2>2 DEF JobShapes
<1>9. AtHand'
  BY <1>6 DEF AtHand
<1>10. Decided' = {}
  BY <1>1, <1>6, <1>7 DEF Decided
<1>11. DecidedOnce' /\ SkippedWhole'
  BY <1>10 DEF DecidedOnce, SkippedWhole
<1>12. AllDecided'
  <2> SUFFICES ASSUME NEW a \in Apps \ todo, NEW p \in Pools
               PROVE  ~(ShareOf(a)'[p] > 0)
    BY <1>6 DEF AllDecided
  <2>1. ShareOf(a)' = Shares(gross[a], cached[a]) /\ gross[a] = 0 /\ cached[a] \in Amounts
    BY <1>2, <1>5, <1>6 DEF ShareOf, Stakings
  <2> DEFINE s == Shares(gross[a], cached[a])
  <2>2. s["vote"] \in Nat /\ s["tags"] \in Nat /\ s["vote"] + s["tags"] = 18 * gross[a]
    BY <1>4, <2>1, SharesFacts
  <2> HIDE DEF s
  <2>3. s["vote"] = 0 /\ s["tags"] = 0
    BY <2>1, <2>2
  <2>4. s[p] = 0
    BY <2>3 DEF Pools
  <2>5. QED
    BY <2>1, <2>4 DEF s
<1>13. GrossWithin(job.gross)'
  BY <1>3, <1>6 DEF GrossWithin
<1>14. Budget(OutcomesOf(job.run, "paid"))'
  <2>1. OutcomesOf(job.run, "paid")' = {}
    BY <1>1, <1>6, <1>7 DEF OutcomesOf
  <2>2. Amount({}) = 0 /\ Cardinality({}) = 0
    BY SumOfNone, FS_EmptySet DEF Amount
  <2>3. Owed' = 0
    BY <1>6 DEF Owed
  <2>4. /\ SumFunctionOnSet(gross, todo) \in Nat /\ SumFunctionOnSet(gross, Apps) \in Nat
        /\ SumFunctionOnSet(gross, todo) <= SumFunctionOnSet(gross, Apps)
    BY <1>4, Bounds, PartOfSum
  <2>5. QED
    BY <1>6, <2>1, <2>2, <2>3, <2>4 DEF Budget
<1>15. EarlierRuns'
  <2> SUFFICES ASSUME NEW r \in 1..job'.run, r < job'.run
               PROVE  WithinEarnings(OutcomesOf(r, "paid"))'
    BY DEF EarlierRuns
  <2>1. r \in 1..job.run /\ (r = job.run \/ r < job.run)
    BY <1>2, <1>6
  <2>2. WithinEarnings(OutcomesOf(r, "paid"))
    BY <2>1, BudgetSuffices DEF RunSound, EarlierRuns
  <2>3. OutcomesOf(r, "paid")' = OutcomesOf(r, "paid")
    BY <1>1 DEF OutcomesOf
  <2>4. QED
    BY <2>2, <2>3 DEF WithinEarnings
<1>16. (accounts \subseteq Apps)' /\ StakeNeedsAccount'
  BY <1>1, <1>6 DEF RunSound, StakeNeedsAccount
<1>17. QED
  BY <1>8, <1>9, <1>11, <1>12, <1>13, <1>14, <1>15, <1>16 DEF RunSound

\* A job that goes on to its next phase.
LEMMA PhaseOf ==
  ASSUME job \in Jobs,
         NEW next \in {"idle", "apps", "vote", "tags", "complete", "failed"},
         job' = [job EXCEPT !.pc = next]
  PROVE  /\ job' \in Jobs /\ job'.pc = next /\ job'.run = job.run /\ job'.week = job.week
         /\ job'.todo = job.todo /\ job'.gross = job.gross /\ job'.cached = job.cached
         /\ job'.app = job.app /\ job'.share = job.share
         /\ \A a : ShareOf(a)' = ShareOf(a)
BY DEF Jobs, ShareOf

\* Nothing is decided, and no more is owed.
LEMMA PhaseKeeps ==
  ASSUME RunSound, job.run > 0,
         NEW next \in {"idle", "apps", "vote", "tags", "complete", "failed"},
         job' = [job EXCEPT !.pc = next],
         UNCHANGED <<week, accounts, stake, cached, outcomes>>,
         next \in {"vote", "tags"} => job.pc \in {"vote", "tags"},
         Owed' \in Nat, Owed' <= Owed, AtHand', AllDecided'
  PROVE  RunSound'
<1>1. /\ JobShapes /\ DecidedOnce /\ GrossWithin(job.gross) /\ Budget(OutcomesOf(job.run, "paid")) /\ EarlierRuns
      /\ Owed \in Nat /\ job \in Jobs /\ SkippedWhole
  BY JobFields DEF RunSound, JobShapes
<1>2. /\ job' \in Jobs /\ job'.pc = next /\ job'.run = job.run /\ job'.week = job.week
      /\ job'.todo = job.todo /\ job'.gross = job.gross /\ job'.cached = job.cached
      /\ job'.app = job.app
      /\ \A a : ShareOf(a)' = ShareOf(a)
  BY <1>1, PhaseOf
<1>3. Stakings' = Stakings /\ Jobs' = Jobs /\ Outcomes' = Outcomes
  BY DEF Stakings, Jobs, Outcomes
<1>4. JobShapes'
  BY <1>1, <1>2, <1>3 DEF JobShapes
<1>5. Decided' = Decided /\ DecidedOnce' /\ SkippedWhole'
  BY <1>1, <1>2 DEF DecidedOnce, SkippedWhole, Decided
<1>6. GrossWithin(job.gross)'
  BY <1>1, <1>2 DEF GrossWithin
<1>7. \A r : OutcomesOf(r, "paid")' = OutcomesOf(r, "paid")
  BY DEF OutcomesOf
<1>8. EarlierRuns'
  BY <1>1, <1>2, <1>7 DEF EarlierRuns, WithinEarnings
<1>9. Budget(OutcomesOf(job.run, "paid"))'
  <2> DEFINE paid == OutcomesOf(job.run, "paid")
             x == 20 * Amount(paid) + 18 * SumFunctionOnSet(job.gross, job.todo)
             y == 18 * SumFunctionOnSet(job.gross, Apps) + 10 * Cardinality(paid)
  <2>1. x \in Int /\ y \in Int
    <3>1. SumFunctionOnSet(job.gross, job.todo) \in Nat /\ SumFunctionOnSet(job.gross, Apps) \in Nat
      BY <1>1, Bounds, JobFields, PartOfSum
    <3>2. IsFiniteSet(paid) /\ \A o \in paid : o.amount \in Nat
      <4>1. \A o \in Outcomes : o.amount \in Nat
        BY DEF Outcomes
      <4>2. paid \subseteq outcomes
        BY DEF OutcomesOf
      <4>3. QED
        BY <1>1, <4>1, <4>2, FS_Subset DEF JobShapes
    <3> HIDE DEF paid
    <3>3. Amount(paid) \in Nat /\ Cardinality(paid) \in Nat
      BY <3>2, AmountFacts, FS_CardinalityType
    <3>4. QED
      BY <3>1, <3>3
  <2>2. x + Owed <= y
    BY <1>1 DEF Budget
  <2>3. Budget(OutcomesOf(job.run, "paid"))' <=> x + Owed' <= y
    BY <1>2, <1>7 DEF Budget
  <2> HIDE DEF x, y
  <2>4. x + Owed' <= y
    BY <1>1, <2>1, <2>2
  <2>5. QED
    BY <2>3, <2>4
<1>10. (accounts \subseteq Apps)' /\ StakeNeedsAccount'
  BY <1>2 DEF RunSound, StakeNeedsAccount
<1>11. QED
  BY <1>4, <1>5, <1>6, <1>8, <1>9, <1>10 DEF RunSound

LEMMA EndKeeps ==
  ASSUME RunSound, job.run > 0, UNCHANGED <<week, accounts, stake, cached, outcomes>>,
         \/ job' = [job EXCEPT !.pc = "failed"]
         \/ job' = [job EXCEPT !.pc = "complete"] /\ job.pc = "apps" /\ job.todo = {}
  PROVE  RunSound'
<1>1. JobShapes /\ AllDecided /\ job \in Jobs /\ Owed \in Nat
  BY JobFields DEF RunSound, JobShapes
<1>2. PICK next \in {"complete", "failed"} :
        job' = [job EXCEPT !.pc = next] /\ (next = "complete" => job.pc = "apps" /\ job.todo = {})
  OBVIOUS
<1>3. /\ job'.pc = next /\ job'.run = job.run /\ job'.todo = job.todo
      /\ \A a : ShareOf(a)' = ShareOf(a)
  BY <1>1, <1>2, PhaseOf
<1>4. Owed' = 0
  BY <1>2, <1>3 DEF Owed
<1>5. AtHand'
  BY <1>2, <1>3 DEF AtHand
<1>6. AllDecided'
  <2>1. Decided' = Decided
    BY <1>3 DEF Decided
  <2>2. next = "complete" => \A a \in Apps, p \in Pools : ~Pending(a, p) /\ ~Pending(a, p)'
    BY <1>2, <1>3 DEF Pending
  <2>3. QED
    BY <1>1, <1>2, <1>3, <2>1, <2>2 DEF AllDecided
<1>7. QED
  BY <1>1, <1>2, <1>4, <1>5, <1>6, PhaseKeeps

\* A pool without a share is passed over.
LEMMA PassOverKeeps ==
  ASSUME RunSound, UNCHANGED <<week, accounts, stake, cached, outcomes>>, NEW p \in Pools,
         job.pc = p, job.share[p] = 0, job' = [job EXCEPT !.pc = Funded(p)]
  PROVE  RunSound'
<1>1. /\ JobShapes /\ AtHand /\ AllDecided /\ job \in Jobs
      /\ job.share["vote"] \in Nat /\ job.share["tags"] \in Nat
      /\ p \in {"vote", "tags"} /\ Funded(p) \in {"tags", "apps"}
      /\ p = "vote" => Funded(p) = "tags"
      /\ p = "tags" => Funded(p) = "apps"
      /\ job.run > 0
  BY JobFields DEF RunSound, JobShapes, Pools, Funded
<1>2. /\ job'.pc = Funded(p) /\ job'.run = job.run /\ job'.todo = job.todo
      /\ job'.app = job.app /\ job'.share = job.share
      /\ \A a : ShareOf(a)' = ShareOf(a)
  BY <1>1, PhaseOf
<1>3. Owed' \in Nat /\ Owed' <= Owed
  BY <1>1, <1>2 DEF Owed
<1>4. AtHand'
  BY <1>1, <1>2 DEF AtHand
<1>5. AllDecided'
  <2>1. Decided' = Decided
    BY <1>2 DEF Decided
  <2>2. \A a \in Apps, q \in Pools : Pending(a, q)' <=> Pending(a, q)
    BY <1>1, <1>2 DEF Pending, Pools
  <2>3. QED
    BY <1>1, <1>2, <2>1, <2>2 DEF AllDecided
<1>6. QED
  BY <1>1, <1>3, <1>4, <1>5, PhaseKeeps

LEMMA OutcomeTyped ==
  ASSUME JobShapes, NEW a \in Apps, NEW p \in Pools,
         NEW what \in {"paid", "deferred", "absent", "unread"}
  PROVE  LET o == Outcome(a, p, what)
         IN /\ o \in Outcomes /\ o.run = job.run /\ o.app = a /\ o.pool = p /\ o.what = what
            /\ o.amount = Round(ShareOf(a)[p], 20) /\ o.amount \in Nat
<1>1. job.run \in Nat /\ Round(ShareOf(a)[p], 20) \in Nat /\ Cardinality(outcomes) + 1 \in Nat
  <2>1. ShareOf(a)[p] \in Nat /\ job.run \in Nat
    BY JobFields
  <2>2. Round(ShareOf(a)[p], 20) \in Nat
    BY <2>1, RoundFacts
  <2>3. Cardinality(outcomes) \in Nat
    BY FS_CardinalityType DEF JobShapes
  <2>4. QED
    BY <2>1, <2>2, <2>3
<1>2. Outcome(a, p, what) =
        [no |-> Cardinality(outcomes) + 1, run |-> job.run, app |-> a, pool |-> p, what |-> what,
         amount |-> Round(ShareOf(a)[p], 20)]
  BY DEF Outcome, ShareOf
<1>3. QED
  BY <1>1, <1>2 DEF Outcomes

\* A pool is paid, and the run goes on or ends.
LEMMA FundKeeps ==
  ASSUME RunSound, NEW p \in Pools, job.pc = p, job.share[p] # 0,
         outcomes' = outcomes \cup {Outcome(job.app, p, "paid")},
         NEW next \in {Funded(p), "failed"}, job' = [job EXCEPT !.pc = next],
         UNCHANGED <<week, accounts, stake, cached>>
  PROVE  RunSound'
<1> DEFINE a == job.app
           o == Outcome(a, p, "paid")
           s == ShareOf(a)[p]
           paid == OutcomesOf(job.run, "paid")
<1>1. /\ JobShapes /\ AtHand /\ DecidedOnce /\ AllDecided /\ SkippedWhole
      /\ GrossWithin(job.gross) /\ Budget(paid) /\ EarlierRuns
      /\ job \in Jobs /\ outcomes \subseteq Outcomes /\ IsFiniteSet(outcomes)
  BY DEF RunSound, JobShapes
<1>2. /\ p \in {"vote", "tags"} /\ next \in {"tags", "apps", "failed"}
      /\ p = "vote" => next \in {"tags", "failed"}
      /\ p = "tags" => next \in {"apps", "failed"}
  BY DEF Pools, Funded
<1>3. /\ job'.pc = next /\ job'.run = job.run /\ job'.week = job.week
      /\ job'.todo = job.todo /\ job'.gross = job.gross /\ job'.app = job.app /\ job'.share = job.share
      /\ job'.cached = job.cached
      /\ \A b : ShareOf(b)' = ShareOf(b)
      /\ job' \in Jobs
  BY <1>1, <1>2, PhaseOf
<1>4. /\ a \in Apps \ job.todo /\ s = job.share[p] /\ s \in Nat /\ s > 0
  <2>1. a \in Apps \ job.todo /\ \A q \in Pools : job.share[q] \in {0, ShareOf(a)[q]}
    BY <1>1, <1>2 DEF AtHand
  <2>2. job.share[p] = s
    BY <2>1
  <2>3. job.share[p] \in Nat
    BY <1>1, JobFields
  <2>4. QED
    BY <2>1, <2>2, <2>3
<1>5. /\ o \in Outcomes /\ o.run = job.run /\ o.app = a /\ o.pool = p /\ o.what = "paid"
      /\ o.amount = Round(s, 20) /\ o.amount \in Nat
  BY <1>1, <1>4, OutcomeTyped
<1>6. Pending(a, p) /\ job.pc # "failed"
  BY <1>2, <1>4 DEF Pending
<1>7. ~\E q \in Decided : q.app = a /\ q.pool = p
  BY <1>1, <1>4, <1>6 DEF AllDecided
<1> HIDE DEF a, o, s
<1>8. outcomes' = outcomes \cup {o} /\ Decided' = Decided \cup {o}
  BY <1>3, <1>5 DEF Decided, o, a
<1>9. o \notin outcomes
  BY <1>5, <1>7 DEF Decided
<1>10. JobShapes'
  <2>0. job.run \in Nat /\ job.run > 0
    BY <1>1, <1>2, JobFields DEF JobShapes
  <2>1. Stakings' = Stakings /\ Jobs' = Jobs /\ Outcomes' = Outcomes
    BY DEF Stakings, Jobs, Outcomes
  <2>2. outcomes' \subseteq Outcomes /\ IsFiniteSet(outcomes')
    BY <1>1, <1>5, <1>8, FS_AddElement
  <2>3. \A q \in outcomes' : q.run \in 1..job'.run
    <3>1. \A q \in outcomes : q.run \in 1..job.run
      BY <1>1 DEF JobShapes
    <3>2. QED
      BY <1>3, <1>5, <1>8, <2>0, <3>1
  <2>4. QED
    BY <1>1, <1>3, <2>0, <2>1, <2>2, <2>3 DEF JobShapes
<1>11. AtHand'
  BY <1>1, <1>2, <1>3 DEF AtHand, a
<1>12. DecidedOnce'
  <2>1. \A q \in Decided' : /\ q.app \notin job'.todo /\ ShareOf(q.app)'[q.pool] > 0
                            /\ q.amount = Round(ShareOf(q.app)'[q.pool], 20)
    BY <1>1, <1>3, <1>4, <1>5, <1>8 DEF DecidedOnce, s
  <2>2. \A q, r \in Decided' : q.app = r.app /\ q.pool = r.pool => q = r
    BY <1>1, <1>5, <1>7, <1>8 DEF DecidedOnce
  <2>3. QED
    BY <2>1, <2>2 DEF DecidedOnce
<1>13. AllDecided'
  <2> SUFFICES ASSUME next # "failed", NEW b \in Apps \ job.todo, NEW q \in Pools, ShareOf(b)[q] > 0
               PROVE  Pending(b, q)' <=> ~\E r \in Decided' : r.app = b /\ r.pool = q
    BY <1>3 DEF AllDecided
  <2>1. Pending(b, q) <=> ~\E r \in Decided : r.app = b /\ r.pool = q
    BY <1>1, <1>6 DEF AllDecided
  <2>2. CASE b = a /\ q = p
    <3>1. ~Pending(b, q)'
      BY <1>2, <1>3, <2>2 DEF Pending
    <3>2. o \in Decided' /\ o.app = b /\ o.pool = q
      BY <1>5, <1>8, <2>2
    <3>3. QED
      BY <3>1, <3>2
  <2>3. CASE ~(b = a /\ q = p)
    <3>1. (\E r \in Decided' : r.app = b /\ r.pool = q) <=> (\E r \in Decided : r.app = b /\ r.pool = q)
      BY <1>5, <1>8, <2>3
    <3>2. Pending(b, q)' <=> Pending(b, q)
      BY <1>2, <1>3, <2>3 DEF Pending, Pools, a
    <3>3. QED
      BY <2>1, <3>1, <3>2
  <2>4. QED
    BY <2>2, <2>3
<1>14. GrossWithin(job.gross)'
  BY <1>1, <1>3 DEF GrossWithin
<1>15. EarlierRuns'
  <2> SUFFICES ASSUME NEW r \in 1..job.run, r < job.run
               PROVE  WithinEarnings(OutcomesOf(r, "paid"))'
    BY <1>3 DEF EarlierRuns
  <2>1. r # job.run
    OBVIOUS
  <2>2. OutcomesOf(r, "paid")' = OutcomesOf(r, "paid")
    BY <1>5, <1>8, <2>1 DEF OutcomesOf
  <2>3. WithinEarnings(OutcomesOf(r, "paid"))
    BY <1>1 DEF EarlierRuns
  <2>4. QED
    BY <2>2, <2>3 DEF WithinEarnings
<1>16. Budget(OutcomesOf(job.run, "paid"))'
  <2>1. OutcomesOf(job.run, "paid")' = paid \cup {o}
    BY <1>3, <1>5, <1>8 DEF OutcomesOf
  <2> DEFINE m == Amount(paid)
             n == Cardinality(paid)
             x == SumFunctionOnSet(job.gross, job.todo)
             y == SumFunctionOnSet(job.gross, Apps)
  <2>2. IsFiniteSet(paid) /\ o \notin paid /\ \A q \in paid : q.amount \in Nat
    <3>1. \A q \in Outcomes : q.amount \in Nat
      BY DEF Outcomes
    <3>2. paid \subseteq outcomes
      BY DEF OutcomesOf
    <3>3. QED
      BY <1>1, <1>9, <3>1, <3>2, FS_Subset
  <2>3. x \in Nat /\ y \in Nat
    BY <1>1, Bounds, JobFields, PartOfSum
  <2>4. 20 * m + 18 * x + Owed <= 18 * y + 10 * n
    BY <1>1 DEF Budget
  <2>5. Budget(OutcomesOf(job.run, "paid"))'
          <=> 20 * Amount(paid \cup {o}) + 18 * x + Owed' <= 18 * y + 10 * Cardinality(paid \cup {o})
    BY <1>3, <2>1 DEF Budget
  <2> HIDE DEF paid, x, y
  <2>6. m \in Nat /\ n \in Nat
    BY <2>2, AmountFacts, FS_CardinalityType
  <2>7. Amount(paid \cup {o}) = m + Round(s, 20) /\ Cardinality(paid \cup {o}) = n + 1
    BY <1>5, <2>2, AmountFacts, FS_AddElement
  <2>8. Round(s, 20) \in Nat /\ 20 * Round(s, 20) <= s + 10
    BY <1>4, RoundFacts
  <2>9. Owed \in Nat /\ Owed' \in Nat /\ Owed' + s <= Owed
    <3>1. job.share["vote"] \in Nat /\ job.share["tags"] \in Nat
      BY <1>1, JobFields
    <3>2. QED
      BY <1>2, <1>3, <1>4, <3>1 DEF Owed
  <2> HIDE DEF m, n
  <2>10. 20 * (m + Round(s, 20)) + 18 * x + Owed' <= 18 * y + 10 * (n + 1)
    BY <1>4, <2>3, <2>4, <2>6, <2>8, <2>9
  <2>11. QED
    BY <2>5, <2>7, <2>10
<1>17. SkippedWhole'
  <2>1. \A q \in Decided : q.what \in {"absent", "unread"} => q.app # a
    BY <1>1, <1>2 DEF SkippedWhole, a
  <2>2. o.what \notin {"absent", "unread"} /\ job'.app = a
    BY <1>3, <1>5 DEF a
  <2>3. QED
    BY <1>1, <1>3, <1>5, <1>8, <2>1, <2>2 DEF SkippedWhole
<1>18. (accounts \subseteq Apps)' /\ StakeNeedsAccount'
  BY <1>3 DEF RunSound, StakeNeedsAccount
<1>19. QED
  BY <1>10, <1>11, <1>12, <1>13, <1>14, <1>15, <1>16, <1>17, <1>18 DEF RunSound

\* An app has been looked at: some of its pools are passed over at once, for the same
\* reason, and the others come next, or there are none.
LEMMA LookedAtKeeps ==
  ASSUME RunSound, job.pc = "apps", NEW a \in Apps, a \in job.todo, NEW passed, passed \subseteq Pools,
         \A p \in passed : ShareOf(a)[p] > 0, NEW why \in {"deferred", "absent", "unread"},
         outcomes' = outcomes \cup {Outcome(a, p, why) : p \in passed},
         UNCHANGED <<week, accounts, stake, cached>>,
         why = "absent" => a \notin accounts,
         job' \in Jobs, job'.run = job.run, job'.week = job.week, job'.todo = job.todo \ {a},
         job'.gross = job.gross, job'.cached = job.cached,
         \/ /\ why = "deferred" /\ job'.pc = "vote" /\ job'.app = a
            /\ \A p \in Pools : job'.share[p] = IF p \in passed THEN 0 ELSE ShareOf(a)[p]
         \/ /\ why # "deferred" /\ job'.pc = "apps"
            /\ \A p \in Pools : ShareOf(a)[p] > 0 => p \in passed
  PROVE  RunSound'
<1> DEFINE share == ShareOf(a)
           D == {Outcome(a, p, why) : p \in passed}
           paid == OutcomesOf(job.run, "paid")
<1>1. /\ JobShapes /\ AtHand /\ DecidedOnce /\ AllDecided /\ SkippedWhole
      /\ GrossWithin(job.gross) /\ Budget(paid) /\ EarlierRuns
      /\ job \in Jobs /\ outcomes \subseteq Outcomes /\ IsFiniteSet(outcomes)
  BY DEF RunSound, JobShapes
<1>2. outcomes' = outcomes \cup D
  OBVIOUS
<1>3. /\ \A p \in Pools : share[p] \in Nat
      /\ share["vote"] \in Nat /\ share["tags"] \in Nat
      /\ share["vote"] + share["tags"] = 18 * job.gross[a] /\ job.gross[a] \in Nat
  BY <1>1, JobFields
<1>4. \A b : ShareOf(b)' = ShareOf(b)
  BY DEF ShareOf
<1>5. "vote" \in Pools /\ "tags" \in Pools
  BY DEF Pools
<1>6. why \in {"paid", "deferred", "absent", "unread"} /\ why # "paid"
  OBVIOUS
<1>7. \A p \in Pools :
        LET o == Outcome(a, p, why)
        IN /\ o \in Outcomes /\ o.run = job.run /\ o.app = a /\ o.pool = p /\ o.what = why
           /\ o.amount = Round(share[p], 20)
  BY <1>1, <1>6, OutcomeTyped
<1>8. /\ \A o \in D : /\ o \in Outcomes /\ o.run = job.run /\ o.app = a /\ o.pool \in passed
                      /\ o.what = why /\ o.amount = Round(share[o.pool], 20)
                      /\ o = Outcome(a, o.pool, why)
      /\ \A p \in passed : \E o \in D : o.app = a /\ o.pool = p
  BY <1>7
<1>9. IsFiniteSet(D)
  <2> DEFINE E == {Outcome(a, "vote", why), Outcome(a, "tags", why)}
  <2>1. IsFiniteSet({Outcome(a, "vote", why)}) /\ IsFiniteSet({Outcome(a, "tags", why)})
    BY FS_Singleton
  <2>2. E = {Outcome(a, "vote", why)} \cup {Outcome(a, "tags", why)}
    OBVIOUS
  <2>3. D \subseteq E
    BY DEF Pools
  <2> HIDE DEF E, D
  <2>4. IsFiniteSet(E)
    BY <2>1, <2>2, FS_Union
  <2>5. QED
    BY <2>3, <2>4, FS_Subset
<1> HIDE DEF D
<1>10. Decided' = Decided \cup D
  BY <1>2, <1>8 DEF Decided
<1>11. \A o \in Decided : o.app # a
  BY <1>1 DEF DecidedOnce
<1>12. JobShapes'
  <2>1. Stakings' = Stakings /\ Jobs' = Jobs /\ Outcomes' = Outcomes
    BY DEF Stakings, Jobs, Outcomes
  <2>2. outcomes' \subseteq Outcomes /\ IsFiniteSet(outcomes')
    <3>1. IsFiniteSet(outcomes \cup D)
      BY <1>1, <1>9, FS_Union
    <3>2. QED
      BY <1>1, <1>2, <1>8, <3>1
  <2>3. job.run \in Nat /\ job.run > 0
    BY <1>1, JobFields DEF JobShapes
  <2>4. \A o \in outcomes' : o.run \in 1..job'.run
    <3>1. \A o \in outcomes : o.run \in 1..job.run
      BY <1>1 DEF JobShapes
    <3>2. job.run \in 1..job.run
      BY <2>3
    <3>3. QED
      BY <1>2, <1>8, <3>1, <3>2
  <2>5. QED
    BY <1>1, <2>1, <2>2, <2>3, <2>4 DEF JobShapes
<1>13. AtHand'
  BY <1>3, <1>4 DEF AtHand
<1>14. DecidedOnce'
  <2>1. ASSUME NEW o \in Decided'
        PROVE  /\ o.app \notin job'.todo /\ ShareOf(o.app)'[o.pool] > 0
               /\ o.amount = Round(ShareOf(o.app)'[o.pool], 20)
    <3>1. CASE o \in Decided
      BY <1>1, <1>4, <3>1 DEF DecidedOnce
    <3>2. CASE o \in D
      BY <1>4, <1>8, <3>2
    <3>3. QED
      BY <1>10, <2>1, <3>1, <3>2
  <2>2. ASSUME NEW o \in Decided', NEW q \in Decided', o.app = q.app, o.pool = q.pool
        PROVE  o = q
    <3>1. CASE o \in Decided /\ q \in Decided
      BY <1>1, <2>2, <3>1 DEF DecidedOnce
    <3>2. CASE o \in D /\ q \in D
      BY <1>8, <2>2, <3>2
    <3>3. QED
      BY <1>8, <1>10, <1>11, <2>2, <3>1, <3>2
  <2>3. QED
    BY <2>1, <2>2 DEF DecidedOnce
<1>15. AllDecided'
  <2> SUFFICES ASSUME NEW b \in Apps \ job'.todo, NEW q \in Pools, ShareOf(b)[q] > 0
               PROVE  Pending(b, q)' <=> ~\E r \in Decided' : r.app = b /\ r.pool = q
    BY <1>4 DEF AllDecided
  <2>1. CASE b = a
    <3>1. Pending(b, q)' <=> q \notin passed
      BY <1>3, <2>1 DEF Pending
    <3>2. (\E r \in Decided' : r.app = b /\ r.pool = q) <=> q \in passed
      BY <1>8, <1>10, <1>11, <2>1
    <3>3. QED
      BY <3>1, <3>2
  <2>2. CASE b # a
    <3>1. b \in Apps \ job.todo
      BY <2>2
    <3>2. ~Pending(b, q) /\ ~Pending(b, q)'
      BY <2>2 DEF Pending
    <3>3. \E r \in Decided : r.app = b /\ r.pool = q
      BY <1>1, <3>1, <3>2 DEF AllDecided
    <3>4. QED
      BY <1>10, <3>2, <3>3
  <2>3. QED
    BY <2>1, <2>2
<1>16. GrossWithin(job.gross)'
  BY <1>1 DEF GrossWithin
<1>17. \A r : OutcomesOf(r, "paid")' = OutcomesOf(r, "paid")
  BY <1>2, <1>6, <1>8 DEF OutcomesOf
<1>18. EarlierRuns'
  BY <1>1, <1>17 DEF EarlierRuns, WithinEarnings
<1>19. Budget(OutcomesOf(job.run, "paid"))'
  <2> DEFINE m == 20 * Amount(paid)
             x == SumFunctionOnSet(job.gross, job.todo)
             z == SumFunctionOnSet(job.gross, job.todo \ {a})
             y == 18 * SumFunctionOnSet(job.gross, Apps) + 10 * Cardinality(paid)
             g == job.gross[a]
  <2>1. IsFiniteSet(job.todo) /\ \A b \in job.todo : job.gross[b] \in Nat
    BY <1>1, Bounds, JobFields, FS_Subset
  <2>2. x = g + z
    BY <2>1, SumSplits
  <2>3. x \in Nat /\ z \in Nat /\ SumFunctionOnSet(job.gross, Apps) \in Nat
    <3>1. \A b \in Apps : job.gross[b] \in Nat
      BY <1>1, JobFields
    <3>2. job.todo \subseteq Apps /\ job.todo \ {a} \subseteq Apps
      BY <1>1, JobFields
    <3>3. QED
      BY <3>1, <3>2, Bounds, PartOfSum
  <2>4. m \in Int /\ y \in Int
    <3>1. IsFiniteSet(paid) /\ \A o \in paid : o.amount \in Nat
      <4>1. \A o \in Outcomes : o.amount \in Nat
        BY DEF Outcomes
      <4>2. paid \subseteq outcomes
        BY DEF OutcomesOf
      <4>3. QED
        BY <1>1, <4>1, <4>2, FS_Subset
    <3> HIDE DEF paid
    <3>2. Amount(paid) \in Nat /\ Cardinality(paid) \in Nat
      BY <3>1, AmountFacts, FS_CardinalityType
    <3>3. QED
      BY <2>3, <3>2
  <2>5. Owed = 0 /\ m + 18 * x + Owed <= y
    BY <1>1 DEF Budget, Owed
  <2>6. Owed' \in Nat /\ Owed' <= 18 * g
    <3>1. CASE job'.pc = "apps"
      BY <1>3, <3>1 DEF Owed
    <3>2. CASE job'.pc = "vote"
      <4> DEFINE x1 == job'.share["vote"]
                 x2 == job'.share["tags"]
      <4>1. Owed' = x1 + x2
        BY <3>2 DEF Owed
      <4>2. /\ x1 \in Nat /\ x1 <= share["vote"]
            /\ x2 \in Nat /\ x2 <= share["tags"]
        BY <1>3, <1>5, <3>2
      <4>3. QED
        BY <1>3, <4>1, <4>2
    <3>3. QED
      BY <3>1, <3>2
  <2>7. Budget(OutcomesOf(job.run, "paid"))' <=> m + 18 * z + Owed' <= y
    BY <1>17 DEF Budget
  <2>8. g \in Nat
    BY <1>3
  <2> HIDE DEF m, x, z, y, g
  <2>9. \A i, k \in Int : \A c, d, e, n \in Nat :
          i + 18 * c <= k /\ c = d + e /\ n <= 18 * d => i + 18 * e + n <= k
    OBVIOUS
  <2>10. m + 18 * x <= y
    BY <2>3, <2>4, <2>5
  <2>11. m + 18 * z + Owed' <= y
    BY <2>2, <2>3, <2>4, <2>6, <2>8, <2>9, <2>10
  <2>12. QED
    BY <2>7, <2>11
<1>20. SkippedWhole'
  <2>1. ASSUME NEW o \in Decided', o.what \in {"absent", "unread"}
        PROVE  /\ job'.pc \in {"vote", "tags"} => o.app # job'.app
               /\ o.what = "absent" => job'.cached[o.app] = NoStake
    <3>1. CASE o \in Decided
      BY <1>1, <1>11, <2>1, <3>1 DEF SkippedWhole
    <3>2. CASE o \in D
      BY <1>8, <2>1, <3>2 DEF RunSound, StakeNeedsAccount
    <3>3. QED
      BY <1>10, <3>1, <3>2
  <2>2. ASSUME NEW o \in Decided', NEW q \in Decided', o.app = q.app, o.what \in {"absent", "unread"}
        PROVE  q.what \in {"absent", "unread"}
    <3>1. CASE o \in Decided /\ q \in Decided
      BY <1>1, <2>2, <3>1 DEF SkippedWhole
    <3>2. CASE o \in D /\ q \in D
      BY <1>8, <2>2, <3>2
    <3>3. QED
      BY <1>8, <1>10, <1>11, <2>2, <3>1, <3>2
  <2>3. QED
    BY <2>1, <2>2 DEF SkippedWhole
<1>21. (accounts \subseteq Apps)' /\ StakeNeedsAccount'
  BY DEF RunSound, StakeNeedsAccount
<1>22. QED
  BY <1>12, <1>13, <1>14, <1>15, <1>16, <1>18, <1>19, <1>20, <1>21 DEF RunSound

LEMMA CheckAppKeeps ==
  ASSUME RunSound, NEW a \in Apps, CheckApp(a)
  PROVE  RunSound'
<1> DEFINE share == Shares(job.gross[a], job.cached[a])
           deferred == {p \in Pools : share[p] > 0 /\ Dropped(a, p)}
           left == [p \in Pools |-> IF p \in deferred THEN 0 ELSE share[p]]
<1>1. JobShapes /\ job \in Jobs /\ job.todo \subseteq Apps
  BY JobFields DEF RunSound, JobShapes
<1>2. /\ job.pc = "apps" /\ a \in job.todo
      /\ outcomes' = outcomes \cup {Outcome(a, p, "deferred") : p \in deferred}
      /\ job' = [job EXCEPT !.pc = "vote", !.app = a, !.todo = @ \ {a}, !.share = left]
      /\ UNCHANGED <<week, accounts, stake, cached>>
  BY DEF CheckApp
<1>3. share = ShareOf(a) /\ \A p \in Pools : share[p] \in Nat
  BY <1>1, JobFields DEF ShareOf
<1> HIDE DEF share
<1>4. deferred \subseteq Pools /\ \A p \in deferred : ShareOf(a)[p] > 0
  BY <1>3
<1> HIDE DEF deferred
<1>5. left \in Amounts /\ \A p \in Pools : left[p] = IF p \in deferred THEN 0 ELSE ShareOf(a)[p]
  BY <1>3 DEF Amounts
<1> HIDE DEF left
<1>6. /\ job' \in Jobs /\ job'.pc = "vote" /\ job'.run = job.run /\ job'.week = job.week
      /\ job'.todo = job.todo \ {a} /\ job'.gross = job.gross /\ job'.cached = job.cached
      /\ job'.app = a /\ job'.share = left
  BY <1>1, <1>2, <1>5 DEF Jobs
<1>7. \A p \in Pools : job'.share[p] = IF p \in deferred THEN 0 ELSE ShareOf(a)[p]
  BY <1>5, <1>6
<1>8. QED
  BY <1>2, <1>4, <1>6, <1>7, LookedAtKeeps

LEMMA SkipAppKeeps ==
  ASSUME RunSound, NEW a \in Apps, SkipApp(a)
  PROVE  RunSound'
<1>1. PICK why \in {"absent", "unread"} : Skip(a, why) /\ (why = "absent" => a \notin accounts)
  BY DEF SkipApp
<1> DEFINE passed == {p \in Pools : ShareOf(a)[p] > 0}
<1>2. JobShapes /\ job \in Jobs /\ job.todo \subseteq Apps
  BY JobFields DEF RunSound, JobShapes
<1>3. /\ job.pc = "apps" /\ a \in job.todo
      /\ outcomes' = outcomes \cup {Outcome(a, p, why) : p \in passed}
      /\ job' = [job EXCEPT !.todo = @ \ {a}]
      /\ UNCHANGED <<week, accounts, stake, cached>>
  BY <1>1 DEF Skip, ShareOf
<1>4. passed \subseteq Pools /\ \A p \in Pools : ShareOf(a)[p] > 0 <=> p \in passed
  OBVIOUS
<1> HIDE DEF passed
<1>5. /\ job' \in Jobs /\ job'.pc = "apps" /\ job'.run = job.run /\ job'.week = job.week
      /\ job'.todo = job.todo \ {a} /\ job'.gross = job.gross /\ job'.cached = job.cached
  BY <1>2, <1>3 DEF Jobs
<1>6. why \in {"deferred", "absent", "unread"} /\ why # "deferred"
  OBVIOUS
<1>7. QED
  BY <1>1, <1>3, <1>4, <1>5, <1>6, LookedAtKeeps

LEMMA FundPoolKeeps ==
  ASSUME RunSound, NEW p \in Pools, FundPool(p)
  PROVE  RunSound'
<1>1. /\ job.pc = p /\ UNCHANGED <<week, accounts, stake, cached>> /\ job.run > 0
      /\ p \in {"vote", "tags"}
  BY DEF FundPool, RunSound, JobShapes, Pools
<1>2. CASE job.share[p] = 0
  <2>1. job' = [job EXCEPT !.pc = Funded(p)] /\ outcomes' = outcomes
    BY <1>2 DEF FundPool
  <2>2. QED
    BY <1>1, <1>2, <2>1, PassOverKeeps
<1>3. CASE job.share[p] # 0
  <2>1. \/ /\ outcomes' = outcomes \cup {Outcome(job.app, p, "paid")}
           /\ \/ job' = [job EXCEPT !.pc = Funded(p)]
              \/ job' = [job EXCEPT !.pc = "failed"]
        \/ job' = [job EXCEPT !.pc = "failed"] /\ outcomes' = outcomes
    BY <1>3 DEF FundPool
  <2>2. CASE job' = [job EXCEPT !.pc = "failed"] /\ outcomes' = outcomes
    BY <1>1, <2>2, EndKeeps
  <2>3. CASE /\ outcomes' = outcomes \cup {Outcome(job.app, p, "paid")}
             /\ \/ job' = [job EXCEPT !.pc = Funded(p)]
                \/ job' = [job EXCEPT !.pc = "failed"]
    <3>1. PICK next \in {Funded(p), "failed"} : job' = [job EXCEPT !.pc = next]
      BY <2>3
    <3>2. QED
      BY <1>1, <1>3, <2>3, <3>1, FundKeeps
  <2>4. QED
    BY <2>1, <2>2, <2>3
<1>4. QED
  BY <1>2, <1>3

LEMMA RunStep == RunSound /\ Shapes /\ [Next]_vars => RunSound'
<1> SUFFICES ASSUME RunSound, Shapes, [Next]_vars
             PROVE  RunSound'
  OBVIOUS
<1>1. /\ week \in Nat /\ stake \in Stakings /\ cached \in Stakings /\ JobShapes
      /\ accounts \subseteq Apps /\ StakeNeedsAccount
  BY DEF RunSound, JobShapes, Shapes
<1>2. ASSUME UNCHANGED <<accounts, stake, cached, job, outcomes>>, week' \in {week, week + 1}
      PROVE  RunSound'
  <2>1. StakeNeedsAccount'
    BY <1>1, <1>2 DEF StakeNeedsAccount
  <2>2. QED
    BY <1>1, <1>2, <2>1, RunStands
<1>3. CASE UNCHANGED settlement
  BY <1>2, <1>3 DEF settlement
<1>4. CASE NextWeek
  BY <1>2, <1>4 DEF NextWeek
<1>5. CASE StartRun
  BY <1>5, StartRunKeeps
<1>6. ASSUME NEW a \in Apps, CheckApp(a) \/ SkipApp(a)
      PROVE  RunSound'
  BY <1>6, CheckAppKeeps, SkipAppKeeps
<1>7. ASSUME NEW p \in Pools, FundPool(p)
      PROVE  RunSound'
  BY <1>7, FundPoolKeeps
<1>8. CASE Complete \/ Crash
  <2>1. job.run > 0
    BY <1>1, <1>8 DEF JobShapes, Complete, Crash, Running
  <2>2. QED
    BY <1>8, <2>1, EndKeeps DEF Complete, Crash
<1>9. ASSUME NEW a \in Apps, NEW p \in Pools, Withdraw(a, p)
      PROVE  RunSound'
  <2>1. stake[a] \in Amounts /\ \A q \in Pools : stake[a][q] \in Nat
    BY <1>1 DEF Stakings, Amounts
  <2>2. [stake[a] EXCEPT ![p] = 0] \in Amounts
    BY <2>1 DEF Amounts
  <2>3. stake' = [stake EXCEPT ![a] = [stake[a] EXCEPT ![p] = 0]]
    BY <1>9 DEF Withdraw
  <2>4. stake' \in Stakings
    BY <1>1, <2>2, <2>3 DEF Stakings
  <2>5. UNCHANGED <<week, accounts, cached, job, outcomes>>
    BY <1>9 DEF Withdraw
  <2>6. stake[a] # NoStake
    BY <1>9 DEF Withdraw, NoStake, Pools
  <2>7. StakeNeedsAccount'
    BY <1>1, <2>3, <2>5, <2>6 DEF StakeNeedsAccount, Stakings
  <2>8. QED
    BY <1>1, <2>4, <2>5, <2>7, RunStands
<1>10. ASSUME NEW a \in Apps, refresh_app(a)
       PROVE  RunSound'
  <2>1. cached' \in Stakings
    BY <1>1, <1>10 DEF refresh_app, Stakings
  <2>2. UNCHANGED <<week, accounts, stake, job, outcomes>>
    BY <1>10 DEF refresh_app
  <2>3. StakeNeedsAccount'
    BY <1>1, <1>10, <2>2 DEF StakeNeedsAccount, refresh_app, Stakings
  <2>4. QED
    BY <1>1, <2>1, <2>2, <2>3, RunStands
<1>11. CASE NextSession \/ \E t \in Tabs :
              \/ \E a \in Apps : Open(t, a)
              \/ ScriptReady(t) \/ TimeUp(t) \/ Solve(t) \/ Click(t) \/ Leave(t)
  <2>1. UNCHANGED settlement
    BY <1>11 DEF NextSession, Open, ScriptReady, TimeUp, Solve, Click, Leave
  <2>2. QED
    BY <1>3, <2>1
<1>12. CASE \E c \in calls : Route(c) \/ Lose(c)
  <2>1. UNCHANGED settlement
    BY <1>12 DEF Route, Receive, NoAd, Find, Insert, Refresh, Impress, Lose
  <2>2. QED
    BY <1>3, <2>1
<1>13. CASE UNCHANGED vars
  BY <1>3, <1>13 DEF vars
<1>14. ASSUME NEW a \in Apps, InitApp(a)
       PROVE  RunSound'
  <2>1. accounts' = accounts \cup {a} /\ UNCHANGED <<week, stake, cached, job, outcomes>>
    BY <1>14 DEF InitApp
  <2>2. StakeNeedsAccount'
    BY <1>1, <2>1 DEF StakeNeedsAccount
  <2>3. QED
    BY <1>1, <2>1, <2>2, RunStands
<1>15. QED
  BY <1>4, <1>5, <1>6, <1>7, <1>8, <1>9, <1>10, <1>11, <1>12, <1>13, <1>14 DEF Next, Script

\* What a run has decided, and what it may still spend, in every reachable state.
THEOREM RunIsSound == Spec => []RunSound
<1>1. TrafficSound => Shapes
  BY DEF TrafficSound
<1>2. QED
  BY <1>1, RunAtFirst, RunStep, TrafficIsSound, PTL DEF Spec

\* A run never pays out more than the week earned less the fee, rounding aside, and one
\* that completes has settled every app's share once: paid, named as deferred, or skipped
\* with the whole app, which then had no stake or did not answer (settleEpoch.ts:82-164).
THEOREM RunsAddUp == Spec => []SharesAddUp
<1>1. RunSound => SharesAddUp
  BY RunSoundMeans
<1>2. QED
  BY <1>1, RunIsSound, PTL

LEMMA TypeOf == TrafficSound /\ RunSound => TypeOK
<1> SUFFICES ASSUME TrafficSound, RunSound
             PROVE  TypeOK
  OBVIOUS
<1>1. /\ Shapes /\ JobShapes
      /\ \A t \in Tabs : TabSound(t) /\ tabs[t] \in TabStates
      /\ \A c \in calls : CallSound(c) /\ c \in Calls
      /\ DOMAIN impressions = 1..Len(impressions) /\ Len(impressions) \in Nat
      /\ Len(views) \in Nat /\ session \in Nat
  BY Contents DEF TrafficSound, RunSound, Shapes
<1>2. \A t \in Tabs : /\ tabs[t].app \in Apps \cup {NoApp}
                      /\ tabs[t].ad \in 0..Len(impressions)
                      /\ tabs[t].sent \in BOOLEAN /\ tabs[t].timer \in BOOLEAN
  <2> SUFFICES ASSUME NEW t \in Tabs
               PROVE  /\ tabs[t].app \in Apps \cup {NoApp}
                      /\ tabs[t].ad \in 0..Len(impressions)
                      /\ tabs[t].sent \in BOOLEAN /\ tabs[t].timer \in BOOLEAN
    OBVIOUS
  <2>1. /\ tabs[t].app \in Apps \cup {NoApp} /\ tabs[t].ad \in Nat
        /\ tabs[t].sent \in BOOLEAN /\ tabs[t].timer \in BOOLEAN
    BY <1>1 DEF TabStates
  <2>2. tabs[t].ad # 0 => tabs[t].ad \in 1..Len(impressions)
    BY <1>1 DEF TabSound
  <2>3. QED
    BY <1>1, <2>1, <2>2
<1>3. \A c \in calls : c.app \in Apps /\ c.view \in 0..Len(views) /\ c.session \in 0..session
  <2> SUFFICES ASSUME NEW c \in calls
               PROVE  c.app \in Apps /\ c.view \in 0..Len(views) /\ c.session \in 0..session
    OBVIOUS
  <2>1. c.app \in Apps /\ c.view \in Nat /\ c.session \in Nat
    BY <1>1 DEF Calls
  <2>2. c.view <= Len(views) /\ c.session <= session
    BY <1>1 DEF CallSound
  <2>3. QED
    BY <1>1, <2>1, <2>2
<1>4. /\ views \in Seq([app : Apps, session : 1..session, week : 1..week, eligible : BOOLEAN])
      /\ viewCount \in [Apps -> 0..Len(views)]
  BY <1>1 DEF Shapes, Views
<1>5. /\ job.pc \in {"idle", "apps", "vote", "tags", "complete", "failed"}
      /\ job.todo \subseteq Apps /\ job.week < week
  BY <1>1, JobFields DEF JobShapes
<1>6. accounts \subseteq Apps
  BY DEF RunSound
<1>7. QED
  BY <1>2, <1>3, <1>4, <1>5, <1>6 DEF TypeOK

\* What is counted was earned.
THEOREM CountedIsEarned == Spec => []Inv
<1>1. TrafficSound /\ RunSound => Inv
  BY TrafficMeans, TypeOf DEF Inv
<1>2. QED
  BY <1>1, TrafficIsSound, RunIsSound, PTL
==============================================================================
