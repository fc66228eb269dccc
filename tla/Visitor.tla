-------------------------------- MODULE Visitor --------------------------------
(***************************************************************************)
(* One browser tab from the first page load on: AuthProvider's sign-in     *)
(* with a wallet's signature and the routes under /api/auth, the stateless *)
(* session, and three live queries that follow the visitor's identity: the *)
(* bell's digest and the profile page's XP, asked for with the session     *)
(* cookie, and the balance of the connected wallet, asked for by address.  *)
(*                                                                         *)
(* The server handles a request in the step that sends it; the answer      *)
(* comes in a step of its own, by when wallet, session, user and page may  *)
(* have moved on.  What happens without the page's doing: the wallet's     *)
(* account is switched or disconnected, time passes, a session runs out,   *)
(* the server restarts, a request or its answer is lost.                   *)
(***************************************************************************)
EXTENDS Integers, FiniteSets

CONSTANTS
  Wallets,       \* accounts of the visitor's wallet
  Returning,     \* those whose session of an earlier visit the browser may still have
  None,          \* no wallet, no user, no cookie, no data
  Undefined,     \* data that has not been asked for yet
  Lost,          \* a request or an answer that got lost
  MaxEvents,     \* bound: clicks, wallet events, page loads, faults, news, all together
  MaxRuns        \* bound: answers under way, per query

Queries == {"digest", "balance", "xp"}

ASSUME Bounds ==
  MaxEvents \in Nat \ {0} /\ MaxRuns \in [Queries -> Nat \ {0}]
ASSUME NoneIsNoWallet == None \notin Wallets /\ Lost \notin Wallets
ASSUME ReturningAreWallets == Returning \subseteq Wallets

VARIABLES
  wallet,   \* the connected account
  user,     \* the user AuthProvider shows
  me,       \* the answer to GET /api/auth/me under way; None without a request
  flow,     \* the sign-in under way
  logout,   \* the answer to the logout under way, or the wallet's disconnect after it
  path,     \* the page of the site that is open
  bell,     \* whether the bell's panel is open, and its snapshot
  query,    \* per live query: the data it shows and its runs under way
  cookie,   \* the wallet of the session the browser holds
  news,     \* version of what the indexer tells the user of each wallet
  signed,   \* history: the accounts that have signed a challenge
  overtaken,\* history: /me answered a page whose session had changed since it asked
  events

page == <<me, flow, logout>>
server == <<cookie, news>>
vars == <<wallet, user, me, flow, logout, path, bell, query, cookie, news, signed,
          overtaken, events>>

MaybeWallet == Wallets \cup {None}
Paths == {"home", "profile"}
NoFlow == [step |-> "none"]
ClosedBell == [open |-> FALSE, frozen |-> None]

Event == events < MaxEvents /\ events' = events + 1

-----------------------------------------------------------------------------
(***************************************************************************)
(* useLiveQuery and usePollingEffect.                                      *)
(***************************************************************************)
\* What the effect of a query depends on; None while it asks for nothing.
Depends(q) ==
  CASE q = "balance" -> wallet
    [] q = "digest" -> IF wallet = None \/ user = None THEN None ELSE <<user, path>>
    [] q = "xp" -> IF path = "profile" THEN user ELSE None

\* The data it has then.  XpProgress, on the profile page only, starts with undefined.
Idle(q) == IF q = "xp" /\ path # "profile" THEN Undefined ELSE None

\* GET /api/balances, of a wallet that holds some of the token; GET /api/digest and
\* /api/xp/me, of the session.
fetchBalance(owner) == [of |-> owner, amount |-> 1]
OfSession == IF cookie = None THEN None ELSE [of |-> cookie, version |-> news[cookie]]
Run(q, owner) == IF q = "balance" THEN fetchBalance(owner) ELSE OfSession

\* Mutant: the effect is not cleaned up.
Mut_Uncancelled(runs) == runs

\* What the effect's cleanup leaves of its runs: their answers no longer count.
Cancelled(runs) == {}

Restarted(q) ==
  IF Depends(q)' = None THEN [data |-> Idle(q)', runs |-> Cancelled(query[q].runs)]
  ELSE [data |-> query[q].data, runs |-> Cancelled(query[q].runs) \cup {Run(q, wallet')}]

\* After a render: each query whose dependencies changed starts over.
Rerun ==
  query' = [q \in Queries |->
              IF <<Depends(q), Idle(q)>>' # <<Depends(q), Idle(q)>> THEN Restarted(q)
              ELSE query[q]]

\* Mutant: polls until there is something to show.
Mut_PollWhileEmpty(q) ==
  /\ Depends(q) # None /\ query[q].data = None
  /\ Cardinality(query[q].runs) < MaxRuns[q]
  /\ query' = [query EXCEPT ![q].runs = @ \cup {Run(q, wallet)}]
  /\ UNCHANGED <<wallet, user, page, path, bell, server, signed, overtaken, events>>

\* The interval is up, or the tab is looked at again.
Poll(q) ==
  /\ Depends(q) # None
  /\ Cardinality(query[q].runs) < MaxRuns[q]
  /\ query' = [query EXCEPT ![q].runs = @ \cup {Run(q, wallet)}]
  /\ UNCHANGED <<wallet, user, page, path, bell, server, signed, overtaken, events>>

\* Without an answer: fetchBalance catches and says 0; the digest is null if the request
\* was refused and XpProgress shows nothing if it failed, else both stay as they were.
Unanswered(q) ==
  CASE q = "balance" -> {[of |-> wallet, amount |-> 0]}
    [] OTHER -> {query[q].data, None}

Shows(q, answer) == IF answer = Lost THEN Unanswered(q) ELSE {answer}

Deliver(q) ==
  \E answer \in query[q].runs : \E data \in Shows(q, answer) :
    /\ query' = [query EXCEPT ![q] = [data |-> data, runs |-> @.runs \ {answer}]]
    /\ UNCHANGED <<wallet, user, page, path, bell, server, signed, overtaken, events>>

\* Refused by the limiter, failed or lost.
Drop(q) ==
  /\ Event
  /\ \E answer \in query[q].runs :
       query' = [query EXCEPT ![q].runs = (@ \ {answer}) \cup {Lost}]
  /\ UNCHANGED <<wallet, user, page, path, bell, server, signed, overtaken>>

-----------------------------------------------------------------------------
(***************************************************************************)
(* AuthProvider, the routes under /api/auth and ConnectButton.             *)
(***************************************************************************)
\* GET /api/auth/me, asked once per page load.
getSession == IF cookie = None THEN [user |-> None] ELSE [user |-> cookie]

\* Mutant: the bell stays mounted without a wallet.
Mut_BellStays(w) == bell

\* The Navbar has no bell without a wallet.
BellOf(w) == IF w = None THEN ClosedBell ELSE bell

\* AuthProvider's effect on [connected].
AfterDisconnect(u, w) == IF wallet # None /\ w = None THEN None ELSE u

\* The page shows user u, the wallet is w, and the path p.
Page(u, w, p) ==
  /\ wallet' = w /\ path' = p
  /\ user' = AfterDisconnect(u, w)
  /\ bell' = IF p # path THEN [BellOf(w) EXCEPT !.open = FALSE] ELSE BellOf(w)
  /\ Rerun

\* The browser may still have the session of an earlier visit.
Init ==
  /\ wallet \in MaybeWallet /\ user = None
  /\ cookie \in Returning \cup {None} /\ me = getSession
  /\ flow = NoFlow /\ logout = "none"
  /\ path = "home" /\ bell = ClosedBell
  /\ query = [q \in Queries |-> [data |-> Idle(q),
                                runs |-> IF Depends(q) = None THEN {} ELSE {Run(q, wallet)}]]
  /\ news = [w \in Wallets |-> 0]
  /\ signed = {cookie} \ {None} /\ overtaken = FALSE
  /\ events = 0

\* A new load of the page: nothing of the old one is left but the cookie, and the
\* wallet reconnects on its own or not.
Load ==
  /\ Event
  /\ wallet' \in {wallet, None} /\ user' = None
  /\ me' = getSession
  /\ flow' = NoFlow /\ logout' = "none"
  /\ path' \in Paths /\ bell' = ClosedBell
  /\ query' = [q \in Queries |-> [data |-> Idle(q)',
                                 runs |-> IF Depends(q)' = None THEN {} ELSE {Run(q, wallet')}]]
  /\ overtaken' = FALSE
  /\ UNCHANGED <<server, signed>>

signingIn == flow # NoFlow
loading == me # None

\* What ConnectButton offers.
ConnectButton ==
  IF wallet = None THEN "connect" ELSE IF user = None THEN "sign in" ELSE "sign out"

\* refresh: whatever the answer is, or none, becomes the user.
refresh ==
  /\ me # None
  /\ Page(me.user, wallet, path)
  /\ me' = None
  /\ overtaken' = 
       (overtaken \/ (me.user # user /\ (user # None \/ signingIn \/ me # getSession)))
  /\ UNCHANGED <<flow, logout, server, signed, events>>

LoseMe ==
  /\ Event
  /\ me # None
  /\ me' = [user |-> None]
  /\ UNCHANGED <<wallet, user, flow, logout, path, bell, query, server, signed, overtaken>>

\* signIn up to the challenge.
signIn ==
  /\ Event
  /\ ConnectButton = "sign in" /\ ~ signingIn
  /\ flow' = [step |-> "challenge", wallet |-> wallet, ok |-> TRUE]
  /\ UNCHANGED <<wallet, user, me, logout, path, bell, query, server, signed, overtaken>>

\* The challenge arrives: the wallet asks its account of now, if it has one.
Challenged ==
  /\ flow.step = "challenge"
  /\ flow' = IF flow.ok /\ wallet # None
             THEN [step |-> "prompt", wallet |-> flow.wallet, signer |-> wallet]
             ELSE NoFlow
  /\ UNCHANGED <<wallet, user, me, logout, path, bell, query, server, signed, overtaken,
                 events>>

\* Mutant: a signature is taken for one of the wallet named in the request.
Mut_AnySignature(claimed, signer) == TRUE

verifySignature(claimed, signer) == claimed = signer

\* POST /api/auth/verify sets the cookie when all of its checks pass: the caller's budget
\* and the nonce's five minutes may be over.
Verified(admitted) == admitted /\ verifySignature(flow.wallet, flow.signer)

\* A wallet that is being disconnected signs nothing.
Approve ==
  /\ flow.step = "prompt" /\ logout # "leaving"
  /\ \E admitted \in BOOLEAN :
       /\ IF admitted THEN UNCHANGED events ELSE Event
       /\ cookie' = IF Verified(admitted) THEN flow.wallet ELSE cookie
       /\ flow' = [step |-> "verify", wallet |-> flow.wallet, ok |-> Verified(admitted)]
  /\ signed' = signed \cup {flow.signer}
  /\ UNCHANGED <<wallet, user, me, logout, path, bell, query, news, overtaken>>

Reject ==
  /\ flow.step = "prompt"
  /\ flow' = NoFlow
  /\ UNCHANGED <<wallet, user, me, logout, path, bell, query, server, signed, overtaken,
                 events>>

\* setUser runs whatever became of the wallet meanwhile.
SignedIn ==
  /\ flow.step = "verify"
  /\ Page(IF flow.ok THEN flow.wallet ELSE user, wallet, path)
  /\ flow' = NoFlow
  /\ UNCHANGED <<me, logout, server, signed, overtaken, events>>

\* The challenge is refused, by the limiter for one, or the answer to either request lost.
LoseSignIn ==
  /\ Event
  /\ flow.step \in {"challenge", "verify"} /\ flow.ok
  /\ flow' = [flow EXCEPT !.ok = FALSE]
  /\ UNCHANGED <<wallet, user, me, logout, path, bell, query, server, signed, overtaken>>

\* The chip of a signed-in visitor.  A request that does not reach the server leaves
\* the cookie; without an answer signOut ends there.
signOut ==
  /\ Event
  /\ ConnectButton = "sign out" /\ logout = "none"
  /\ \E arrives, answered \in BOOLEAN :
       /\ cookie' = IF arrives THEN None ELSE cookie
       /\ logout' = IF arrives /\ answered THEN "done" ELSE "none"
  /\ UNCHANGED <<wallet, user, me, flow, path, bell, query, news, signed, overtaken>>

\* The answer to the logout: setUser(null), and disconnect is called.
SignedOut ==
  /\ logout = "done"
  /\ Page(None, wallet, path)
  /\ logout' = "leaving"
  /\ UNCHANGED <<me, flow, server, signed, overtaken, events>>

\* disconnect is through; it fails if the wallet already is disconnected.
Disconnected ==
  /\ logout = "leaving"
  /\ Page(user, None, path)
  /\ logout' = "none"
  /\ UNCHANGED <<me, flow, server, signed, overtaken, events>>

-----------------------------------------------------------------------------
(***************************************************************************)
(* The wallet's own events, navigation and the bell.                       *)
(***************************************************************************)
Untouched == UNCHANGED <<page, server, signed, overtaken>>

\* Connected, switched to another account, or disconnected.
WalletEvent ==
  /\ Event
  /\ \E w \in MaybeWallet \ {wallet} : Page(user, w, path)
  /\ Untouched

Navigate ==
  /\ Event
  /\ \E p \in Paths \ {path} : Page(user, wallet, p)
  /\ Untouched

digest == query["digest"].data

\* Opening takes a snapshot and advances the watermark of the session's user, which
\* changes what the next load of the digest brings.
toggle ==
  /\ Event
  /\ digest # None
  /\ IF bell.open THEN bell' = [bell EXCEPT !.open = FALSE] /\ UNCHANGED news
     ELSE /\ bell' = [open |-> TRUE, frozen |-> digest]
          /\ \E arrives \in BOOLEAN :
               news' = IF arrives /\ cookie # None THEN [news EXCEPT ![cookie] = @ + 1] ELSE news
  /\ UNCHANGED <<wallet, user, page, path, query, cookie, signed, overtaken>>

\* Escape, or a press outside of the panel.
Dismiss ==
  /\ bell.open
  /\ bell' = [bell EXCEPT !.open = FALSE]
  /\ UNCHANGED <<wallet, user, page, path, query, server, signed, overtaken,
                 events>>

\* Mutant: the panel lists the live digest.
Mut_Live == digest

\* What the open panel lists.
Shown == IF bell.frozen # None THEN bell.frozen ELSE digest
PanelVisible == bell.open /\ digest # None

\* XpProgress.
xp == query["xp"].data
XpProgress ==
  IF loading THEN "loading" ELSE IF user = None THEN "sign in"
  ELSE IF xp = Undefined THEN "loading" ELSE IF xp = None THEN "failed" ELSE "profile"

-----------------------------------------------------------------------------
(***************************************************************************)
(* What goes on without the page.                                          *)
(***************************************************************************)
\* What the indexer has to tell a wallet's user changes: rewards, ranks, XP.
News ==
  /\ Event
  /\ \E w \in Wallets : news' = [news EXCEPT ![w] = @ + 1]
  /\ UNCHANGED <<wallet, user, page, path, bell, query, cookie, signed, overtaken>>

\* exp of the session has passed; verifySessionToken takes it for none.
verifySessionToken ==
  /\ Event
  /\ cookie # None /\ cookie' = None
  /\ UNCHANGED <<wallet, user, page, path, bell, query, news, signed, overtaken>>

Answers == refresh \/ Challenged \/ SignedIn \/ SignedOut \/ Disconnected
Clicks == signIn \/ Approve \/ Reject \/ signOut \/ Navigate \/ toggle \/ Dismiss
Faults == LoseMe \/ LoseSignIn \/ (\E q \in Queries : Drop(q))

Next ==
  \/ Load \/ Answers \/ Clicks \/ Faults
  \/ WalletEvent \/ News \/ verifySessionToken
  \/ \E q \in Queries : Poll(q) \/ Deliver(q)

Spec == Init /\ [][Next]_vars

\* The page's timers fire and requests are answered or fail; a visitor and the wallet
\* need not do anything.
FairSpec ==
  /\ Spec
  /\ WF_vars(Answers)
  /\ WF_vars(Poll("digest")) /\ WF_vars(Deliver("digest"))

-----------------------------------------------------------------------------
Answer ==
  [of : MaybeWallet, version : Nat] \cup [of : MaybeWallet, amount : {0, 1}]
    \cup {None, Undefined, Lost}

\* Type correctness.
TypeOK ==
  /\ {wallet, user, cookie} \subseteq MaybeWallet
  /\ me \in [user : MaybeWallet] \cup {None}
  /\ flow.step \in {"none", "challenge", "prompt", "verify"}
  /\ logout \in {"none", "done", "leaving"} /\ path \in Paths
  /\ bell \in [open : BOOLEAN, frozen : Answer]
  /\ \A q \in Queries :
       /\ query[q].data \in Answer
       /\ query[q].runs \subseteq Answer

\* The user on the page is one whose account has signed in, and the bell and the profile
\* page show what belongs to the user on the page, whoever was signed in
\* before and whatever answers arrive late, unless the answer to /me was overtaken by a
\* sign-in or sign-out.
ShownIsOfTheUser ==
  /\ user \in signed \cup {None}
  /\ ~ overtaken =>
       /\ digest # None => digest.of = user
       /\ PanelVisible => Shown.of = user
       /\ XpProgress = "profile" => path = "profile" /\ xp.of = user

\* The page is of one user.
Inv == TypeOK /\ ShownIsOfTheUser

\* The sign-in of the page and the routes implements Session: in particular no session is
\* of an account that did not sign, though the account may be switched between the
\* challenge and the prompt.
S == INSTANCE Session WITH session <- cookie, Accounts <- Wallets, Nobody <- None
SessionSpec == S!Spec

\* While the panel stays open its items stay, whatever polls and the watermark do.
PanelHoldsStill ==
  [][PanelVisible /\ PanelVisible' => Shown' = Shown]_vars

\* A balance that arrives is of the wallet connected at the time, never of the one
\* connected when it was asked for.
BalanceOfTheWallet ==
  [][query["balance"].data' \notin {query["balance"].data, None}
       => query["balance"].data'.of = wallet]_vars

\* What is on display changes with what it shows, not under the visitor's eyes.
DisplayHolds == PanelHoldsStill /\ BalanceOfTheWallet

\* As long as a signed-in visitor stays, the bell gets to show the latest digest.
Signed(w) == user = w /\ cookie = w /\ wallet # None
BellCatchesUp ==
  \A w \in Wallets : <>[]Signed(w) => []<>(digest = [of |-> w, version |-> news[w]])

\* useWalletBalances.ts:23 takes a failed request for a wallet that has never held the
\* token; every wallet here holds some.
ZeroMeansNone == query["balance"].data # None => query["balance"].data.amount = 1
===============================================================================
