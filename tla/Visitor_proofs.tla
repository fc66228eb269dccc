---------------------------- MODULE Visitor_proofs ----------------------------
(***************************************************************************)
(* Theorems about Visitor, for every set of accounts and every number of   *)
(* events and of answers under way:                                        *)
(*                                                                         *)
(*   - the sign-in implements Session;                                     *)
(*   - what is shown belongs to the user on the page (Inv);                *)
(*   - the panel holds still and a balance is of the wallet (DisplayHolds).*)
(*                                                                         *)
(* Inv is not inductive: that a digest is of the user on the page needs    *)
(* that its answers under way are, which needs that the session they were  *)
(* asked for with is the user's own, which needs that nobody is on the     *)
(* page while somebody signs in.                                           *)
(*                                                                         *)
(* And about ExploreMaps, for any apps, tags, addresses and metrics: the   *)
(* map, its camera, its selection and the list below it agree (MapsInv).   *)
(* Its invariant, MapsSound, says besides what the requests are for, what  *)
(* a held pointer is on and which circles and leaves the tree still has.   *)
(***************************************************************************)
EXTENDS Visitor, ExploreMaps, DataTheorems, SequenceTheorems

Flows ==
  {NoFlow} \cup [step : {"challenge", "verify"}, wallet : Wallets, ok : BOOLEAN]
    \cup [step : {"prompt"}, wallet : Wallets, signer : Wallets]

\* Type correctness, of every part of the state.
Shapes ==
  /\ wallet \in MaybeWallet /\ user \in MaybeWallet /\ cookie \in MaybeWallet
  /\ me \in [user : MaybeWallet] \cup {None}
  /\ flow \in Flows
  /\ logout \in {"none", "done", "leaving"} /\ path \in Paths
  /\ bell \in [open : BOOLEAN, frozen : Answer]
  /\ query \in [Queries -> [data : Answer, runs : SUBSET Answer]]
  /\ news \in [Wallets -> Nat]
  /\ overtaken \in BOOLEAN

\* Whoever is or will be on the page, and in the session, has signed.
Origins ==
  /\ user \in signed \cup {None} /\ cookie \in signed \cup {None}
  /\ me # None => me.user \in signed \cup {None}
  /\ flow.step = "verify" /\ flow.ok => flow.wallet \in signed

\* A query that asks for nothing shows nothing and awaits nothing.
IdleQueries ==
  \A q \in Queries : Depends(q) = None => query[q] = [data |-> Idle(q), runs |-> {}]

\* Balances under way are of the wallet that is connected.
BalanceRuns == \A r \in query["balance"].runs : r = Lost \/ r.of = wallet

FrozenWhileOpen == bell.open => bell.frozen # None

\* The session is the user's own, and so is what was asked for with it.
SessionOfUser ==
  /\ signingIn => user = None
  /\ flow.step = "verify" /\ flow.ok => cookie \in {flow.wallet, None}
  /\ user # None => cookie \in {user, None}

AnswersOfUser ==
  /\ query["digest"].data = None \/ query["digest"].data.of = user
  /\ query["xp"].data \in {None, Undefined} \/ query["xp"].data.of = user
  /\ \A q \in {"digest", "xp"} : \A r \in query[q].runs : r \in {None, Lost} \/ r.of = user

\* An open panel outlives its user while the wallet is being disconnected, when nobody
\* signs in.
Deserted ==
  /\ user = None /\ logout = "leaving"
  /\ ~ (flow.step = "verify" /\ flow.ok) /\ cookie \in {bell.frozen.of, None}

BellOfUser == bell.open => (user # None /\ bell.frozen.of = user) \/ Deserted

IInv ==
  /\ Shapes /\ Origins /\ IdleQueries /\ BalanceRuns /\ FrozenWhileOpen
  /\ ~ overtaken => SessionOfUser /\ AnswersOfUser /\ BellOfUser

-----------------------------------------------------------------------------
(***************************************************************************)
(* Queries.                                                                *)
(***************************************************************************)
\* Answers are answers.
LEMMA AnswersTyped ==
  ASSUME cookie \in MaybeWallet, news \in [Wallets -> Nat],
         NEW q \in Queries, NEW w \in MaybeWallet
  PROVE  Run(q, w) \in Answer
BY DEF Run, fetchBalance, OfSession, Answer, MaybeWallet

LEMMA IdleTyped == \A q \in Queries : Idle(q) \in Answer
BY DEF Idle, Answer

\* What an answer shows is an answer.
LEMMA ShownTyped ==
  ASSUME Shapes, NEW q \in Queries, NEW answer \in query[q].runs, NEW data \in Shows(q, answer)
  PROVE  data \in Answer
<1>1. answer \in Answer /\ query[q].data \in Answer /\ wallet \in MaybeWallet
  BY DEF Shapes
<1>2. CASE answer # Lost
  BY <1>1, <1>2 DEF Shows
<1>3. CASE answer = Lost
  <2>1. data \in Unanswered(q)
    BY <1>3 DEF Shows
  <2>2. CASE q = "balance"
    BY <1>1, <2>1, <2>2 DEF Unanswered, Answer
  <2>3. CASE q # "balance"
    BY <1>1, <2>1, <2>3 DEF Unanswered, Answer, Queries
  <2>4. QED
    BY <2>2, <2>3
<1>4. QED
  BY <1>2, <1>3

\* What a render makes of a query: nothing changes, or it starts over.
LEMMA RerunCases ==
  ASSUME Rerun, NEW q \in Queries
  PROVE  \/ query'[q] = query[q] /\ Depends(q)' = Depends(q) /\ Idle(q)' = Idle(q)
         \/ Depends(q)' = None /\ query'[q] = [data |-> Idle(q)', runs |-> {}]
         \/ Depends(q)' # None /\ query'[q] = [data |-> query[q].data, runs |-> {Run(q, wallet')}]
<1>1. query'[q] = IF <<Depends(q), Idle(q)>>' # <<Depends(q), Idle(q)>> THEN Restarted(q)
                  ELSE query[q]
  BY DEF Rerun
<1>2. CASE <<Depends(q), Idle(q)>>' = <<Depends(q), Idle(q)>>
  BY <1>1, <1>2
<1>3. CASE <<Depends(q), Idle(q)>>' # <<Depends(q), Idle(q)>>
  BY <1>1, <1>3 DEF Restarted, Cancelled
<1>4. QED
  BY <1>2, <1>3

\* A render keeps the queries typed, and those that ask for nothing idle.
LEMMA RerunKeeps ==
  ASSUME Shapes, IdleQueries, BalanceRuns, Rerun, wallet' \in MaybeWallet
  PROVE  /\ query' \in [Queries -> [data : Answer, runs : SUBSET Answer]]
         /\ IdleQueries' /\ BalanceRuns'
<1>1. ASSUME NEW q \in Queries
      PROVE  /\ query'[q] \in [data : Answer, runs : SUBSET Answer]
             /\ Depends(q)' = None => query'[q] = [data |-> Idle(q)', runs |-> {}]
  <2>1. Run(q, wallet') \in Answer
    BY AnswersTyped DEF Shapes
  <2>2. Idle(q)' \in Answer
    BY DEF Idle, Answer
  <2>3. query[q] \in [data : Answer, runs : SUBSET Answer]
    BY DEF Shapes
  <2>4. Depends(q) = None => query[q] = [data |-> Idle(q), runs |-> {}]
    BY DEF IdleQueries
  <2>5. CASE query'[q] = query[q] /\ Depends(q)' = Depends(q) /\ Idle(q)' = Idle(q)
    BY <2>3, <2>4, <2>5
  <2>6. CASE Depends(q)' = None /\ query'[q] = [data |-> Idle(q)', runs |-> {}]
    BY <2>2, <2>6
  <2>7. CASE /\ Depends(q)' # None
             /\ query'[q] = [data |-> query[q].data, runs |-> {Run(q, wallet')}]
    BY <2>1, <2>3, <2>7
  <2>8. QED
    BY <2>5, <2>6, <2>7, RerunCases
<1>2. query' = [q \in Queries |-> query'[q]]
  BY DEF Rerun
<1>3. query' \in [Queries -> [data : Answer, runs : SUBSET Answer]]
  BY <1>1, <1>2
<1>4. IdleQueries'
  BY <1>1 DEF IdleQueries
<1>5. BalanceRuns'
  <2>1. "balance" \in Queries
    BY DEF Queries
  <2>2. Run("balance", wallet').of = wallet'
    BY DEF Run, fetchBalance
  <2>3. Depends("balance") = wallet /\ Depends("balance")' = wallet'
    BY DEF Depends
  <2>4. CASE query'["balance"] = query["balance"] /\ wallet' = wallet
    BY <2>4 DEF BalanceRuns
  <2>5. CASE query'["balance"].runs = {}
    BY <2>5 DEF BalanceRuns
  <2>6. CASE query'["balance"].runs = {Run("balance", wallet')}
    BY <2>2, <2>6 DEF BalanceRuns
  <2>7. \/ query'["balance"] = query["balance"] /\ wallet' = wallet
        \/ query'["balance"].runs = {}
        \/ query'["balance"].runs = {Run("balance", wallet')}
    <3> DEFINE q == "balance"
    <3>1. \/ query'[q] = query[q] /\ Depends(q)' = Depends(q) /\ Idle(q)' = Idle(q)
          \/ Depends(q)' = None /\ query'[q] = [data |-> Idle(q)', runs |-> {}]
          \/ Depends(q)' # None /\ query'[q] = [data |-> query[q].data, runs |-> {Run(q, wallet')}]
      BY <2>1, RerunCases
    <3>2. QED
      BY <2>3, <3>1
  <2>8. QED
    BY <2>4, <2>5, <2>6, <2>7
<1>6. QED
  BY <1>3, <1>4, <1>5

-----------------------------------------------------------------------------
(***************************************************************************)
(* A render, whoever causes it.                                            *)
(***************************************************************************)
LEMMA PageKeeps ==
  ASSUME Shapes, IdleQueries, BalanceRuns, FrozenWhileOpen,
         NEW u \in MaybeWallet, NEW w \in MaybeWallet, NEW p \in Paths, Page(u, w, p)
  PROVE  /\ wallet' = w /\ path' = p /\ user' \in {u, None} /\ user' \in MaybeWallet
         /\ w = wallet => user' = u
         /\ bell' \in [open : BOOLEAN, frozen : Answer]
         /\ bell'.open => bell' = bell /\ w # None
         /\ query' \in [Queries -> [data : Answer, runs : SUBSET Answer]]
         /\ IdleQueries' /\ BalanceRuns' /\ FrozenWhileOpen'
<1>1. wallet' = w /\ path' = p /\ user' = AfterDisconnect(u, w) /\ Rerun
  BY DEF Page
<1>2. user' \in {u, None} /\ (w = wallet => user' = u)
  BY <1>1 DEF AfterDisconnect
<1>3. bell \in [open : BOOLEAN, frozen : Answer] /\ BellOf(w) \in [open : BOOLEAN, frozen : Answer]
  BY DEF BellOf, ClosedBell, Shapes, Answer
<1>4. BellOf(w).open => BellOf(w) = bell /\ w # None
  BY DEF BellOf, ClosedBell
<1>5. \/ bell' = BellOf(w)
      \/ bell' = [BellOf(w) EXCEPT !.open = FALSE]
  BY DEF Page
<1>6. bell' \in [open : BOOLEAN, frozen : Answer] /\ (bell'.open => bell' = bell /\ w # None)
  BY <1>3, <1>4, <1>5
<1>7. FrozenWhileOpen'
  BY <1>6 DEF FrozenWhileOpen
<1>8. QED
  BY <1>1, <1>2, <1>6, <1>7, RerunKeeps DEF MaybeWallet

\* Whoever is put on a page with a wallet is the session's, or signs in; whoever is taken
\* off it is signed out.
KeepsPanel(u, w) ==
  w # None => /\ user # None /\ u = None => logout' = "leaving"
              /\ user = None /\ u # None => (flow.step = "verify" /\ flow.ok) \/ u = cookie
              /\ logout = "leaving" => logout' = "leaving"

\* The user stays, leaves, or comes to a page of nobody with a session of its own.
LEMMA PageOfUser ==
  ASSUME IInv, ~ overtaken,
         NEW u \in MaybeWallet, NEW w \in MaybeWallet, NEW p \in Paths, Page(u, w, p),
         u = user \/ u = None \/ user = None,
         user' # None => cookie \in {user', None},
         flow' = flow \/ flow' = NoFlow, cookie' = cookie,
         KeepsPanel(u, w), user # None => ~ signingIn /\ cookie \in {user, None}
  PROVE  AnswersOfUser' /\ BellOfUser'
<1>1. /\ wallet' = w /\ user' \in {u, None}
      /\ bell'.open => bell' = bell /\ w # None
      /\ w = wallet => user' = u
  BY PageKeeps DEF IInv
<1>2. Rerun
  BY DEF Page
<1>3. user' = None \/ (user' = u /\ (u = user \/ user = None))
  BY <1>1
<1>4. BellOfUser'
  <2> SUFFICES ASSUME bell'.open
               PROVE  (user' # None /\ bell'.frozen.of = user') \/ Deserted'
    BY DEF BellOfUser
  <2>1. /\ bell' = bell /\ w # None
        /\ (user # None /\ bell.frozen.of = user) \/ Deserted
    BY <1>1 DEF IInv, BellOfUser
  <2>2. user' = u
    BY <2>1 DEF Page, AfterDisconnect
  <2>3. NoFlow.step = "none" /\ (user # None => flow = NoFlow)
    BY DEF NoFlow, signingIn
  <2>4. CASE user # None /\ bell.frozen.of = user
    <3>1. u = user \/ u = None
      BY <2>4
    <3>2. CASE u = user
      BY <2>1, <2>2, <2>4, <3>2
    <3>3. CASE u # user
      <4>1. u = None /\ logout' = "leaving" /\ cookie \in {user, None}
        BY <2>1, <2>4, <3>1, <3>3 DEF KeepsPanel
      <4>2. flow' = NoFlow
        BY <2>3, <2>4
      <4>3. bell'.frozen.of = user
        BY <2>1, <2>4
      <4>4. cookie' \in {bell'.frozen.of, None}
        BY <4>1, <4>3
      <4>5. QED
        BY <2>2, <2>3, <4>1, <4>2, <4>4 DEF Deserted
    <3>4. QED
      BY <3>2, <3>3
  <2>5. CASE Deserted
    <3>1. /\ user = None /\ logout = "leaving" /\ ~ (flow.step = "verify" /\ flow.ok)
          /\ cookie \in {bell.frozen.of, None}
      BY <2>5 DEF Deserted
    <3>2. CASE u = None
      <4>0. ~ (flow'.step = "verify" /\ flow'.ok)
        BY <2>3, <3>1
      <4>1. logout' = "leaving" /\ ~ (flow'.step = "verify" /\ flow'.ok)
        BY <2>1, <3>1, <4>0 DEF KeepsPanel
      <4>2. cookie' \in {bell'.frozen.of, None}
        BY <2>1, <3>1
      <4>3. QED
        BY <2>2, <3>2, <4>1, <4>2 DEF Deserted
    <3>3. CASE u # None
      <4>1. u = cookie
        BY <2>1, <3>1, <3>3 DEF KeepsPanel
      <4>2. bell'.frozen.of = u
        BY <2>1, <3>1, <3>3, <4>1
      <4>3. QED
        BY <2>2, <3>3, <4>2
    <3>4. QED
      BY <3>2, <3>3
  <2>6. QED
    BY <2>1, <2>4, <2>5
<1>5. ASSUME NEW q \in {"digest", "xp"}
      PROVE  /\ \/ query'[q].data \in {None, Idle(q)'}
                \/ q = "xp" /\ query'[q].data = Undefined
                \/ query'[q].data.of = user'
             /\ \A r \in query'[q].runs : r \in {None, Lost} \/ r.of = user'
  <2>1. q \in Queries
    BY DEF Queries
  <2>2. Run(q, wallet') \in {None} \/ Run(q, wallet').of = cookie
    BY DEF Run, OfSession
  <2>3. Depends(q) = None => query[q] = [data |-> Idle(q), runs |-> {}]
    BY <2>1 DEF IInv, IdleQueries
  <2>4. (user = None => Depends(q) = None) /\ (user' = None => Depends(q)' = None)
    BY DEF Depends
  <2>5. /\ \/ query[q].data = None
           \/ q = "xp" /\ query[q].data = Undefined
           \/ query[q].data.of = user
        /\ \A r \in query[q].runs : r \in {None, Lost} \/ r.of = user
    BY DEF IInv, AnswersOfUser
  <2>6. cookie = None => Run(q, wallet') = None
    BY DEF Run, OfSession
  <2>7. CASE query'[q] = query[q] /\ Depends(q)' = Depends(q) /\ Idle(q)' = Idle(q)
    <3>1. CASE Depends(q) = None
      BY <2>3, <2>7, <3>1
    <3>2. CASE Depends(q) # None
      <4>1. user' = user
        BY <1>3, <2>4, <2>7, <3>2
      <4>2. QED
        BY <2>5, <2>7, <4>1
    <3>3. QED
      BY <3>1, <3>2
  <2>8. CASE Depends(q)' = None /\ query'[q] = [data |-> Idle(q)', runs |-> {}]
    BY <2>8
  <2>9. CASE /\ Depends(q)' # None
             /\ query'[q] = [data |-> query[q].data, runs |-> {Run(q, wallet')}]
    <3>1. user' # None /\ user' = u
      BY <1>3, <2>4, <2>9
    <3>2. \A r \in query'[q].runs : r \in {None, Lost} \/ r.of = user'
      BY <2>2, <2>6, <2>9, <3>1
    <3>3. CASE user = None
      <4>1. query[q].data = Idle(q)
        BY <2>3, <2>4, <3>3
      <4>2. Idle(q) = None \/ (q = "xp" /\ Idle(q) = Undefined)
        BY DEF Idle
      <4>3. QED
        BY <2>9, <3>2, <4>1, <4>2
    <3>4. CASE user # None
      BY <1>3, <2>5, <2>9, <3>1, <3>2, <3>4
    <3>5. QED
      BY <3>3, <3>4
  <2>10. QED
    BY <2>1, <2>7, <2>8, <2>9, <1>2, RerunCases
<1>6. Idle("digest")' = None /\ Idle("xp")' \in {None, Undefined}
  BY DEF Idle
<1>7. AnswersOfUser'
  BY <1>5, <1>6 DEF AnswersOfUser
<1>8. QED
  BY <1>4, <1>7

-----------------------------------------------------------------------------
(***************************************************************************)
(* The steps.                                                              *)
(***************************************************************************)
\* What a step that does not touch the page leaves alone.
LEMMA PageUntouched ==
  ASSUME IInv, UNCHANGED <<wallet, user, path, query, bell>>, Deserted => Deserted'
  PROVE  /\ IdleQueries' /\ BalanceRuns' /\ FrozenWhileOpen'
         /\ ~ overtaken => AnswersOfUser' /\ BellOfUser'
<1>1. \A q \in Queries : Depends(q)' = Depends(q) /\ Idle(q)' = Idle(q)
  BY DEF Depends, Idle
<1>2. IdleQueries'
  BY <1>1 DEF IInv, IdleQueries
<1>3. QED
  BY <1>2 DEF IInv, BalanceRuns, FrozenWhileOpen, AnswersOfUser, BellOfUser

\* The sign-in up to the signature, its failures, and the loss of the answer to /me.
LEMMA TalkingKeeps ==
  ASSUME IInv, Challenged \/ Reject \/ LoseMe \/ signIn \/ LoseSignIn
  PROVE  IInv'
<1>1. /\ UNCHANGED <<wallet, user, path, query, bell>>
      /\ UNCHANGED <<logout, server, signed, overtaken>>
  BY DEF Challenged, Reject, LoseMe, signIn, LoseSignIn
<1> DEFINE challenge == [step |-> "challenge", wallet |-> wallet, ok |-> TRUE]
           prompt == [step |-> "prompt", wallet |-> flow.wallet, signer |-> wallet]
           failed == [flow EXCEPT !.ok = FALSE]
<1>a. /\ \/ flow' = flow
         \/ flow' = NoFlow
         \/ flow' = challenge /\ wallet # None /\ user = None
         \/ flow' = prompt /\ wallet # None /\ flow.step = "challenge"
         \/ flow' = failed /\ flow.step \in {"challenge", "verify"}
      /\ me' \in {me, [user |-> None]}
  BY DEF Challenged, Reject, LoseMe, signIn, LoseSignIn, ConnectButton
<1>b. /\ wallet \in MaybeWallet /\ flow \in Flows /\ me \in [user : MaybeWallet] \cup {None}
      /\ NoFlow.step = "none"
  BY DEF IInv, Shapes, NoFlow
<1>c. flow.step \in {"challenge", "verify"} =>
        flow \in [step : {"challenge", "verify"}, wallet : Wallets, ok : BOOLEAN]
  BY <1>b DEF Flows
<1>d. \/ flow' = flow
      \/ flow' = NoFlow
      \/ flow' \in Flows /\ flow'.step = "challenge" /\ user = None
      \/ flow' \in Flows /\ flow'.step = "prompt" /\ flow.step = "challenge"
      \/ flow' \in Flows /\ flow'.ok = FALSE /\ flow.step \in {"challenge", "verify"}
  <2>1. wallet # None => challenge \in Flows /\ challenge.step = "challenge"
    BY <1>b DEF Flows, MaybeWallet
  <2>2. wallet # None /\ flow.step = "challenge" => prompt \in Flows /\ prompt.step = "prompt"
    BY <1>b, <1>c DEF Flows, MaybeWallet
  <2>3. flow.step \in {"challenge", "verify"} => failed \in Flows /\ failed.ok = FALSE
    BY <1>c DEF Flows
  <2> HIDE DEF challenge, prompt, failed
  <2>4. QED
    BY <1>a, <2>1, <2>2, <2>3
<1>2. flow' \in Flows /\ me' \in [user : MaybeWallet] \cup {None}
  <2>1. NoFlow \in Flows /\ [user |-> None] \in [user : MaybeWallet]
    BY DEF Flows, MaybeWallet
  <2>2. QED
    BY <1>a, <1>b, <1>d, <2>1
<1>3. Shapes'
  BY <1>1, <1>2 DEF IInv, Shapes, server
<1>4. (me' = me \/ me'.user = None) /\ (flow' = flow \/ ~ (flow'.step = "verify" /\ flow'.ok))
  BY <1>a, <1>b, <1>d
<1>5. signingIn' => signingIn \/ user = None
  BY <1>b, <1>d DEF signingIn
<1> HIDE DEF challenge, prompt, failed
<1>6. Origins'
  BY <1>1, <1>4 DEF IInv, Origins, server
<1>7. ~ overtaken => SessionOfUser'
  BY <1>1, <1>4, <1>5 DEF IInv, SessionOfUser, server
<1>8. Deserted => Deserted'
  BY <1>1, <1>4 DEF Deserted, server
<1>9. QED
  BY <1>1, <1>3, <1>6, <1>7, <1>8, PageUntouched DEF IInv

\* The signature.
LEMMA ApproveKeeps ==
  ASSUME IInv, Approve
  PROVE  IInv'
<1>1. /\ UNCHANGED <<wallet, user, path, query, bell>>
      /\ UNCHANGED <<me, logout, news, overtaken>>
      /\ flow.step = "prompt" /\ signed' = signed \cup {flow.signer}
      /\ ~ Deserted
  BY DEF Approve, Deserted
<1>2. flow \in [step : {"prompt"}, wallet : Wallets, signer : Wallets]
  BY <1>1 DEF IInv, Shapes, Flows, NoFlow
<1>3. PICK ok \in BOOLEAN :
        /\ cookie' = IF ok THEN flow.wallet ELSE cookie
        /\ flow' = [step |-> "verify", wallet |-> flow.wallet, ok |-> ok]
        /\ ok => flow.wallet = flow.signer
  BY DEF Approve, Verified, verifySignature
<1>4. Shapes'
  BY <1>1, <1>2, <1>3 DEF IInv, Shapes, Flows, MaybeWallet
<1>5. Origins'
  BY <1>1, <1>3 DEF IInv, Origins
<1>6. ~ overtaken => SessionOfUser'
  <2>1. signingIn /\ NoFlow.step = "none"
    BY <1>1 DEF signingIn, NoFlow
  <2>2. ~ overtaken => user = None
    BY <2>1 DEF IInv, SessionOfUser
  <2>3. ~ overtaken => user' = None
    BY <1>1, <2>2
  <2>4. flow'.ok = ok /\ flow'.wallet = flow.wallet
    BY <1>3
  <2>5. flow'.step = "verify" /\ flow'.ok => cookie' \in {flow'.wallet, None}
    BY <1>3, <2>4
  <2>6. QED
    BY <2>3, <2>5 DEF SessionOfUser
<1>7. QED
  BY <1>1, <1>4, <1>5, <1>6, PageUntouched DEF IInv

\* The session ends, or there is news.
LEMMA ServerKeeps ==
  ASSUME IInv, signOut \/ verifySessionToken \/ News
  PROVE  IInv'
<1>1. /\ UNCHANGED <<wallet, user, path, query, bell>>
      /\ UNCHANGED <<me, flow, signed, overtaken>>
      /\ cookie' \in {cookie, None}
  BY DEF signOut, verifySessionToken, News, page
<1>2. logout' \in {"none", "done", "leaving"}
  BY DEF signOut, verifySessionToken, News, page, IInv, Shapes
<1>3. news' \in [Wallets -> Nat]
  <2>1. news \in [Wallets -> Nat]
    BY DEF IInv, Shapes
  <2>2. \A w \in Wallets : [news EXCEPT ![w] = @ + 1] \in [Wallets -> Nat]
    BY <2>1
  <2>3. QED
    BY <2>1, <2>2 DEF signOut, verifySessionToken, News
<1>4. Shapes'
  BY <1>1, <1>2, <1>3 DEF IInv, Shapes, MaybeWallet
<1>5. Origins'
  BY <1>1 DEF IInv, Origins
<1>6. ~ overtaken => SessionOfUser'
  BY <1>1 DEF IInv, SessionOfUser, signingIn
<1>7. Deserted => Deserted'
  BY <1>1 DEF signOut, ConnectButton, verifySessionToken, News, page, Deserted
<1>8. QED
  BY <1>1, <1>4, <1>5, <1>6, <1>7, PageUntouched DEF IInv

\* The bell's panel.
LEMMA PanelKeeps ==
  ASSUME IInv, toggle \/ Dismiss
  PROVE  IInv'
<1>1. /\ UNCHANGED <<wallet, user, path, query>>
      /\ UNCHANGED <<page, cookie, signed, overtaken>>
  BY DEF toggle, Dismiss, server
<1>2. news' \in [Wallets -> Nat]
  BY DEF toggle, Dismiss, server, IInv, Shapes
<1>3. \/ bell' = [bell EXCEPT !.open = FALSE]
      \/ bell' = [open |-> TRUE, frozen |-> digest] /\ digest # None
  BY DEF toggle, Dismiss
<1>4. digest \in Answer
  BY DEF digest, IInv, Shapes, Queries
<1> DEFINE closed == [bell EXCEPT !.open = FALSE]
<1>5. closed \in [open : BOOLEAN, frozen : Answer] /\ closed.open = FALSE
  <2>1. bell \in [open : BOOLEAN, frozen : Answer]
    BY DEF IInv, Shapes
  <2>2. QED
    BY <2>1
<1>a. bell' = closed \/ (bell' = [open |-> TRUE, frozen |-> digest] /\ digest # None)
  BY <1>3
<1> HIDE DEF closed
<1>b. bell' \in [open : BOOLEAN, frozen : Answer]
  <2>1. \A d \in Answer : [open |-> TRUE, frozen |-> d] \in [open : BOOLEAN, frozen : Answer]
    OBVIOUS
  <2>2. QED
    BY <1>4, <1>5, <1>a, <2>1
<1>6. Shapes'
  BY <1>1, <1>2, <1>b DEF IInv, Shapes, page
<1>7. \A q \in Queries : Depends(q)' = Depends(q) /\ Idle(q)' = Idle(q)
  BY <1>1 DEF Depends, Idle
<1>8. IdleQueries' /\ BalanceRuns' /\ Origins'
  BY <1>1, <1>7 DEF IInv, IdleQueries, BalanceRuns, Origins, page
<1>9. ~ bell'.open \/ (bell'.frozen = digest /\ digest # None)
  BY <1>5, <1>a
<1>10. FrozenWhileOpen'
  BY <1>9 DEF FrozenWhileOpen
<1>11. ~ overtaken => SessionOfUser' /\ AnswersOfUser'
  BY <1>1 DEF IInv, SessionOfUser, AnswersOfUser, page, signingIn
<1>12. ~ overtaken => BellOfUser'
  <2>1. user = None => digest = None
    <3>1. user = None => Depends("digest") = None
      BY DEF Depends
    <3>2. user = None => query["digest"].data = Idle("digest")
      BY <3>1 DEF IInv, IdleQueries, Queries
    <3>3. QED
      BY <3>2 DEF digest, Idle
  <2>2. ~ overtaken => digest = None \/ digest.of = user
    BY DEF IInv, AnswersOfUser, digest
  <2>3. QED
    BY <1>1, <1>9, <2>1, <2>2 DEF BellOfUser
<1>13. QED
  BY <1>1, <1>6, <1>8, <1>10, <1>11, <1>12 DEF IInv

\* A query polls.
LEMMA PollKeeps ==
  ASSUME IInv, NEW q \in Queries, Poll(q)
  PROVE  IInv'
<1>1. /\ UNCHANGED <<wallet, user, path, bell>>
      /\ UNCHANGED <<page, server, signed, overtaken>>
      /\ Depends(q) # None
      /\ query' = [query EXCEPT ![q].runs = @ \cup {Run(q, wallet)}]
  BY DEF Poll
<1>2. Run(q, wallet) \in Answer
  BY AnswersTyped DEF IInv, Shapes
<1>3. query \in [Queries -> [data : Answer, runs : SUBSET Answer]]
  BY DEF IInv, Shapes
<1>4. /\ query' \in [Queries -> [data : Answer, runs : SUBSET Answer]]
      /\ \A p \in Queries \ {q} : query'[p] = query[p]
      /\ query'[q].data = query[q].data
      /\ query'[q].runs = query[q].runs \cup {Run(q, wallet)}
  BY <1>1, <1>2, <1>3
<1>5. Shapes' /\ Origins' /\ FrozenWhileOpen' /\ (~ overtaken => SessionOfUser' /\ BellOfUser')
  BY <1>1, <1>4 DEF IInv, Shapes, Origins, FrozenWhileOpen, SessionOfUser, BellOfUser, Deserted, page,
                    server, signingIn
<1>6. \A p \in Queries : Depends(p)' = Depends(p) /\ Idle(p)' = Idle(p)
  BY <1>1 DEF Depends, Idle
<1>7. IdleQueries'
  BY <1>1, <1>4, <1>6 DEF IInv, IdleQueries
<1>8. BalanceRuns'
  <2>1. q = "balance" => Run(q, wallet).of = wallet
    BY DEF Run, fetchBalance
  <2>2. QED
    BY <1>1, <1>4, <2>1 DEF IInv, BalanceRuns, Queries
<1>9. ASSUME ~ overtaken
      PROVE  AnswersOfUser'
  <2>1. q # "balance" => user # None
    BY <1>1 DEF Depends, Queries
  <2>2. q # "balance" => Run(q, wallet) \in {None} \/ Run(q, wallet).of = cookie
    BY DEF Run, OfSession
  <2>3. q # "balance" /\ cookie = None => Run(q, wallet) = None
    BY DEF Run, OfSession
  <2>4. user # None => cookie \in {user, None}
    BY <1>9 DEF IInv, SessionOfUser
  <2>5. q # "balance" => Run(q, wallet) \in {None, Lost} \/ Run(q, wallet).of = user
    BY <2>1, <2>2, <2>3, <2>4
  <2>6. {"digest", "xp"} \subseteq Queries \ {"balance"}
    BY DEF Queries
  <2>7. user' = user /\ AnswersOfUser
    BY <1>1, <1>9 DEF IInv
  <2>8. \A p \in {"digest", "xp"} : query'[p].data = query[p].data
    BY <1>4, <2>6
  <2>9. \A p \in {"digest", "xp"} : \A r \in query'[p].runs : r \in {None, Lost} \/ r.of = user
    BY <1>4, <2>5, <2>6, <2>7 DEF AnswersOfUser
  <2>10. QED
    BY <2>7, <2>8, <2>9 DEF AnswersOfUser
<1>10. QED
  BY <1>1, <1>5, <1>7, <1>8, <1>9 DEF IInv

\* An answer to a query arrives or gets lost.
LEMMA AnswerKeeps ==
  ASSUME IInv, NEW q \in Queries, Deliver(q) \/ Drop(q)
  PROVE  IInv'
<1>1. /\ UNCHANGED <<wallet, user, path, bell>>
      /\ UNCHANGED <<page, server, signed, overtaken>>
  BY DEF Deliver, Drop
<1>p. PICK answer \in query[q].runs : \E data :
        \/ data \in Shows(q, answer) /\ query' = [query EXCEPT ![q] = [data |-> data, runs |-> @.runs \ {answer}]]
        \/ data = query[q].data /\ query' = [query EXCEPT ![q].runs = (@ \ {answer}) \cup {Lost}]
  BY DEF Deliver, Drop
<1>2. PICK data :
        \/ data \in Shows(q, answer) /\ query' = [query EXCEPT ![q] = [data |-> data, runs |-> @.runs \ {answer}]]
        \/ data = query[q].data /\ query' = [query EXCEPT ![q].runs = (@ \ {answer}) \cup {Lost}]
  BY <1>p
<1>3. query \in [Queries -> [data : Answer, runs : SUBSET Answer]] /\ Lost \in Answer
  BY DEF IInv, Shapes, Answer
<1>4. data \in Answer
  BY <1>2, <1>3, ShownTyped DEF IInv
<1>5. /\ query' \in [Queries -> [data : Answer, runs : SUBSET Answer]]
      /\ \A p \in Queries \ {q} : query'[p] = query[p]
      /\ query'[q].data = data
      /\ query'[q].runs \subseteq query[q].runs \cup {Lost}
  <2>1. CASE query' = [query EXCEPT ![q] = [data |-> data, runs |-> @.runs \ {answer}]]
    BY <1>3, <1>4, <2>1
  <2>2. CASE /\ data = query[q].data
             /\ query' = [query EXCEPT ![q].runs = (@ \ {answer}) \cup {Lost}]
    BY <1>3, <2>2
  <2>3. QED
    BY <1>2, <2>1, <2>2
<1>6. Shapes' /\ Origins' /\ FrozenWhileOpen' /\ (~ overtaken => SessionOfUser' /\ BellOfUser')
  BY <1>1, <1>5 DEF IInv, Shapes, Origins, FrozenWhileOpen, SessionOfUser, BellOfUser, Deserted, page,
                    server, signingIn
<1>7. \A p \in Queries : Depends(p)' = Depends(p) /\ Idle(p)' = Idle(p)
  BY <1>1 DEF Depends, Idle
<1>8. Depends(q) # None
  <2>1. Depends(q) = None => query[q] = [data |-> Idle(q), runs |-> {}]
    BY DEF IInv, IdleQueries
  <2>2. answer \in query[q].runs
    OBVIOUS
  <2>3. QED
    BY <2>1, <2>2
<1>9. IdleQueries'
  BY <1>5, <1>7, <1>8 DEF IInv, IdleQueries
<1>10. BalanceRuns'
  BY <1>1, <1>5 DEF IInv, BalanceRuns, Queries
<1>11. ASSUME ~ overtaken
       PROVE  AnswersOfUser'
  <2>1. {"digest", "xp"} \subseteq Queries \ {"balance"} /\ user' = user /\ AnswersOfUser
    BY <1>1, <1>11 DEF IInv, Queries
  <2>2. \A p \in {"digest", "xp"} : \A r \in query'[p].runs : r \in {None, Lost} \/ r.of = user
    BY <1>5, <2>1 DEF AnswersOfUser
  <2>3. CASE data = query[q].data \/ data = None
    <3>1. \A p \in {"digest", "xp"} : query'[p].data = query[p].data \/ query'[p].data = None
      BY <1>5, <2>1, <2>3
    <3>2. QED
      BY <2>1, <2>2, <3>1 DEF AnswersOfUser
  <2>4. CASE data \in Shows(q, answer) /\ data # None /\ data # query[q].data
    <3>1. q # "balance" => data = answer /\ answer # Lost
      BY <2>4 DEF Shows, Unanswered, Queries
    <3>2. q # "balance" => data.of = user
      BY <2>1, <2>4, <3>1 DEF AnswersOfUser, Queries
    <3>3. \A p \in {"digest", "xp"} : query'[p].data = query[p].data \/ query'[p].data.of = user
      BY <1>5, <2>1, <3>2
    <3>4. QED
      BY <2>1, <2>2, <3>3 DEF AnswersOfUser
  <2>5. QED
    BY <1>2, <2>3, <2>4
<1>12. QED
  BY <1>1, <1>6, <1>9, <1>10, <1>11 DEF IInv

\* A render keeps the invariant if the user it shows has a session of its own.
LEMMA PageKeepsInvariant ==
  ASSUME IInv, NEW u \in MaybeWallet, NEW w \in MaybeWallet, NEW p \in Paths, Page(u, w, p),
         u \in signed \cup {None},
         UNCHANGED <<cookie, news, signed>>,
         logout' \in {"none", "done", "leaving"}, overtaken' \in BOOLEAN, overtaken => overtaken',
         me' = me \/ me' = None, flow' = flow \/ flow' = NoFlow,
         ~ overtaken' =>
           /\ u = user \/ u = None \/ user = None
           /\ u # None => cookie \in {u, None}
           /\ KeepsPanel(u, w)
           /\ u # None /\ u # user => flow' = NoFlow
  PROVE  IInv'
<1>1. /\ wallet' = w /\ path' = p /\ user' \in {u, None} /\ user' \in MaybeWallet
      /\ bell' \in [open : BOOLEAN, frozen : Answer]
      /\ query' \in [Queries -> [data : Answer, runs : SUBSET Answer]]
      /\ IdleQueries' /\ BalanceRuns' /\ FrozenWhileOpen'
  BY PageKeeps DEF IInv
<1>2. NoFlow \in Flows /\ NoFlow.step = "none"
  BY DEF Flows, NoFlow
<1>3. me' \in [user : MaybeWallet] \cup {None} /\ flow' \in Flows
  BY <1>2 DEF IInv, Shapes
<1>4. Shapes'
  BY <1>1, <1>3 DEF IInv, Shapes
<1>5. Origins'
  BY <1>1, <1>2 DEF IInv, Origins
<1>6. ASSUME ~ overtaken'
      PROVE  SessionOfUser' /\ AnswersOfUser' /\ BellOfUser'
  <2>1. ~ overtaken /\ SessionOfUser
    BY <1>6 DEF IInv
  <2>2. SessionOfUser'
    BY <1>1, <1>2, <1>6, <2>1 DEF SessionOfUser, signingIn
  <2>3. user' # None => cookie \in {user', None}
    BY <1>1, <1>6
  <2>4. user # None => ~ signingIn /\ cookie \in {user, None}
    BY <2>1 DEF SessionOfUser
  <2>5. QED
    BY <1>6, <2>1, <2>2, <2>3, <2>4, PageOfUser
<1>7. QED
  BY <1>1, <1>4, <1>5, <1>6 DEF IInv

\* The answer to /me.
LEMMA RefreshKeeps ==
  ASSUME IInv, refresh
  PROVE  IInv'
<1>1. /\ me # None /\ Page(me.user, wallet, path) /\ me' = None
      /\ overtaken' = 
           (overtaken \/ (me.user # user /\ (user # None \/ signingIn \/ me # getSession)))
      /\ UNCHANGED <<flow, logout, cookie, news, signed>>
  BY DEF refresh, server
<1>2. /\ wallet \in MaybeWallet /\ path \in Paths /\ me.user \in MaybeWallet
      /\ me.user \in signed \cup {None} /\ overtaken \in BOOLEAN /\ logout \in {"none", "done", "leaving"}
  BY <1>1 DEF IInv, Shapes, Origins
<1>3. overtaken' \in BOOLEAN /\ (overtaken => overtaken')
  BY <1>1, <1>2
<1>4. getSession.user = cookie
  BY DEF getSession
<1>5. ASSUME ~ overtaken'
      PROVE  /\ me.user = user \/ me.user = None \/ user = None
             /\ me.user # None => cookie \in {me.user, None}
             /\ KeepsPanel(me.user, wallet)
             /\ me.user # None /\ me.user # user => flow' = NoFlow
  <2>1. ~ overtaken /\ (user # None => cookie \in {user, None})
    BY <1>1, <1>5 DEF IInv, SessionOfUser
  <2>2. \/ me.user = user
        \/ user = None /\ ~ signingIn /\ me.user = cookie
    BY <1>1, <1>4, <1>5
  <2>3. KeepsPanel(me.user, wallet)
    BY <1>1, <2>2 DEF KeepsPanel
  <2>4. QED
    BY <1>1, <2>1, <2>2, <2>3 DEF signingIn
<1>6. QED
  BY <1>1, <1>2, <1>3, <1>5, PageKeepsInvariant

\* The end of the sign-in.
LEMMA SignedInKeeps ==
  ASSUME IInv, SignedIn
  PROVE  IInv'
<1> DEFINE u == IF flow.ok THEN flow.wallet ELSE user
<1>1. /\ flow.step = "verify" /\ Page(u, wallet, path) /\ flow' = NoFlow
      /\ UNCHANGED <<me, logout, cookie, news, signed, overtaken>>
  BY DEF SignedIn, server
<1>2. /\ wallet \in MaybeWallet /\ path \in Paths /\ user \in MaybeWallet
      /\ overtaken \in BOOLEAN /\ logout \in {"none", "done", "leaving"} /\ flow \in Flows
  BY DEF IInv, Shapes
<1>3. flow.wallet \in MaybeWallet
  BY <1>1, <1>2 DEF Flows, NoFlow, MaybeWallet
<1>4. u \in MaybeWallet /\ u \in signed \cup {None}
  BY <1>1, <1>2, <1>3 DEF IInv, Origins
<1>5. NoFlow.step = "none"
  BY DEF NoFlow
<1>6. ASSUME ~ overtaken'
      PROVE  user = None /\ (u # None => cookie \in {u, None})
  <2>1. SessionOfUser
    BY <1>1, <1>6 DEF IInv
  <2>2. QED
    BY <1>1, <1>5, <2>1 DEF SessionOfUser, signingIn
<1>7. ~ overtaken' => KeepsPanel(u, wallet)
  BY <1>1, <1>6 DEF KeepsPanel
<1> HIDE DEF u
<1>8. QED
  BY <1>1, <1>2, <1>4, <1>6, <1>7, PageKeepsInvariant

\* The end of a sign-out, events of the wallet, and navigation.
LEMMA PagesKeep ==
  ASSUME IInv, SignedOut \/ Disconnected \/ WalletEvent \/ Navigate
  PROVE  IInv'
<1>1. PICK u, w \in MaybeWallet, p \in Paths :
        /\ Page(u, w, p)
        /\ u = user \/ (u = None /\ logout' = "leaving")
        /\ w # None /\ logout = "leaving" => logout' = "leaving"
  <2>1. None \in MaybeWallet /\ user \in MaybeWallet /\ wallet \in MaybeWallet /\ path \in Paths
    BY DEF IInv, Shapes, MaybeWallet
  <2>2. CASE SignedOut
    BY <2>1, <2>2 DEF SignedOut
  <2>3. CASE Disconnected
    BY <2>1, <2>3 DEF Disconnected
  <2>4. CASE WalletEvent
    BY <2>1, <2>4 DEF WalletEvent, Untouched, page
  <2>5. CASE Navigate
    BY <2>1, <2>5 DEF Navigate, Untouched, page
  <2>6. QED
    BY <2>2, <2>3, <2>4, <2>5
<1>2. /\ UNCHANGED <<me, flow, cookie, news, signed, overtaken>>
      /\ logout' \in {logout, "none", "leaving"}
  BY DEF SignedOut, Disconnected, WalletEvent, Navigate, Untouched, page, server
<1>3. /\ user \in MaybeWallet /\ overtaken \in BOOLEAN /\ logout \in {"none", "done", "leaving"}
      /\ user \in signed \cup {None}
      /\ ~ overtaken => (user # None => cookie \in {user, None})
  BY DEF IInv, Shapes, Origins, SessionOfUser
<1>4. u \in MaybeWallet /\ u \in signed \cup {None}
  BY <1>1, <1>3 DEF MaybeWallet
<1>5. ~ overtaken' => /\ u = user \/ u = None \/ user = None
                      /\ u # None => cookie \in {u, None}
                      /\ KeepsPanel(u, w)
                      /\ u # None /\ u # user => flow' = NoFlow
  BY <1>1, <1>2, <1>3 DEF KeepsPanel
<1>6. QED
  BY <1>1, <1>2, <1>3, <1>4, <1>5, PageKeepsInvariant

\* A page that has just loaded.
NewPage ==
  /\ wallet \in MaybeWallet /\ cookie \in MaybeWallet /\ path \in Paths
  /\ news \in [Wallets -> Nat] /\ cookie \in signed \cup {None}
  /\ user = None /\ me = getSession /\ flow = NoFlow /\ logout = "none" /\ bell = ClosedBell
  /\ query = [q \in Queries |-> [data |-> Idle(q),
                                runs |-> IF Depends(q) = None THEN {} ELSE {Run(q, wallet)}]]
  /\ overtaken = FALSE

LEMMA FreshPage == NewPage => IInv
<1> SUFFICES ASSUME NewPage
             PROVE  IInv
  OBVIOUS
<1> USE DEF NewPage
<1>1. NoFlow \in Flows /\ NoFlow.step = "none"
  BY DEF NoFlow, Flows
<1>2. ClosedBell \in [open : BOOLEAN, frozen : Answer] /\ ClosedBell.open = FALSE
  BY DEF ClosedBell, Answer
<1>3. getSession \in [user : MaybeWallet] /\ getSession.user = cookie
  BY DEF getSession, MaybeWallet
<1>4. \A q \in Queries : [data |-> Idle(q), runs |-> IF Depends(q) = None THEN {} ELSE {Run(q, wallet)}]
                           \in [data : Answer, runs : SUBSET Answer]
  BY AnswersTyped, IdleTyped
<1>5. query \in [Queries -> [data : Answer, runs : SUBSET Answer]]
  BY <1>4
<1>6. Shapes
  BY <1>1, <1>2, <1>3, <1>5 DEF Shapes, MaybeWallet
<1>7. Origins
  BY <1>1, <1>3 DEF Origins
<1>8. IdleQueries
  BY DEF IdleQueries
<1>9. BalanceRuns /\ FrozenWhileOpen
  BY <1>2 DEF BalanceRuns, FrozenWhileOpen, Run, fetchBalance, Queries
<1>10. SessionOfUser /\ BellOfUser
  BY <1>1, <1>2 DEF SessionOfUser, BellOfUser, signingIn
<1>11. AnswersOfUser
  <2>1. Depends("digest") = None /\ Depends("xp") = None
    BY DEF Depends
  <2>2. /\ query["digest"] = [data |-> Idle("digest"), runs |-> {}]
        /\ query["xp"] = [data |-> Idle("xp"), runs |-> {}]
    BY <2>1 DEF Queries
  <2> HIDE DEF NewPage
  <2>3. Idle("digest") = None /\ Idle("xp") \in {None, Undefined}
    BY DEF Idle
  <2>4. /\ query["digest"].data = Idle("digest") /\ query["xp"].data = Idle("xp")
        /\ query["digest"].runs = {} /\ query["xp"].runs = {}
    BY <2>2
  <2>5. QED
    BY <2>3, <2>4 DEF AnswersOfUser
<1>12. QED
  BY <1>6, <1>7, <1>8, <1>9, <1>10, <1>11 DEF IInv

LEMMA InitEstablishesIInv == Init => IInv
<1> SUFFICES ASSUME Init
             PROVE  IInv
  OBVIOUS
<1>1. /\ wallet \in MaybeWallet /\ cookie \in MaybeWallet /\ path \in Paths
      /\ news \in [Wallets -> Nat] /\ cookie \in signed \cup {None}
  BY ReturningAreWallets DEF Init, MaybeWallet, Paths
<1>2. QED
  BY <1>1, FreshPage DEF Init, NewPage

\* A page load.
LEMMA LoadKeeps ==
  ASSUME IInv, Load
  PROVE  IInv'
<1>1. /\ wallet' \in MaybeWallet /\ cookie' \in MaybeWallet /\ path' \in Paths
      /\ news' \in [Wallets -> Nat] /\ cookie' \in signed' \cup {None}
  BY DEF IInv, Shapes, Origins, Load, server, MaybeWallet
<1>2. user' = None /\ me' = getSession' /\ flow' = NoFlow /\ logout' = "none" /\ bell' = ClosedBell
  BY DEF Load, getSession, server
<1>3. query' = [q \in Queries |-> [data |-> Idle(q)',
                                  runs |-> IF Depends(q)' = None THEN {} ELSE {Run(q, wallet)'}]]
  <2>1. \A q \in Queries : Run(q, wallet)' = Run(q, wallet')
    BY DEF Load, Run, fetchBalance, OfSession, server
  <2>2. QED
    BY <2>1 DEF Load
<1>4. overtaken' = FALSE
  BY DEF Load
<1>5. NewPage'
  BY <1>1, <1>2, <1>3, <1>4 DEF NewPage
<1>6. QED
  BY <1>5, FreshPage, PTL

LEMMA StepKeepsIInv == IInv /\ [Next]_vars => IInv'
<1> SUFFICES ASSUME IInv, [Next]_vars
             PROVE  IInv'
  OBVIOUS
<1>1. CASE UNCHANGED vars
  <2>1. Shapes' /\ Origins' /\ (~ overtaken => SessionOfUser')
    BY <1>1 DEF IInv, Shapes, Origins, SessionOfUser, signingIn, vars
  <2>2. UNCHANGED <<wallet, user, path, query, bell, overtaken>> /\ (Deserted => Deserted')
    BY <1>1 DEF vars, Deserted, page, server
  <2>3. QED
    BY <2>1, <2>2, PageUntouched DEF IInv
<1>2. CASE Load
  BY <1>2, LoadKeeps
<1>3. CASE Answers
  BY <1>3, RefreshKeeps, TalkingKeeps, SignedInKeeps, PagesKeep DEF Answers
<1>4. CASE Clicks
  BY <1>4, TalkingKeeps, ApproveKeeps, ServerKeeps, PagesKeep, PanelKeeps DEF Clicks
<1>5. CASE Faults
  BY <1>5, TalkingKeeps, AnswerKeeps DEF Faults
<1>6. CASE WalletEvent \/ News \/ verifySessionToken
  BY <1>6, PagesKeep, ServerKeeps
<1>7. CASE \E q \in Queries : Poll(q) \/ Deliver(q)
  BY <1>7, PollKeeps, AnswerKeeps
<1>8. QED
  BY <1>1, <1>2, <1>3, <1>4, <1>5, <1>6, <1>7 DEF Next

-----------------------------------------------------------------------------
(***************************************************************************)
(* The theorems.                                                           *)
(***************************************************************************)
\* The inductive invariant holds in every reachable state.
THEOREM OneUserPerPage == Spec => []IInv
<1>1. QED
  BY InitEstablishesIInv, StepKeepsIInv, PTL DEF Spec

\* While nothing asks on behalf of nobody, the profile page shows XP on itself only.
LEMMA ProfileShown ==
  ASSUME IInv, XpProgress = "profile"
  PROVE  path = "profile" /\ xp \notin {None, Undefined}
<1>1. user # None /\ xp # Undefined /\ xp # None
  BY DEF XpProgress
<1>2. ASSUME path # "profile"
      PROVE  FALSE
  <2>1. Depends("xp") = None /\ Idle("xp") = Undefined
    BY <1>2 DEF Depends, Idle
  <2>2. query["xp"] = [data |-> Idle("xp"), runs |-> {}]
    BY <2>1 DEF IInv, IdleQueries, Queries
  <2>3. QED
    BY <1>1, <2>1, <2>2 DEF xp
<1>3. QED
  BY <1>1, <1>2

\* The bell hides without a digest, so a panel that outlives its user is not seen.
LEMMA DesertedShowsNothing ==
  ASSUME IInv, Deserted
  PROVE  digest = None
<1>1. Depends("digest") = None /\ Idle("digest") = None
  BY DEF Deserted, Depends, Idle
<1>2. query["digest"] = [data |-> Idle("digest"), runs |-> {}]
  BY <1>1 DEF IInv, IdleQueries, Queries
<1>3. QED
  BY <1>1, <1>2 DEF digest

\* The user on the page has signed in, and bell and profile page show what belongs to
\* that user (useLiveQuery.ts, AuthProvider.tsx), for every wallet and whatever comes late.
THEOREM PageIsOfItsUser == Spec => []Inv
<1>1. IInv => Inv
  <2> SUFFICES ASSUME IInv
               PROVE  Inv
    OBVIOUS
  <2>1. TypeOK
    <3>1. flow.step \in {"none", "challenge", "prompt", "verify"}
      BY DEF IInv, Shapes, Flows, NoFlow
    <3>2. \A q \in Queries : query[q].data \in Answer /\ query[q].runs \subseteq Answer
      BY DEF IInv, Shapes
    <3>3. QED
      BY <3>1, <3>2 DEF IInv, Shapes, TypeOK
  <2>2. user \in signed \cup {None}
    BY DEF IInv, Origins
  <2>3. ASSUME ~ overtaken
        PROVE  /\ digest # None => digest.of = user
               /\ PanelVisible => Shown.of = user
               /\ XpProgress = "profile" => path = "profile" /\ xp.of = user
    <3>1. AnswersOfUser /\ BellOfUser /\ FrozenWhileOpen
      BY <2>3 DEF IInv
    <3>2. digest # None => digest.of = user
      BY <3>1 DEF AnswersOfUser, digest
    <3>3. PanelVisible => Shown.of = user
      BY <3>1, DesertedShowsNothing DEF BellOfUser, FrozenWhileOpen, PanelVisible, Shown
    <3>4. XpProgress = "profile" => path = "profile" /\ xp.of = user
      BY <3>1, ProfileShown DEF AnswersOfUser, xp
    <3>5. QED
      BY <3>2, <3>3, <3>4
  <2>4. QED
    BY <2>1, <2>2, <2>3 DEF Inv, ShownIsOfTheUser
<1>2. QED
  BY <1>1, OneUserPerPage, PTL

\* While it stays open, the panel lists what it listed when it opened.
LEMMA PanelStep ==
  ASSUME IInv, [Next]_vars, PanelVisible, PanelVisible'
  PROVE  Shown' = Shown
<1>1. bell.open /\ bell'.open /\ bell.frozen # None
  BY DEF PanelVisible, IInv, FrozenWhileOpen
<1>2. bell \in [open : BOOLEAN, frozen : Answer]
  BY DEF IInv, Shapes
<1>3. ASSUME NEW u, NEW w, NEW p, Page(u, w, p)
      PROVE  bell' = bell
  <2>1. BellOf(w) = bell \/ BellOf(w) = ClosedBell
    BY DEF BellOf
  <2>2. ~ [bell EXCEPT !.open = FALSE].open /\ ~ [ClosedBell EXCEPT !.open = FALSE].open
    BY <1>2 DEF ClosedBell
  <2>3. ~ ClosedBell.open
    BY DEF ClosedBell
  <2>4. bell' = BellOf(w) \/ bell' = [BellOf(w) EXCEPT !.open = FALSE]
    BY <1>3 DEF Page
  <2>5. QED
    BY <1>1, <2>1, <2>2, <2>3, <2>4
<1>4. bell' = bell
  <2>1. CASE Load
    BY <1>1, <2>1 DEF Load, ClosedBell
  <2>2. CASE refresh \/ SignedIn \/ SignedOut \/ Disconnected \/ WalletEvent \/ Navigate
    BY <1>3, <2>2 DEF refresh, SignedIn, SignedOut, Disconnected, WalletEvent, Navigate
  <2>3. CASE toggle \/ Dismiss
    <3>1. bell' = [bell EXCEPT !.open = FALSE]
      BY <1>1, <2>3 DEF toggle, Dismiss
    <3>2. QED
      BY <1>1, <1>2, <3>1
  <2>4. CASE UNCHANGED vars
    BY <2>4 DEF vars
  <2>5. CASE signIn \/ Approve \/ Reject \/ signOut \/ Challenged \/ LoseMe \/ LoseSignIn
             \/ News \/ verifySessionToken
    BY <2>5 DEF signIn, Approve, Reject, signOut, Challenged, LoseMe, LoseSignIn, News,
                verifySessionToken
  <2>6. CASE \E q \in Queries : Poll(q) \/ Deliver(q) \/ Drop(q)
    BY <2>6 DEF Poll, Deliver, Drop
  <2>7. QED
    BY <2>1, <2>2, <2>3, <2>4, <2>5, <2>6 DEF Next, Answers, Clicks, Faults
<1>5. QED
  BY <1>1, <1>4 DEF Shown

\* A render brings no new balance; only an answer of the connected wallet's does.
LEMMA BalanceStep ==
  ASSUME IInv, [Next]_vars,
         query["balance"].data' \notin {query["balance"].data, None}
  PROVE  query["balance"].data'.of = wallet
<1> DEFINE b == "balance"
<1>1. b \in Queries /\ Idle(b)' = None
  BY DEF Queries, Idle
<1>2. query \in [Queries -> [data : Answer, runs : SUBSET Answer]]
  BY DEF IInv, Shapes
<1>3. ~ Rerun
  <2>1. ASSUME Rerun
        PROVE  query'[b].data \in {query[b].data, None}
    <3>1. \/ query'[b] = query[b] /\ Depends(b)' = Depends(b) /\ Idle(b)' = Idle(b)
          \/ Depends(b)' = None /\ query'[b] = [data |-> Idle(b)', runs |-> {}]
          \/ Depends(b)' # None /\ query'[b] = [data |-> query[b].data, runs |-> {Run(b, wallet')}]
      BY <1>1, <2>1, RerunCases
    <3>2. QED
      BY <1>1, <3>1
  <2>2. QED
    BY <2>1
<1>4. \A u, w, p : ~ Page(u, w, p)
  BY <1>3 DEF Page
<1>5. ~ Load
  <2>1. ASSUME Load
        PROVE  query'[b].data = None
    BY <1>1, <2>1 DEF Load
  <2>2. QED
    BY <2>1
<1>6. query' # query
  OBVIOUS
<1>7. PICK q \in Queries : Poll(q) \/ Deliver(q) \/ Drop(q)
  BY <1>4, <1>5, <1>6
  DEF Next, Answers, Clicks, Faults, vars, refresh, SignedIn, SignedOut, Disconnected, WalletEvent, Navigate,
      toggle, Dismiss, signIn, Approve, Reject, signOut, Challenged, LoseMe, LoseSignIn, News,
      verifySessionToken
<1>8. CASE Poll(q) \/ Drop(q)
  <2>1. query'[b].data = query[b].data
    BY <1>1, <1>2, <1>8 DEF Poll, Drop
  <2>2. QED
    BY <2>1
<1>9. CASE Deliver(q)
  <2>1. PICK answer \in query[q].runs : \E data \in Shows(q, answer) :
          query' = [query EXCEPT ![q] = [data |-> data, runs |-> @.runs \ {answer}]]
    BY <1>9 DEF Deliver
  <2>2. PICK data \in Shows(q, answer) :
          query' = [query EXCEPT ![q] = [data |-> data, runs |-> @.runs \ {answer}]]
    BY <2>1
  <2>3. q = b /\ query'[b].data = data
    <3>1. q # b => query'[b] = query[b]
      BY <1>1, <1>2, <2>2
    <3>2. q = b => query'[b].data = data
      BY <1>1, <1>2, <2>2
    <3>3. QED
      BY <3>1, <3>2
  <2>4. data.of = wallet
    <3>1. CASE answer = Lost
      BY <2>3, <3>1 DEF Shows, Unanswered
    <3>2. CASE answer # Lost
      BY <2>3, <3>2 DEF Shows, IInv, BalanceRuns
    <3>3. QED
      BY <3>1, <3>2
  <2>5. QED
    BY <2>3, <2>4
<1>10. QED
  BY <1>7, <1>8, <1>9

\* NotificationBell.tsx freezes what it lists, and useWalletBalances.ts cancels what it asked
\* for another wallet: what is on display changes with what it shows only.
THEOREM WhatIsShownHolds == Spec => DisplayHolds
<1>1. IInv /\ [Next]_vars => [PanelVisible /\ PanelVisible' => Shown' = Shown]_vars
  BY PanelStep
<1>2. IInv /\ [Next]_vars => [query["balance"].data' \notin {query["balance"].data, None}
                                 => query["balance"].data'.of = wallet]_vars
  BY BalanceStep
<1>3. QED
  BY <1>1, <1>2, OneUserPerPage, PTL DEF Spec, DisplayHolds, PanelHoldsStill, BalanceOfTheWallet

-----------------------------------------------------------------------------
(***************************************************************************)
(* The sign-in implements Session.                                         *)
(***************************************************************************)
LEMMA InitImplementsSession == Init => S!Init
BY DEF Init, S!Init

\* The wallet's signature starts a session of its own or nothing.
LEMMA ApproveIsSign ==
  ASSUME IInv, Approve
  PROVE  \E a \in Wallets : S!Sign(a)
<1>1. flow.step = "prompt" /\ signed' = signed \cup {flow.signer}
  BY DEF Approve
<1>2. flow.signer \in Wallets
  BY <1>1 DEF IInv, Shapes, Flows, NoFlow
<1>3. cookie' \in {flow.signer, cookie}
  BY DEF Approve, Verified, verifySignature
<1>4. QED
  BY <1>1, <1>2, <1>3 DEF S!Sign

LEMMA StepImplementsSession == IInv /\ [Next]_vars => [S!Next]_(S!vars)
<1> SUFFICES ASSUME IInv, [Next]_vars
             PROVE  S!Next \/ UNCHANGED <<cookie, signed>>
  BY DEF S!vars
<1>1. CASE Approve
  BY <1>1, ApproveIsSign DEF S!Next
<1>2. CASE signOut \/ verifySessionToken
  BY <1>2 DEF signOut, verifySessionToken, S!Next, S!End
<1>3. CASE UNCHANGED <<cookie, signed>>
  BY <1>3
<1>4. QED
  BY <1>1, <1>2, <1>3
  DEF Next, Answers, Clicks, Faults, vars, server, refresh, SignedIn, SignedOut, Disconnected, WalletEvent, Navigate,
      Untouched, Load, toggle, Dismiss, signIn, Reject, Challenged, LoseMe, LoseSignIn, News, Poll,
      Deliver, Drop

\* api/auth/verify/route.ts and session.ts: a session belongs to the account whose signature
\* started it, however the account is switched during the sign-in.
THEOREM SignInImplementsSession == Spec => SessionSpec
<1>1. QED
  BY InitImplementsSession, StepImplementsSession, OneUserPerPage, PTL DEF Spec, SessionSpec, S!Spec

-----------------------------------------------------------------------------
(***************************************************************************)
(* ExploreMaps: the invariant, one part for each thing a tab holds.        *)
(***************************************************************************)
MapTabs == {"none", "apps", "tags", "group"}
MapFields ==
  {"tab", "key", "loading", "source", "empty", "nodes", "sizeKey", "sortedBy", "selectedId",
   "focus", "camera", "sim"}
IsMap(m) == DOMAIN m = MapFields
Drawable == Apps \cup SampleApps \cup Tags \cup SampleTags

\* The page's address and what the filters hold.
Timers == [field : Fields, value : Values, params : Addresses, mounted : BOOLEAN]
FiltersSound(u, nv, rs, ts, opts, req) ==
  /\ u \in Addresses /\ nv \in Addresses \cup {Null}
  /\ rs \in [Fields -> Values] /\ ts \subseteq Timers
  /\ opts \subseteq Tags /\ req \in Labels \cup {Null}
  /\ req # Null => TabOf(u) = "tags"

\* A request for related apps that counts is about the selection there is.
ListSound(sel, rel, requests) ==
  /\ rel # Null => sel # Null /\ rel \in {fetchRelatedApps(sel), {}}
  /\ \A r \in requests : DOMAIN r = {"of", "live"}
  /\ \A r \in requests : r.live => sel # Null /\ r.of = sel

\* The simulation draws the nodes of its map, in the size chosen.
Simulates(m) ==
  /\ m.tab \in {"apps", "tags"}
  /\ DOMAIN m.sim = {"nodes", "sizeKey", "selected"}
  /\ m.sim.nodes = m.nodes /\ m.sim.selected \in m.nodes \cup {Null}
  /\ m.sim.sizeKey = m.sizeKey

\* What a map holds, for the filters as they are.
ShapeSound(m, t, tags, rs) ==
  /\ IsMap(m) /\ m.tab = t /\ t \in MapTabs
  /\ m.nodes \subseteq Drawable
  /\ t # "none" => m.key = FetchUrl(t, tags, rs)
  /\ t # "none" /\ ~m.loading => m.nodes \in {Served(t, m.key), Fallback(t, m.key)}
  /\ t = "group" => m.nodes \subseteq Apps \cup SampleApps
  /\ t = "group" /\ m.source # "live" => m.nodes = SampleApps
  /\ m.sim # Null => Simulates(m)

\* A request that counts is the map's latest; there is no simulation until it is answered.
FetchesSound(m, requests) ==
  /\ \A f \in requests : DOMAIN f = {"tab", "key", "live"}
  /\ \A f \in requests : f.live => m.tab # "none" /\ f = Ask(m.tab, m.key) /\ m.sim = Null

\* A pointer held on a graph is on one of its nodes or beside them, and nothing new is on
\* its way there.
PressSound(m, requests, p) ==
  p # Null =>
    /\ DOMAIN p = {"on", "moved"}
    /\ m.tab \in {"apps", "tags"} =>
         p.on \in m.nodes \cup {Null} /\ \A f \in requests : ~f.live

\* The camera, the circle chosen and the list agree with the tree that is drawn.
TreeSound(m, tags, sel) ==
  m.tab = "group" =>
    /\ {m.selectedId, m.focus} \subseteq Leaves(m, tags) \cup Circles(m, tags) \cup {Null}
    /\ sel # Null => sel = selectionFor(m, tags, m.selectedId)
    /\ m.focus # Null => m.camera = m.focus

OfTab(sel, t) == sel # Null => t # "none" /\ (sel.kind = "tag" <=> t = "tags")

MapsSound ==
  /\ FiltersSound(url, nav, ranges, timers, options, request)
  /\ ListSound(selection, related, relatedFetches)
  /\ ShapeSound(map, tab, url.tags, ranges)
  /\ FetchesSound(map, fetches) /\ PressSound(map, fetches, press)
  /\ TreeSound(map, url.tags, selection) /\ OfTab(selection, tab)

-----------------------------------------------------------------------------
(* Records: what an update of one field leaves of the others.              *)

LEMMA Put_key ==
  ASSUME NEW m, IsMap(m), NEW v, NEW r, r = [m EXCEPT !.key = v]
  PROVE  /\ IsMap(r) /\ r.key = v
         /\ r.tab = m.tab /\ r.loading = m.loading /\ r.source = m.source
         /\ r.empty = m.empty /\ r.nodes = m.nodes /\ r.sizeKey = m.sizeKey
         /\ r.sortedBy = m.sortedBy /\ r.selectedId = m.selectedId /\ r.focus = m.focus
         /\ r.camera = m.camera /\ r.sim = m.sim
  BY DEF IsMap, MapFields

LEMMA Put_loading ==
  ASSUME NEW m, IsMap(m), NEW v, NEW r, r = [m EXCEPT !.loading = v]
  PROVE  /\ IsMap(r) /\ r.loading = v
         /\ r.tab = m.tab /\ r.key = m.key /\ r.source = m.source
         /\ r.empty = m.empty /\ r.nodes = m.nodes /\ r.sizeKey = m.sizeKey
         /\ r.sortedBy = m.sortedBy /\ r.selectedId = m.selectedId /\ r.focus = m.focus
         /\ r.camera = m.camera /\ r.sim = m.sim
  BY DEF IsMap, MapFields

LEMMA Put_source ==
  ASSUME NEW m, IsMap(m), NEW v, NEW r, r = [m EXCEPT !.source = v]
  PROVE  /\ IsMap(r) /\ r.source = v
         /\ r.tab = m.tab /\ r.key = m.key /\ r.loading = m.loading
         /\ r.empty = m.empty /\ r.nodes = m.nodes /\ r.sizeKey = m.sizeKey
         /\ r.sortedBy = m.sortedBy /\ r.selectedId = m.selectedId /\ r.focus = m.focus
         /\ r.camera = m.camera /\ r.sim = m.sim
  BY DEF IsMap, MapFields

LEMMA Put_empty ==
  ASSUME NEW m, IsMap(m), NEW v, NEW r, r = [m EXCEPT !.empty = v]
  PROVE  /\ IsMap(r) /\ r.empty = v
         /\ r.tab = m.tab /\ r.key = m.key /\ r.loading = m.loading
         /\ r.source = m.source /\ r.nodes = m.nodes /\ r.sizeKey = m.sizeKey
         /\ r.sortedBy = m.sortedBy /\ r.selectedId = m.selectedId /\ r.focus = m.focus
         /\ r.camera = m.camera /\ r.sim = m.sim
  BY DEF IsMap, MapFields

LEMMA Put_nodes ==
  ASSUME NEW m, IsMap(m), NEW v, NEW r, r = [m EXCEPT !.nodes = v]
  PROVE  /\ IsMap(r) /\ r.nodes = v
         /\ r.tab = m.tab /\ r.key = m.key /\ r.loading = m.loading
         /\ r.source = m.source /\ r.empty = m.empty /\ r.sizeKey = m.sizeKey
         /\ r.sortedBy = m.sortedBy /\ r.selectedId = m.selectedId /\ r.focus = m.focus
         /\ r.camera = m.camera /\ r.sim = m.sim
  BY DEF IsMap, MapFields

LEMMA Put_sizeKey ==
  ASSUME NEW m, IsMap(m), NEW v, NEW r, r = [m EXCEPT !.sizeKey = v]
  PROVE  /\ IsMap(r) /\ r.sizeKey = v
         /\ r.tab = m.tab /\ r.key = m.key /\ r.loading = m.loading
         /\ r.source = m.source /\ r.empty = m.empty /\ r.nodes = m.nodes
         /\ r.sortedBy = m.sortedBy /\ r.selectedId = m.selectedId /\ r.focus = m.focus
         /\ r.camera = m.camera /\ r.sim = m.sim
  BY DEF IsMap, MapFields

LEMMA Put_sortedBy ==
  ASSUME NEW m, IsMap(m), NEW v, NEW r, r = [m EXCEPT !.sortedBy = v]
  PROVE  /\ IsMap(r) /\ r.sortedBy = v
         /\ r.tab = m.tab /\ r.key = m.key /\ r.loading = m.loading
         /\ r.source = m.source /\ r.empty = m.empty /\ r.nodes = m.nodes
         /\ r.sizeKey = m.sizeKey /\ r.selectedId = m.selectedId /\ r.focus = m.focus
         /\ r.camera = m.camera /\ r.sim = m.sim
  BY DEF IsMap, MapFields

LEMMA Put_selectedId ==
  ASSUME NEW m, IsMap(m), NEW v, NEW r, r = [m EXCEPT !.selectedId = v]
  PROVE  /\ IsMap(r) /\ r.selectedId = v
         /\ r.tab = m.tab /\ r.key = m.key /\ r.loading = m.loading
         /\ r.source = m.source /\ r.empty = m.empty /\ r.nodes = m.nodes
         /\ r.sizeKey = m.sizeKey /\ r.sortedBy = m.sortedBy /\ r.focus = m.focus
         /\ r.camera = m.camera /\ r.sim = m.sim
  BY DEF IsMap, MapFields

LEMMA Put_focus ==
  ASSUME NEW m, IsMap(m), NEW v, NEW r, r = [m EXCEPT !.focus = v]
  PROVE  /\ IsMap(r) /\ r.focus = v
         /\ r.tab = m.tab /\ r.key = m.key /\ r.loading = m.loading
         /\ r.source = m.source /\ r.empty = m.empty /\ r.nodes = m.nodes
         /\ r.sizeKey = m.sizeKey /\ r.sortedBy = m.sortedBy /\ r.selectedId = m.selectedId
         /\ r.camera = m.camera /\ r.sim = m.sim
  BY DEF IsMap, MapFields

LEMMA Put_camera ==
  ASSUME NEW m, IsMap(m), NEW v, NEW r, r = [m EXCEPT !.camera = v]
  PROVE  /\ IsMap(r) /\ r.camera = v
         /\ r.tab = m.tab /\ r.key = m.key /\ r.loading = m.loading
         /\ r.source = m.source /\ r.empty = m.empty /\ r.nodes = m.nodes
         /\ r.sizeKey = m.sizeKey /\ r.sortedBy = m.sortedBy /\ r.selectedId = m.selectedId
         /\ r.focus = m.focus /\ r.sim = m.sim
  BY DEF IsMap, MapFields

LEMMA Put_sim ==
  ASSUME NEW m, IsMap(m), NEW v, NEW r, r = [m EXCEPT !.sim = v]
  PROVE  /\ IsMap(r) /\ r.sim = v
         /\ r.tab = m.tab /\ r.key = m.key /\ r.loading = m.loading
         /\ r.source = m.source /\ r.empty = m.empty /\ r.nodes = m.nodes
         /\ r.sizeKey = m.sizeKey /\ r.sortedBy = m.sortedBy /\ r.selectedId = m.selectedId
         /\ r.focus = m.focus /\ r.camera = m.camera
  BY DEF IsMap, MapFields

LEMMA FreshIsMap ==
  ASSUME NEW t, NEW key
  PROVE  /\ IsMap(Fresh(t, key)) /\ Fresh(t, key).tab = t /\ Fresh(t, key).key = key
         /\ Fresh(t, key).nodes = Fallback(t, key) /\ Fresh(t, key).loading
         /\ Fresh(t, key).source = "sample" /\ Fresh(t, key).selectedId = Null
         /\ Fresh(t, key).focus = Null /\ Fresh(t, key).camera = Null /\ Fresh(t, key).sim = Null
  BY DEF Fresh, IsMap, MapFields

-----------------------------------------------------------------------------
(* The list below the map.                                                 *)

LEMMA OvertakenKeep ==
  ASSUME NEW requests, NEW F, "live" \in F, \A r \in requests : DOMAIN r = F
  PROVE  \A r \in Overtaken(requests) : DOMAIN r = F /\ r.live = FALSE
<1> SUFFICES ASSUME NEW r \in Overtaken(requests) PROVE DOMAIN r = F /\ r.live = FALSE
  OBVIOUS
<1>1. PICK q \in requests : r = [q EXCEPT !.live = FALSE]
  BY DEF Overtaken
<1>2. DOMAIN q = F
  OBVIOUS
<1>3. QED
  BY <1>1, <1>2

\* A new selection awaits its own list, and only that.
LEMMA SelectKeeps ==
  ASSUME ListSound(selection, related, relatedFetches), NEW sel, Select(sel)
  PROVE  ListSound(selection', related', relatedFetches') /\ selection' = sel
<1> DEFINE new == IF sel = Null THEN {} ELSE {[of |-> sel, live |-> TRUE]}
<1>1. /\ selection' = sel /\ related' = Null
      /\ relatedFetches' = Overtaken(relatedFetches) \cup new
  BY DEF Select
<1>2. \A r \in Overtaken(relatedFetches) : DOMAIN r = {"of", "live"} /\ r.live = FALSE
  BY OvertakenKeep DEF ListSound
<1>3. \A r \in new : DOMAIN r = {"of", "live"} /\ sel # Null /\ r.of = sel
  OBVIOUS
<1> HIDE DEF new
<1>4. \A r \in relatedFetches' : DOMAIN r = {"of", "live"}
  BY <1>1, <1>2, <1>3
<1>5. \A r \in relatedFetches' : r.live => selection' # Null /\ r.of = selection'
  BY <1>1, <1>2, <1>3
<1>6. QED
  BY <1>1, <1>4, <1>5 DEF ListSound

\* An answer is listed only for the selection it was asked for.
LEMMA AnswerRelatedKeeps ==
  ASSUME MapsSound, NEW r, AnswerRelated(r)
  PROVE  MapsSound'
<1>1. /\ ListSound(selection, related, relatedFetches)
      /\ r \in relatedFetches /\ relatedFetches' = relatedFetches \ {r}
      /\ related' \in {fetchRelatedApps(r.of), {}, related} /\ (~r.live => related' = related)
      /\ UNCHANGED <<filterVars, mapVars, request, selection>>
  BY DEF AnswerRelated, MapsSound
<1>2. r.live => selection # Null /\ r.of = selection
  BY <1>1 DEF ListSound
<1>3. related' # Null => selection # Null /\ related' \in {fetchRelatedApps(selection), {}}
  <2>1. CASE related' = related
    BY <1>1, <2>1 DEF ListSound
  <2>2. CASE r.live
    BY <1>1, <1>2, <2>2 DEF ListSound
  <2>3. QED
    BY <1>1, <2>1, <2>2
<1>4. ListSound(selection', related', relatedFetches')
  BY <1>1, <1>3 DEF ListSound
<1>5. QED
  BY <1>1, <1>4 DEF MapsSound, filterVars, mapVars, tab

\* The parts that hold by what is left alone.
LEMMA FiltersUnchanged ==
  ASSUME MapsSound, UNCHANGED <<filterVars, request>>
  PROVE  /\ FiltersSound(url', nav', ranges', timers', options', request')
         /\ tab' = tab /\ url' = url /\ ranges' = ranges
  BY DEF MapsSound, filterVars, tab

\* With no selection, the parts about it are sound.
LEMMA Deselected ==
  ASSUME MapsSound, Select(Null)
  PROVE  /\ ListSound(selection', related', relatedFetches')
         /\ selection' = Null /\ \A t : OfTab(selection', t)
  BY SelectKeeps DEF MapsSound, OfTab

LEMMA ClearSelectionKeeps ==
  ASSUME MapsSound, ClearSelection
  PROVE  MapsSound'
<1>1. Select(Null) /\ UNCHANGED <<filterVars, mapVars, request>>
  BY DEF ClearSelection
<1>2. /\ ShapeSound(map', tab', url'.tags, ranges') /\ FetchesSound(map', fetches')
      /\ PressSound(map', fetches', press')
  BY <1>1 DEF MapsSound, filterVars, mapVars, tab
<1>3. TreeSound(map', url'.tags, selection')
  BY <1>1, Deselected DEF MapsSound, filterVars, mapVars, TreeSound
<1>4. QED
  BY <1>1, <1>2, <1>3, Deselected, FiltersUnchanged DEF MapsSound

\* What is selected on a graph, or on the circles, is of the tab it is on.
LEMMA SelectionIsOfTab ==
  ASSUME NEW t \in MapTabs \ {"none"}, NEW n, NEW neighbors
  PROVE  OfTab(MapSelection(t, n, neighbors), t)
  BY DEF OfTab, MapSelection, MapTabs

-----------------------------------------------------------------------------
(* The tree of the circles.                                                *)

LEMMA SelectedTags ==
  ASSUME NEW D, NEW s \in Seq(D), NEW K, K \subseteq DOMAIN s
  PROVE  /\ Keep(s, K) \in Seq(D)
         /\ K # {} => Len(Keep(s, K)) # 0
<1>1. Keep(s, K) \in Seq(D)
  BY KeepIsList
<1>2. ASSUME K # {}, Len(Keep(s, K)) = 0
      PROVE  FALSE
  <2> DEFINE N == Len(s)
  <2>1. N \in Nat /\ DOMAIN s = 1..N
    BY LenProperties
  <2>2. DOMAIN Keep(s, K) = 1..0
    BY <1>1, <1>2, LenProperties
  <2> HIDE DEF N
  <2>3. DOMAIN Keep(s, K) = 1..Cardinality(K)
    BY <2>1, KeepIsInOrder
  <2>4. IsFiniteSet(K)
    BY <2>1, FS_Interval, FS_Subset
  <2>5. Cardinality(K) \in Nat /\ Cardinality(K) # 0
    BY <1>2, <2>4, FS_CardinalityType, FS_EmptySet
  <2>6. 1 \in 1..Cardinality(K)
    BY <2>5
  <2>7. QED
    BY <2>2, <2>3, <2>6
<1>3. QED
  BY <1>1, <1>2

\* A path has a circle at least, and names labels.
LEMMA PathParts ==
  ASSUME NEW a \in Apps \cup SampleApps
  PROVE  PathOf(a) \in Seq(Labels) /\ Len(PathOf(a)) \in Nat \ {0}
<1> DEFINE K == {i \in DOMAIN TagOrder : TagOrder[i] \in TagsOf[a]}
<1>1. CASE TagsOf[a] = {}
  <2>1. PathOf(a) = <<Untagged>>
    BY <1>1 DEF PathOf
  <2>2. QED
    BY <2>1 DEF Labels
<1>2. CASE TagsOf[a] # {}
  <2>1. PathOf(a) = Keep(TagOrder, K) /\ K \subseteq DOMAIN TagOrder
    BY <1>2 DEF PathOf
  <2>2. TagOrder \in Seq(Labels)
    BY MapData, SeqMonotonic DEF Labels
  <2>3. K # {}
    BY <1>2, MapData DEF Listed
  <2> HIDE DEF K
  <2>4. Keep(TagOrder, K) \in Seq(Labels) /\ Len(Keep(TagOrder, K)) # 0
    BY <2>1, <2>2, <2>3, SelectedTags
  <2>5. QED
    BY <2>1, <2>4, LenProperties
<1>3. QED
  BY <1>1, <1>2

\* A leaf drawn, and the circle around it.
LEMMA LeafParts ==
  ASSUME NEW m, m.nodes \subseteq Apps \cup SampleApps, NEW tags, NEW n \in Leaves(m, tags)
  PROVE  Parent(n) \in Circles(m, tags)
<1>1. PICK a \in filteredApps(m, tags) : n = Leaf(a)
  BY DEF Leaves
<1>2. a \in Apps \cup SampleApps
  BY DEF filteredApps
<1> DEFINE p == PathOf(a)
           N == Len(p)
           D == Labels \cup {a}
<1>3. p \in Seq(D) /\ N \in Nat \ {0} /\ a \in D
  <2>1. p \in Seq(Labels) /\ N \in Nat \ {0}
    BY <1>2, PathParts
  <2> HIDE DEF p
  <2>2. QED
    BY <2>1, SeqMonotonic
<1>4. n = Append(p, a)
  BY <1>1 DEF Leaf
<1>5. DOMAIN p = 1..N
  BY <1>3, LenProperties
<1> HIDE DEF p, D
<1>6. Len(n) = N + 1 /\ SubSeq(n, 1, N) = p
  <2>1. Append(p, a) \in Seq(D) /\ Len(Append(p, a)) = N + 1
        /\ \A i \in 1..N : Append(p, a)[i] = p[i]
    BY <1>3, AppendProperties
  <2>2. 1..N \subseteq DOMAIN p /\ DOMAIN SubSeq(Append(p, a), 1, N) = 1..N
        /\ SubSeq(Append(p, a), 1, N) = [i \in 1..N |-> Append(p, a)[i]]
    BY <1>3, <1>5, <2>1
  <2>3. p = [i \in 1..N |-> p[i]]
    BY <1>3, <1>5, IsASeq
  <2>4. QED
    BY <1>4, <2>1, <2>2, <2>3
<1>7. SubSeq(p, 1, N) = p
  BY <1>3, SubSeqFull
<1> HIDE DEF N
<1>8. (N + 1) - 1 = N /\ N \in 1..N
  BY <1>3
<1>9. Parent(n) = SubSeq(p, 1, N)
  BY <1>6, <1>7, <1>8 DEF Parent
<1>10. SubSeq(p, 1, N) \in {SubSeq(PathOf(a), 1, i) : i \in DOMAIN PathOf(a)}
  BY <1>5, <1>8 DEF p
<1>11. QED
  BY <1>1, <1>9, <1>10 DEF Circles

\* What the tree is drawn from; the rest of the map does not matter to it.
LEMMA TreeOfNodes ==
  ASSUME NEW m, NEW r, r.nodes = m.nodes, NEW tags
  PROVE  /\ Leaves(r, tags) = Leaves(m, tags) /\ Circles(r, tags) = Circles(m, tags)
         /\ \A n : selectionFor(r, tags, n) = selectionFor(m, tags, n)
<1>1. filteredApps(r, tags) = filteredApps(m, tags)
  BY DEF filteredApps
<1>2. QED
  BY <1>1 DEF Leaves, Circles, selectionFor

\* Looking elsewhere in the tree changes no more than the view.
SameData(m, r) ==
  /\ IsMap(r) /\ r.tab = m.tab /\ r.key = m.key /\ r.loading = m.loading /\ r.source = m.source
  /\ r.nodes = m.nodes /\ r.sim = m.sim /\ r.sizeKey = m.sizeKey

LEMMA ZoomParts ==
  ASSUME NEW m, IsMap(m), NEW n
  PROVE  /\ SameData(m, zoomToNode(m, n))
         /\ zoomToNode(m, n).focus = n /\ zoomToNode(m, n).camera = n
         /\ zoomToNode(m, n).selectedId = m.selectedId
<1> DEFINE f == [m EXCEPT !.focus = n]
           r == [f EXCEPT !.camera = n]
<1>1. zoomToNode(m, n) = r
  BY DEF zoomToNode, IsMap, MapFields
<1>2. /\ IsMap(f) /\ f.focus = n /\ f.tab = m.tab /\ f.key = m.key /\ f.loading = m.loading
      /\ f.source = m.source /\ f.nodes = m.nodes /\ f.sim = m.sim /\ f.sizeKey = m.sizeKey
      /\ f.selectedId = m.selectedId
  BY Put_focus
<1> HIDE DEF f
<1>3. /\ IsMap(r) /\ r.camera = n /\ r.focus = f.focus /\ r.tab = f.tab /\ r.key = f.key
      /\ r.loading = f.loading /\ r.source = f.source /\ r.nodes = f.nodes /\ r.sim = f.sim
      /\ r.sizeKey = f.sizeKey /\ r.selectedId = f.selectedId
  BY <1>2, Put_camera
<1> HIDE DEF r
<1>4. QED
  BY <1>1, <1>2, <1>3 DEF SameData

LEMMA ChosenParts ==
  ASSUME NEW m, IsMap(m), NEW n, NEW id
  PROVE  LET r == [zoomToNode(m, n) EXCEPT !.selectedId = id]
         IN SameData(m, r) /\ r.focus = n /\ r.camera = n /\ r.selectedId = id
<1> DEFINE z == zoomToNode(m, n)
           r == [z EXCEPT !.selectedId = id]
<1>1. SameData(m, z) /\ z.focus = n /\ z.camera = n
  BY ZoomParts
<1> HIDE DEF z
<1>2. /\ IsMap(r) /\ r.selectedId = id /\ r.camera = z.camera /\ r.focus = z.focus
      /\ r.tab = z.tab /\ r.key = z.key /\ r.loading = z.loading /\ r.source = z.source
      /\ r.nodes = z.nodes /\ r.sim = z.sim /\ r.sizeKey = z.sizeKey
  BY <1>1, Put_selectedId DEF SameData
<1> HIDE DEF r
<1>3. SameData(m, r) /\ r.focus = n /\ r.camera = n /\ r.selectedId = id
  BY <1>1, <1>2 DEF SameData
<1>4. QED
  BY <1>3 DEF r, z

LEMMA SameDataKeeps ==
  ASSUME MapsSound, NEW r, SameData(map, r)
  PROVE  /\ ShapeSound(r, tab, url.tags, ranges)
         /\ FetchesSound(r, fetches) /\ PressSound(r, fetches, press)
<1>1. ShapeSound(r, tab, url.tags, ranges)
  BY DEF MapsSound, ShapeSound, Simulates, SameData
<1>2. FetchesSound(r, fetches)
  BY DEF MapsSound, FetchesSound, SameData
<1>3. PressSound(r, fetches, press)
  BY DEF MapsSound, PressSound, SameData
<1>4. QED
  BY <1>1, <1>2, <1>3

\* The whole tree, with nothing chosen.
LEMMA ShowAllKeeps ==
  ASSUME MapsSound, GroupTab, ShowAll, UNCHANGED <<filterVars, fetches, press, request>>
  PROVE  MapsSound'
<1>1. map' = Reset(map) /\ Select(Null)
  BY DEF ShowAll
<1>2. SameData(map, map') /\ map'.focus = Null /\ map'.selectedId = Null
  BY <1>1, ChosenParts DEF Reset, MapsSound, ShapeSound
<1>3. ShapeSound(map', tab', url'.tags, ranges') /\ FetchesSound(map', fetches')
      /\ PressSound(map', fetches', press')
  BY <1>2, SameDataKeeps, FiltersUnchanged
<1>4. TreeSound(map', url'.tags, selection')
  BY <1>1, <1>2, Deselected DEF TreeSound
<1>5. QED
  BY <1>1, <1>3, <1>4, Deselected, FiltersUnchanged DEF MapsSound

\* A click on a leaf chooses it, with the siblings it has now, or goes back to its circle.
LEMMA AppClickKeeps ==
  ASSUME MapsSound, GroupTab, NEW n \in Leaves(map, url.tags), handleAppClick(n),
         FiltersSound(url', nav', ranges', timers', options', request'),
         UNCHANGED <<url, ranges, fetches>>, press' = Null \/ press' = press
  PROVE  MapsSound'
<1>1. IsMap(map) /\ map.nodes \subseteq Apps \cup SampleApps /\ map.tab = tab /\ tab = "group"
      /\ tab' = tab
  BY DEF MapsSound, ShapeSound, GroupTab, tab
<1>2. PICK f, id, sel :
        /\ map' = [zoomToNode(map, f) EXCEPT !.selectedId = id] /\ Select(sel)
        /\ \/ f = Parent(n) /\ id = Null /\ sel = Null
           \/ f = n /\ id = n /\ sel = selectionFor(map, url.tags, n)
  BY DEF handleAppClick
<1>3. SameData(map, map') /\ map'.focus = f /\ map'.camera = f /\ map'.selectedId = id
  BY <1>1, <1>2, ChosenParts
<1>4. ShapeSound(map', tab', url'.tags, ranges') /\ FetchesSound(map', fetches')
      /\ PressSound(map', fetches', press')
  <2>1. PressSound(map', fetches, press)
    BY <1>3, SameDataKeeps
  <2>2. PressSound(map', fetches', press')
    BY <2>1 DEF PressSound
  <2>3. QED
    BY <1>1, <1>3, <2>2, SameDataKeeps
<1>5. ListSound(selection', related', relatedFetches') /\ selection' = sel
  BY <1>2, SelectKeeps DEF MapsSound
<1>6. TreeSound(map', url'.tags, selection')
  <2>1. map'.nodes = map.nodes
    BY <1>3 DEF SameData
  <2>2. /\ Leaves(map', url.tags) = Leaves(map, url.tags)
        /\ Circles(map', url.tags) = Circles(map, url.tags)
        /\ \A x : selectionFor(map', url.tags, x) = selectionFor(map, url.tags, x)
    BY <2>1, TreeOfNodes
  <2>3. Parent(n) \in Circles(map, url.tags)
    BY <1>1, LeafParts
  <2>4. QED
    BY <1>2, <1>3, <1>5, <2>2, <2>3 DEF TreeSound
<1>7. OfTab(selection', tab')
  <2>1. CASE sel = Null
    BY <1>5, <2>1 DEF OfTab
  <2>2. CASE sel = selectionFor(map, url.tags, n)
    <3>1. \A x, y : OfTab(MapSelection("group", x, y), "group")
      BY SelectionIsOfTab DEF MapTabs
    <3>2. QED
      BY <1>1, <1>5, <2>2, <3>1 DEF selectionFor
  <2>3. QED
    BY <1>2, <2>1, <2>2
<1>8. QED
  BY <1>4, <1>5, <1>6, <1>7 DEF MapsSound

-----------------------------------------------------------------------------
(* The simulation of a graph, and the answers of its map.                  *)

LEMMA SelectedParts ==
  ASSUME NEW m, IsMap(m), Simulates(m), NEW n \in m.nodes \cup {Null},
         NEW r, r = [m EXCEPT !.sim.selected = n, !.selectedId = n]
  PROVE  /\ IsMap(r) /\ Simulates(r) /\ r.tab = m.tab /\ r.key = m.key /\ r.loading = m.loading
         /\ r.source = m.source /\ r.nodes = m.nodes
<1> DEFINE sim == [m.sim EXCEPT !.selected = n]
           f == [m EXCEPT !.sim = sim]
           g == [f EXCEPT !.selectedId = n]
<1>1. r = g
  BY DEF IsMap, MapFields
<1>2. /\ DOMAIN sim = {"nodes", "sizeKey", "selected"} /\ sim.nodes = m.sim.nodes
      /\ sim.sizeKey = m.sim.sizeKey /\ sim.selected = n
  BY DEF Simulates
<1> HIDE DEF sim
<1>f. f = [m EXCEPT !.sim = sim]
  OBVIOUS
<1>g. g = [f EXCEPT !.selectedId = n]
  OBVIOUS
<1> HIDE DEF f, g
<1>3. /\ IsMap(f) /\ f.sim = sim /\ f.tab = m.tab /\ f.key = m.key /\ f.loading = m.loading
      /\ f.source = m.source /\ f.nodes = m.nodes /\ f.sizeKey = m.sizeKey
  BY <1>f, Put_sim
<1>4. /\ IsMap(g) /\ g.sim = f.sim /\ g.tab = f.tab /\ g.key = f.key /\ g.loading = f.loading
      /\ g.source = f.source /\ g.nodes = f.nodes /\ g.sizeKey = f.sizeKey
  BY <1>g, <1>3, Put_selectedId
<1>5. Simulates(r)
  BY <1>1, <1>2, <1>3, <1>4 DEF Simulates
<1>6. QED
  BY <1>1, <1>3, <1>4, <1>5

LEMMA SelectNodeKeeps ==
  ASSUME ListSound(selection, related, relatedFetches),
         NEW m, ShapeSound(m, tab, url.tags, ranges), Simulates(m),
         NEW n \in m.nodes \cup {Null}, selectNode(m, n)
  PROVE  /\ ShapeSound(map', tab, url.tags, ranges)
         /\ map'.tab = m.tab /\ map'.key = m.key /\ map'.nodes = m.nodes
         /\ ListSound(selection', related', relatedFetches') /\ OfTab(selection', tab)
<1>1. /\ IsMap(map') /\ Simulates(map') /\ map'.tab = m.tab /\ map'.key = m.key
      /\ map'.loading = m.loading /\ map'.source = m.source /\ map'.nodes = m.nodes
  BY SelectedParts DEF selectNode, ShapeSound
<1>2. ShapeSound(map', tab, url.tags, ranges)
  BY <1>1 DEF ShapeSound
<1>3. PICK sel : Select(sel) /\ sel = MapSelection(m.tab, n, Neighbors(m, n))
  BY DEF selectNode
<1>4. ListSound(selection', related', relatedFetches') /\ selection' = sel
  BY <1>3, SelectKeeps
<1>5. OfTab(sel, tab)
  <2>1. m.tab = tab /\ tab \in MapTabs \ {"none"}
    BY DEF ShapeSound, Simulates
  <2>2. QED
    BY <1>3, <2>1, SelectionIsOfTab
<1>6. QED
  BY <1>1, <1>2, <1>4, <1>5

LEMMA ExternalSelectKeeps ==
  ASSUME ListSound(selection, related, relatedFetches),
         NEW m, ShapeSound(m, tab, url.tags, ranges), Simulates(m), NEW id, externalSelect(m, id)
  PROVE  /\ ShapeSound(map', tab, url.tags, ranges)
         /\ map'.tab = m.tab /\ map'.key = m.key /\ map'.nodes = m.nodes
         /\ ListSound(selection', related', relatedFetches') /\ OfTab(selection', tab)
<1>1. PICK n \in m.nodes \cup {Null} : selectNode(m, n)
  BY DEF externalSelect, Simulates
<1>2. QED
  BY <1>1, SelectNodeKeeps

LEMMA StartParts ==
  ASSUME NEW m, IsMap(m), m.tab \in {"apps", "tags"}, NEW nodes
  PROVE  /\ IsMap(start(m, nodes)) /\ Simulates(start(m, nodes))
         /\ start(m, nodes).tab = m.tab /\ start(m, nodes).key = m.key
         /\ start(m, nodes).nodes = nodes
<1> DEFINE sim == [nodes |-> nodes, sizeKey |-> m.sizeKey, selected |-> Null]
           a == [m EXCEPT !.loading = FALSE]
           b == [a EXCEPT !.nodes = nodes]
           c == [b EXCEPT !.sortedBy = Metrics[1]]
           d == [c EXCEPT !.sim = sim]
<1>1. start(m, nodes) = d
  BY DEF start, IsMap, MapFields
<1>2. /\ DOMAIN sim = {"nodes", "sizeKey", "selected"} /\ sim.nodes = nodes
      /\ sim.sizeKey = m.sizeKey /\ sim.selected = Null
  OBVIOUS
<1> HIDE DEF sim
<1>3. IsMap(a) /\ a.tab = m.tab /\ a.key = m.key /\ a.sizeKey = m.sizeKey
  BY Put_loading
<1> HIDE DEF a
<1>4. IsMap(b) /\ b.tab = m.tab /\ b.key = m.key /\ b.sizeKey = m.sizeKey /\ b.nodes = nodes
  BY <1>3, Put_nodes
<1> HIDE DEF b
<1>5. IsMap(c) /\ c.tab = m.tab /\ c.key = m.key /\ c.sizeKey = m.sizeKey /\ c.nodes = nodes
  BY <1>4, Put_sortedBy
<1> HIDE DEF c
<1>6. /\ IsMap(d) /\ d.tab = m.tab /\ d.key = m.key /\ d.sizeKey = m.sizeKey /\ d.nodes = nodes
      /\ d.sim = sim
  BY <1>5, Put_sim
<1> HIDE DEF d
<1>7. Simulates(d)
  BY <1>2, <1>6 DEF Simulates
<1>8. QED
  BY <1>1, <1>6, <1>7

LEMMA ServedIsDrawable ==
  ASSUME NEW t, NEW key
  PROVE  /\ Served(t, key) \subseteq Drawable /\ Fallback(t, key) \subseteq Drawable
         /\ t = "group" => Served(t, key) \subseteq Apps
  BY DEF Served, Fallback, Drawable

\* The request of the map: there is none other that counts, and no pointer is held.
LEMMA LiveAnswer ==
  ASSUME MapsSound, NEW f \in fetches, f.live
  PROVE  /\ tab # "none" /\ map.tab = tab /\ f = Ask(tab, map.key) /\ map.sim = Null
         /\ f.tab = tab /\ f.key = map.key
         /\ \A g \in fetches \ {f} : DOMAIN g = {"tab", "key", "live"} /\ ~g.live
         /\ ForceTab => press = Null
<1>1. /\ map.tab = tab /\ FetchesSound(map, fetches) /\ PressSound(map, fetches, press)
  BY DEF MapsSound, ShapeSound
<1>2. tab # "none" /\ f = Ask(tab, map.key) /\ map.sim = Null
  BY <1>1 DEF FetchesSound
<1>3. \A g \in fetches \ {f} : DOMAIN g = {"tab", "key", "live"} /\ ~g.live
  BY <1>1, <1>2 DEF FetchesSound
<1>4. ForceTab => press = Null
  BY <1>1 DEF PressSound, ForceTab
<1>5. f.tab = tab /\ f.key = map.key
  BY <1>2 DEF Ask
<1>6. QED
  BY <1>1, <1>2, <1>3, <1>4, <1>5

\* A graph with nothing in it, a graph that starts, and a tag that waited for it.
LEMMA ForceAnswerKeeps ==
  ASSUME MapsSound, NEW f \in fetches, f.live, ForceTab, NEW ok \in BOOLEAN, ForceAnswer(f, ok)
  PROVE  /\ ShapeSound(map', tab, url.tags, ranges)
         /\ ListSound(selection', related', relatedFetches') /\ OfTab(selection', tab)
<1> DEFINE nodes == IF ok THEN Served(f.tab, f.key) ELSE Fallback(f.tab, f.key)
           m == IF ok THEN [map EXCEPT !.source = "live"] ELSE map
<1>1. /\ ShapeSound(map, tab, url.tags, ranges) /\ IsMap(map) /\ map.tab = tab
      /\ ListSound(selection, related, relatedFetches) /\ OfTab(selection, tab)
      /\ tab \in {"apps", "tags"} /\ map.key = FetchUrl(tab, url.tags, ranges) /\ map.sim = Null
  BY LiveAnswer DEF MapsSound, ShapeSound, ForceTab
<1>2. nodes \subseteq Drawable /\ nodes \in {Served(tab, map.key), Fallback(tab, map.key)}
  BY LiveAnswer, ServedIsDrawable
<1>3. IsMap(m) /\ m.tab = tab /\ m.key = map.key /\ m.sim = Null
  BY <1>1, Put_source
<1>4. \/ /\ map' = [m EXCEPT !.loading = FALSE, !.empty = TRUE, !.nodes = {}]
         /\ nodes = {} /\ UNCHANGED listVars
      \/ Started(start(m, nodes))
  BY DEF ForceAnswer
<1> HIDE DEF nodes, m
<1>5. CASE /\ map' = [m EXCEPT !.loading = FALSE, !.empty = TRUE, !.nodes = {}]
           /\ nodes = {} /\ UNCHANGED listVars
  <2> DEFINE a == [m EXCEPT !.loading = FALSE]
             b == [a EXCEPT !.empty = TRUE]
             c == [b EXCEPT !.nodes = {}]
  <2>1. map' = c
    BY <1>3, <1>5 DEF IsMap, MapFields
  <2>2. IsMap(a) /\ a.tab = tab /\ a.key = map.key /\ a.sim = Null
    BY <1>3, Put_loading
  <2> HIDE DEF a
  <2>3. IsMap(b) /\ b.tab = tab /\ b.key = map.key /\ b.sim = Null
    BY <2>2, Put_empty
  <2> HIDE DEF b
  <2>4. IsMap(c) /\ c.tab = tab /\ c.key = map.key /\ c.sim = Null /\ c.nodes = {}
    BY <2>3, Put_nodes
  <2> HIDE DEF c
  <2>5. ShapeSound(map', tab, url.tags, ranges)
    BY <1>1, <1>2, <1>5, <2>1, <2>4 DEF ShapeSound, MapTabs
  <2>6. QED
    BY <1>1, <1>5, <2>5 DEF listVars
<1>6. CASE Started(start(m, nodes))
  <2>1. /\ IsMap(start(m, nodes)) /\ Simulates(start(m, nodes)) /\ start(m, nodes).tab = tab
        /\ start(m, nodes).key = map.key /\ start(m, nodes).nodes = nodes
    BY <1>1, <1>3, StartParts
  <2>2. ShapeSound(start(m, nodes), tab, url.tags, ranges)
    BY <1>1, <1>2, <2>1 DEF ShapeSound, MapTabs
  <2>3. CASE externalSelect(start(m, nodes), request)
    BY <1>1, <2>1, <2>2, <2>3, ExternalSelectKeeps
  <2>4. CASE map' = start(m, nodes) /\ UNCHANGED listVars
    BY <1>1, <2>2, <2>4 DEF listVars
  <2>5. QED
    BY <1>6, <2>3, <2>4 DEF Started
<1>7. QED
  BY <1>4, <1>5, <1>6

\* The groups are asked for by ranges alone, and fall back to the samples.
LEMMA GroupFallback ==
  ASSUME NEW tags, NEW rs
  PROVE  Fallback("group", FetchUrl("group", tags, rs)) = SampleApps
  BY DEF Fallback, FetchUrl

Loaded(m, source, empty, nodes) ==
  [m EXCEPT !.loading = FALSE, !.source = source, !.empty = empty, !.nodes = nodes]

LEMMA LoadedParts ==
  ASSUME NEW m, IsMap(m), NEW source, NEW empty, NEW nodes,
         NEW r, r = Loaded(m, source, empty, nodes)
  PROVE  /\ IsMap(r) /\ r.tab = m.tab /\ r.key = m.key /\ r.sim = m.sim /\ r.source = source
         /\ r.nodes = nodes /\ r.selectedId = m.selectedId /\ r.focus = m.focus
         /\ r.camera = m.camera
<1> DEFINE a == [m EXCEPT !.loading = FALSE]
           b == [a EXCEPT !.source = source]
           c == [b EXCEPT !.empty = empty]
           d == [c EXCEPT !.nodes = nodes]
<1>1. r = d
  BY DEF Loaded, IsMap, MapFields
<1>a. a = [m EXCEPT !.loading = FALSE]
  OBVIOUS
<1>b. b = [a EXCEPT !.source = source]
  OBVIOUS
<1>c. c = [b EXCEPT !.empty = empty]
  OBVIOUS
<1>d. d = [c EXCEPT !.nodes = nodes]
  OBVIOUS
<1> HIDE DEF a, b, c, d
<1>2. /\ IsMap(a) /\ a.tab = m.tab /\ a.key = m.key /\ a.sim = m.sim
      /\ a.selectedId = m.selectedId /\ a.focus = m.focus /\ a.camera = m.camera
  BY <1>a, Put_loading
<1>3. /\ IsMap(b) /\ b.tab = a.tab /\ b.key = a.key /\ b.sim = a.sim /\ b.source = source
      /\ b.selectedId = a.selectedId /\ b.focus = a.focus /\ b.camera = a.camera
  BY <1>b, <1>2, Put_source
<1>4. /\ IsMap(c) /\ c.tab = b.tab /\ c.key = b.key /\ c.sim = b.sim /\ c.source = b.source
      /\ c.selectedId = b.selectedId /\ c.focus = b.focus /\ c.camera = b.camera
  BY <1>c, <1>3, Put_empty
<1>5. /\ IsMap(d) /\ d.tab = c.tab /\ d.key = c.key /\ d.sim = c.sim /\ d.source = c.source
      /\ d.nodes = nodes /\ d.selectedId = c.selectedId /\ d.focus = c.focus
      /\ d.camera = c.camera
  BY <1>d, <1>4, Put_nodes
<1>6. QED
  BY <1>1, <1>2, <1>3, <1>4, <1>5

\* The groups as they are answered: shown anew, or the samples that were there before.
LEMMA GroupAnswerKeeps ==
  ASSUME MapsSound, NEW f \in fetches, f.live, GroupTab, NEW ok \in BOOLEAN, GroupAnswer(f, ok)
  PROVE  /\ ShapeSound(map', tab, url.tags, ranges)
         /\ ListSound(selection', related', relatedFetches') /\ OfTab(selection', tab)
         /\ TreeSound(map', url.tags, selection')
<1> DEFINE nodes == IF ok THEN Served(f.tab, f.key) ELSE SampleApps
           source == IF ok THEN "live" ELSE "sample"
           empty == ok /\ nodes = {}
           m == [map EXCEPT !.loading = FALSE, !.source = source, !.empty = empty, !.nodes = nodes]
<1>1. /\ IsMap(map) /\ map.tab = tab /\ tab = "group" /\ TreeSound(map, url.tags, selection)
      /\ ListSound(selection, related, relatedFetches) /\ OfTab(selection, tab)
      /\ map.key = FetchUrl(tab, url.tags, ranges) /\ map.sim = Null
      /\ map.source # "live" => map.nodes = SampleApps
  BY LiveAnswer DEF MapsSound, ShapeSound, GroupTab
<1>2. nodes \subseteq Apps \cup SampleApps /\ nodes \in {Served(tab, map.key), Fallback(tab, map.key)}
      /\ (source # "live" => nodes = SampleApps)
  <2>1. f.tab = tab /\ f.key = map.key
    BY LiveAnswer
  <2>2. Fallback(tab, map.key) = SampleApps
    BY <1>1, GroupFallback
  <2>3. Served(tab, map.key) \subseteq Apps
    BY <1>1, ServedIsDrawable
  <2>4. QED
    BY <2>1, <2>2, <2>3
<1>3. \/ (ok \/ map.source = "live") /\ map' = Reset(m) /\ Select(Null)
      \/ ~ok /\ map.source # "live" /\ map' = m /\ UNCHANGED listVars
  BY DEF GroupAnswer
<1>4. ~ok => nodes = SampleApps /\ source = "sample"
  OBVIOUS
<1>m. m = Loaded(map, source, empty, nodes)
  BY DEF Loaded
<1> HIDE DEF m, nodes, source, empty
<1>5. /\ IsMap(m) /\ m.tab = map.tab /\ m.key = map.key /\ m.sim = map.sim /\ m.source = source
      /\ m.nodes = nodes /\ m.selectedId = map.selectedId /\ m.focus = map.focus
      /\ m.camera = map.camera
  <2>1. IsMap(map)
    BY <1>1
  <2>2. QED
    BY <1>m, <2>1, LoadedParts
<1>6. ShapeSound(m, tab, url.tags, ranges)
  BY <1>1, <1>2, <1>5 DEF ShapeSound, MapTabs, Drawable
<1>7. CASE (ok \/ map.source = "live") /\ map' = Reset(m) /\ Select(Null)
  <2>1. SameData(m, map') /\ map'.focus = Null /\ map'.selectedId = Null
    <3>1. map' = [zoomToNode(m, Null) EXCEPT !.selectedId = Null]
      BY <1>7 DEF Reset
    <3>2. QED
      BY <1>5, <3>1, ChosenParts
  <2>2. ShapeSound(map', tab, url.tags, ranges)
    BY <1>6, <2>1 DEF ShapeSound, SameData, Simulates
  <2>3. TreeSound(map', url.tags, selection')
    BY <1>7, <2>1, Deselected DEF TreeSound
  <2>4. QED
    BY <1>7, <2>2, <2>3, Deselected
<1>8. CASE ~ok /\ map.source # "live" /\ map' = m /\ UNCHANGED listVars
  <2>1. m.nodes = map.nodes
    BY <1>1, <1>4, <1>5, <1>8
  <2>2. /\ Leaves(m, url.tags) = Leaves(map, url.tags)
        /\ Circles(m, url.tags) = Circles(map, url.tags)
        /\ \A n : selectionFor(m, url.tags, n) = selectionFor(map, url.tags, n)
    BY <2>1, TreeOfNodes
  <2>3. TreeSound(m, url.tags, selection)
    BY <1>1, <1>5, <2>2 DEF TreeSound
  <2>4. QED
    BY <1>1, <1>6, <1>8, <2>3 DEF listVars
<1>9. QED
  BY <1>3, <1>7, <1>8

LEMMA AnswerFetchKeeps ==
  ASSUME MapsSound, NEW f \in fetches, AnswerFetch(f)
  PROVE  MapsSound'
<1>1. fetches' = fetches \ {f} /\ UNCHANGED <<filterVars, press, request>>
  BY DEF AnswerFetch
<1>2. /\ FiltersSound(url', nav', ranges', timers', options', request')
      /\ tab' = tab /\ url' = url /\ ranges' = ranges
  BY <1>1, FiltersUnchanged
<1>3. CASE ~f.live
  <2>1. UNCHANGED <<map, listVars>>
    BY <1>3 DEF AnswerFetch
  <2>2. FetchesSound(map', fetches')
    BY <1>1, <2>1 DEF MapsSound, FetchesSound
  <2>3. PressSound(map', fetches', press')
    BY <1>1, <2>1 DEF MapsSound, PressSound
  <2>4. QED
    BY <1>2, <2>1, <2>2, <2>3 DEF MapsSound, listVars
<1>4. CASE f.live
  <2>1. PICK ok \in BOOLEAN : IF GroupTab THEN GroupAnswer(f, ok) ELSE ForceAnswer(f, ok)
    BY <1>4 DEF AnswerFetch
  <2>2. /\ tab # "none" /\ map.tab = tab /\ tab \in MapTabs
        /\ \A g \in fetches' : DOMAIN g = {"tab", "key", "live"} /\ ~g.live
    BY <1>1, <1>4, LiveAnswer DEF MapsSound, ShapeSound
  <2>3. /\ ShapeSound(map', tab, url.tags, ranges)
        /\ ListSound(selection', related', relatedFetches') /\ OfTab(selection', tab)
        /\ TreeSound(map', url.tags, selection')
        /\ ForceTab => press = Null
    <3>1. CASE GroupTab
      BY <1>4, <2>1, <3>1, LiveAnswer, GroupAnswerKeeps
    <3>2. CASE ~GroupTab
      <4>1. ForceTab
        BY <2>2, <3>2 DEF ForceTab, GroupTab, MapTabs
      <4>2. /\ ShapeSound(map', tab, url.tags, ranges) /\ ForceAnswer(f, ok)
            /\ ListSound(selection', related', relatedFetches') /\ OfTab(selection', tab)
        BY <1>4, <2>1, <3>2, <4>1, ForceAnswerKeeps
      <4>3. TreeSound(map', url.tags, selection')
        BY <2>2, <4>1, <4>2 DEF TreeSound, ShapeSound, ForceTab
      <4>4. QED
        BY <1>4, <4>2, <4>3, LiveAnswer
    <3>3. QED
      BY <3>1, <3>2
  <2>4. map'.tab = tab
    BY <2>3 DEF ShapeSound
  <2>5. FetchesSound(map', fetches')
    BY <2>2 DEF FetchesSound
  <2>6. PressSound(map', fetches', press')
    BY <1>1, <2>2, <2>3, <2>4 DEF MapsSound, PressSound, ForceTab
  <2>7. QED
    BY <1>2, <2>3, <2>5, <2>6 DEF MapsSound
<1>5. QED
  BY <1>3, <1>4

-----------------------------------------------------------------------------
(* Pointers, lists and buttons.                                            *)

\* Another view of the same data, or another choice in a graph.
LEMMA ViewKeeps ==
  ASSUME MapsSound, UNCHANGED <<filterVars, request, fetches, press>>,
         SameData(map, map'),
         ListSound(selection', related', relatedFetches'), OfTab(selection', tab),
         TreeSound(map', url.tags, selection')
  PROVE  MapsSound'
  BY SameDataKeeps, FiltersUnchanged DEF MapsSound

LEMMA SameTree ==
  ASSUME NEW m, NEW r, SameData(m, r), NEW tags
  PROVE  /\ Leaves(r, tags) = Leaves(m, tags) /\ Circles(r, tags) = Circles(m, tags)
         /\ \A n : selectionFor(r, tags, n) = selectionFor(m, tags, n)
  BY TreeOfNodes DEF SameData

LEMMA FreeCamera ==
  ASSUME MapsSound, GroupTab, map' = [map EXCEPT !.focus = Null, !.camera = "free"]
  PROVE  SameData(map, map') /\ TreeSound(map', url.tags, selection)
<1> DEFINE f == [map EXCEPT !.focus = Null]
           r == [f EXCEPT !.camera = "free"]
<1>0. IsMap(map)
  BY DEF MapsSound, ShapeSound
<1>1. map' = r
  BY <1>0 DEF IsMap, MapFields
<1>f. f = [map EXCEPT !.focus = Null]
  OBVIOUS
<1>r. r = [f EXCEPT !.camera = "free"]
  OBVIOUS
<1> HIDE DEF f, r
<1>2. /\ IsMap(f) /\ f.focus = Null /\ f.tab = map.tab /\ f.key = map.key
      /\ f.loading = map.loading /\ f.source = map.source /\ f.nodes = map.nodes
      /\ f.sim = map.sim /\ f.sizeKey = map.sizeKey /\ f.selectedId = map.selectedId
  BY <1>0, <1>f, Put_focus
<1>3. /\ IsMap(r) /\ r.focus = f.focus /\ r.tab = f.tab /\ r.key = f.key
      /\ r.loading = f.loading /\ r.source = f.source /\ r.nodes = f.nodes
      /\ r.sim = f.sim /\ r.sizeKey = f.sizeKey /\ r.selectedId = f.selectedId
  BY <1>2, <1>r, Put_camera
<1>4. SameData(map, map') /\ map'.focus = Null /\ map'.selectedId = map.selectedId
  BY <1>1, <1>2, <1>3 DEF SameData
<1>5. /\ Leaves(map', url.tags) = Leaves(map, url.tags)
      /\ Circles(map', url.tags) = Circles(map, url.tags)
      /\ \A n : selectionFor(map', url.tags, n) = selectionFor(map, url.tags, n)
  BY <1>4, SameTree
<1>6. QED
  BY <1>4, <1>5 DEF MapsSound, TreeSound, SameData

LEMMA zoomByFactorKeeps ==
  ASSUME MapsSound, zoomByFactor
  PROVE  MapsSound'
<1>1. /\ GroupTab /\ map' = [map EXCEPT !.focus = Null, !.camera = "free"]
      /\ UNCHANGED <<filterVars, listVars, fetches, press, request>>
  BY DEF zoomByFactor
<1>2. SameData(map, map') /\ TreeSound(map', url.tags, selection')
  BY <1>1, FreeCamera DEF listVars
<1>3. QED
  BY <1>1, <1>2, ViewKeeps DEF MapsSound, listVars

\* A filter toggled is a list of labels, and a new navigation an address.
LEMMA ToggledIsTags ==
  ASSUME NEW tags \in Seq(Labels), NEW slug \in Labels
  PROVE  Toggled(tags, slug) \in Seq(Labels)
<1> DEFINE K == {i \in DOMAIN tags : tags[i] # slug}
<1>1. Keep(tags, K) \in Seq(Labels)
  BY SelectedTags
<1>2. Append(tags, slug) \in Seq(Labels)
  BY AppendProperties
<1>3. QED
  BY <1>1, <1>2 DEF Toggled

LEMMA CircleEndsInLabel ==
  ASSUME NEW m, m.nodes \subseteq Apps \cup SampleApps, NEW tags, NEW n \in Circles(m, tags)
  PROVE  Last(n) \in Labels
<1>1. PICK a \in filteredApps(m, tags) :
          n \in {SubSeq(PathOf(a), 1, i) : i \in DOMAIN PathOf(a)}
  BY DEF Circles
<1>2. PICK i \in DOMAIN PathOf(a) : n = SubSeq(PathOf(a), 1, i)
  BY <1>1
<1>3. a \in Apps \cup SampleApps
  BY DEF filteredApps
<1> DEFINE p == PathOf(a)
           N == Len(p)
<1>4. p \in Seq(Labels) /\ N \in Nat /\ DOMAIN p = 1..N
  BY <1>3, PathParts, LenProperties
<1>5. i \in 1..N
  BY <1>2, <1>4
<1>6. p[i] \in Labels
  BY <1>4, <1>5, ElementOfSeq
<1>7. n = SubSeq(p, 1, i)
  BY <1>2
<1> HIDE DEF p
<1>8. \A j \in 1..i : j \in 1..N
  <2> HIDE DEF N
  <2>1. QED
    BY <1>4, <1>5
<1>9. Len(n) = i /\ n[i] = p[i]
  <2>1. SubSeq(p, 1, i) = [j \in 1..i |-> p[j]]
    BY <1>4, <1>5
  <2>2. n \in Seq(Labels) /\ DOMAIN n = 1..i /\ i \in Nat /\ i \in 1..i
    BY <1>4, <1>5, <1>7, <1>8, <2>1, ElementOfSeq, IsASeq
  <2>3. QED
    BY <1>7, <2>1, <2>2, LenProperties
<1>10. QED
  BY <1>6, <1>9 DEF Last

LEMMA NavigationKeeps ==
  ASSUME MapsSound, nav' \in Addresses \cup {Null},
         UNCHANGED <<url, ranges, timers, options, request>>
  PROVE  /\ FiltersSound(url', nav', ranges', timers', options', request')
         /\ tab' = tab /\ url' = url /\ ranges' = ranges
  BY DEF MapsSound, FiltersSound, tab

LEMMA AddressParts ==
  ASSUME NEW u \in Addresses
  PROVE  /\ u.view \in {"leaderboard", "map"} /\ u.tab \in {"apps", "tags", "group"}
         /\ u.tags \in Seq(Labels) /\ u.ranges \in [Fields -> Values]
         /\ \A s \in Seq(Labels) : [u EXCEPT !.tags = s] \in Addresses
         /\ \A rs \in [Fields -> Values] : [u EXCEPT !.ranges = rs] \in Addresses
         /\ \A t \in {"apps", "tags", "group"} : [u EXCEPT !.tab = t] \in Addresses
         /\ \A v \in {"leaderboard", "map"} : [u EXCEPT !.view = v] \in Addresses
  BY DEF Addresses

LEMMA ToggleKeeps ==
  ASSUME MapsSound, NEW slug \in Labels, toggleTagFilter(slug),
         UNCHANGED <<url, ranges, timers, options, request>>
  PROVE  /\ FiltersSound(url', nav', ranges', timers', options', request')
         /\ tab' = tab /\ url' = url /\ ranges' = ranges /\ Select(Null)
<1>1. url \in Addresses
  BY DEF MapsSound, FiltersSound
<1>2. nav' = [url EXCEPT !.tags = Toggled(url.tags, slug)] /\ Select(Null)
  BY DEF toggleTagFilter, pushParams
<1>3. Toggled(url.tags, slug) \in Seq(Labels)
  BY <1>1, AddressParts, ToggledIsTags
<1>4. nav' \in Addresses
  BY <1>1, <1>2, <1>3, AddressParts
<1>5. QED
  BY <1>2, <1>4, NavigationKeeps

\* The parts of a map that is left alone, while only the address may move on.
LEMMA MapUnchanged ==
  ASSUME MapsSound, UNCHANGED <<map, fetches>>, press' = press \/ press' = Null,
         FiltersSound(url', nav', ranges', timers', options', request'),
         tab' = tab, url' = url, ranges' = ranges
  PROVE  /\ ShapeSound(map', tab', url'.tags, ranges') /\ FetchesSound(map', fetches')
         /\ PressSound(map', fetches', press')
         /\ UNCHANGED listVars => MapsSound'
         /\ Select(Null) => MapsSound'
<1>1. /\ ShapeSound(map', tab', url'.tags, ranges') /\ FetchesSound(map', fetches')
      /\ PressSound(map', fetches', press')
  BY DEF MapsSound, PressSound
<1>2. ASSUME UNCHANGED listVars
      PROVE  MapsSound'
  BY <1>1, <1>2 DEF MapsSound, listVars
<1>3. ASSUME Select(Null)
      PROVE  MapsSound'
  <2>1. TreeSound(map', url'.tags, selection')
    BY <1>3, Deselected DEF MapsSound, TreeSound
  <2>2. QED
    BY <1>1, <1>3, <2>1, Deselected DEF MapsSound
<1>4. QED
  BY <1>1, <1>2, <1>3

LEMMA PressKeeps ==
  ASSUME MapsSound, Press
  PROVE  MapsSound'
<1>1. UNCHANGED <<filterVars, listVars, fetches, request, map>> /\ map.tab = tab
  BY DEF Press, ForcePress, MapsSound, ShapeSound
<1>2. /\ FiltersSound(url', nav', ranges', timers', options', request')
      /\ tab' = tab /\ url' = url /\ ranges' = ranges
  BY <1>1, FiltersUnchanged
<1>3. PressSound(map', fetches', press')
  <2>1. CASE ForcePress
    <3>1. PICK n \in map.sim.nodes \cup {Null} : press' = [on |-> n, moved |-> FALSE]
      BY <2>1 DEF ForcePress
    <3>2. map.sim # Null /\ Simulates(map)
      BY <2>1 DEF ForcePress, MapsSound, ShapeSound
    <3>3. \A f \in fetches : ~f.live
      BY <3>2 DEF MapsSound, FetchesSound
    <3>4. QED
      BY <1>1, <3>1, <3>2, <3>3 DEF PressSound, Simulates
  <2>2. CASE GroupTab /\ press' = [on |-> Null, moved |-> FALSE]
    BY <1>1, <2>2 DEF PressSound, GroupTab
  <2>3. QED
    BY <2>1, <2>2 DEF Press
<1>4. QED
  BY <1>1, <1>2, <1>3 DEF MapsSound, listVars

LEMMA DragKeeps ==
  ASSUME MapsSound, Drag
  PROVE  MapsSound'
<1>1. /\ UNCHANGED <<filterVars, listVars, fetches, request>> /\ press # Null
      /\ press' = [press EXCEPT !.moved = TRUE]
      /\ map' = IF GroupTab THEN [map EXCEPT !.focus = Null, !.camera = "free"] ELSE map
  BY DEF Drag
<1>2. DOMAIN press' = {"on", "moved"} /\ press'.on = press.on
  BY <1>1 DEF MapsSound, PressSound
<1>3. SameData(map, map') /\ TreeSound(map', url.tags, selection)
  <2>1. CASE GroupTab
    BY <1>1, <2>1, FreeCamera
  <2>2. CASE ~GroupTab
    BY <1>1, <2>2 DEF MapsSound, ShapeSound, SameData
  <2>3. QED
    BY <2>1, <2>2
<1>4. PressSound(map', fetches', press')
  <2>1. PressSound(map', fetches, press)
    BY <1>3, SameDataKeeps
  <2>2. QED
    BY <1>1, <1>2, <2>1 DEF PressSound
<1>5. ShapeSound(map', tab', url'.tags, ranges') /\ FetchesSound(map', fetches')
  BY <1>1, <1>3, SameDataKeeps, FiltersUnchanged
<1>6. QED
  BY <1>1, <1>3, <1>4, <1>5, FiltersUnchanged DEF MapsSound, listVars

\* A click on a node of a graph, or beside them.
LEMMA ForceReleaseKeeps ==
  ASSUME MapsSound, press # Null, press' = Null, ForceRelease,
         UNCHANGED <<url, ranges, timers, options, fetches, request>>
  PROVE  MapsSound'
<1>1. /\ ForceTab /\ map.sim # Null /\ UNCHANGED nav
      /\ UNCHANGED <<map, listVars>>
         \/ selectNode(map, IF map.sim.selected = press.on THEN Null ELSE press.on)
  BY DEF ForceRelease
<1>2. /\ FiltersSound(url', nav', ranges', timers', options', request')
      /\ tab' = tab /\ url' = url /\ ranges' = ranges
  BY <1>1, FiltersUnchanged DEF filterVars
<1>3. CASE UNCHANGED <<map, listVars>>
  BY <1>2, <1>3, MapUnchanged
<1>4. CASE selectNode(map, IF map.sim.selected = press.on THEN Null ELSE press.on)
  <2>1. PICK n : selectNode(map, n) /\ n \in {Null, press.on}
    BY <1>4
  <2>2. /\ ShapeSound(map, tab, url.tags, ranges) /\ Simulates(map) /\ map.tab = tab
        /\ ListSound(selection, related, relatedFetches) /\ tab \in {"apps", "tags"}
    BY <1>1 DEF MapsSound, ShapeSound, ForceTab
  <2>3. n \in map.nodes \cup {Null} /\ \A f \in fetches : ~f.live
    BY <2>1, <2>2 DEF MapsSound, PressSound
  <2>4. /\ ShapeSound(map', tab, url.tags, ranges) /\ map'.tab = map.tab
        /\ ListSound(selection', related', relatedFetches') /\ OfTab(selection', tab)
    BY <2>1, <2>2, <2>3, SelectNodeKeeps
  <2>5. FetchesSound(map', fetches')
    BY <2>3 DEF MapsSound, FetchesSound
  <2>6. TreeSound(map', url.tags, selection') /\ PressSound(map', fetches', press')
    BY <2>2, <2>4 DEF TreeSound, PressSound
  <2>7. QED
    BY <1>2, <2>4, <2>5, <2>6 DEF MapsSound
<1>5. QED
  BY <1>1, <1>3, <1>4

\* A click on a leaf, on a circle or beside the tree.
LEMMA GroupReleaseKeeps ==
  ASSUME MapsSound, press # Null, press' = Null, GroupRelease,
         UNCHANGED <<url, ranges, timers, options, fetches, request>>
  PROVE  MapsSound'
<1>1. GroupTab /\ map.nodes \subseteq Apps \cup SampleApps /\ nav \in Addresses \cup {Null}
  BY DEF GroupRelease, MapsSound, ShapeSound, FiltersSound, GroupTab
<1>2. ASSUME UNCHANGED nav
      PROVE  /\ FiltersSound(url', nav', ranges', timers', options', request')
             /\ tab' = tab /\ url' = url /\ ranges' = ranges
  BY <1>1, <1>2, NavigationKeeps
<1>3. CASE UNCHANGED <<map, listVars, nav>>
  BY <1>2, <1>3, MapUnchanged
<1>4. CASE \E n \in Leaves(map, url.tags) : handleAppClick(n) /\ UNCHANGED nav
  BY <1>1, <1>2, <1>4, AppClickKeeps
<1>5. CASE UNCHANGED map /\ \E n \in Circles(map, url.tags) : toggleTagFilter(Last(n))
  <2>1. PICK n \in Circles(map, url.tags) : toggleTagFilter(Last(n))
    BY <1>5
  <2>2. Last(n) \in Labels
    BY <1>1, CircleEndsInLabel
  <2>3. /\ FiltersSound(url', nav', ranges', timers', options', request')
        /\ tab' = tab /\ url' = url /\ ranges' = ranges /\ Select(Null)
    BY <2>1, <2>2, ToggleKeeps
  <2>4. QED
    BY <1>5, <2>3, MapUnchanged
<1>6. CASE ShowAll /\ UNCHANGED nav
  <2>1. map' = Reset(map) /\ Select(Null)
    BY <1>6 DEF ShowAll
  <2>2. SameData(map, map') /\ map'.focus = Null /\ map'.selectedId = Null
    BY <2>1, ChosenParts DEF Reset, MapsSound, ShapeSound
  <2>3. /\ ShapeSound(map', tab', url'.tags, ranges') /\ FetchesSound(map', fetches')
        /\ PressSound(map', fetches', press')
    BY <1>2, <1>6, <2>2, SameDataKeeps DEF PressSound
  <2>4. TreeSound(map', url'.tags, selection')
    BY <2>1, <2>2, Deselected DEF TreeSound
  <2>5. QED
    BY <1>2, <1>6, <2>1, <2>3, <2>4, Deselected DEF MapsSound
<1>7. QED
  BY <1>3, <1>4, <1>5, <1>6 DEF GroupRelease

LEMMA ReleaseKeeps ==
  ASSUME MapsSound, Release
  PROVE  MapsSound'
  BY ForceReleaseKeeps, GroupReleaseKeeps DEF Release

LEMMA ResetButtonKeeps ==
  ASSUME MapsSound, ResetButton
  PROVE  MapsSound'
  BY ShowAllKeeps DEF ResetButton

LEMMA LeafListSelectKeeps ==
  ASSUME MapsSound, LeafListSelect
  PROVE  MapsSound'
<1>1. /\ GroupTab /\ UNCHANGED <<filterVars, fetches, press, request>>
      /\ \E n \in Leaves(map, url.tags) : handleAppClick(n)
  BY DEF LeafListSelect
<1>2. /\ FiltersSound(url', nav', ranges', timers', options', request')
      /\ tab' = tab /\ url' = url /\ ranges' = ranges
  BY <1>1, FiltersUnchanged
<1>3. QED
  BY <1>1, <1>2, AppClickKeeps

\* The keyboard's way reaches the list, not the simulation.
LEMMA NodeListSelectKeeps ==
  ASSUME MapsSound, NEW n, handleNodeListSelect(n)
  PROVE  MapsSound'
<1>1. PICK chosen :
        /\ map' = [map EXCEPT !.selectedId = chosen]
        /\ Select(MapSelection(map.tab, chosen, Neighbors(map, n)))
  BY DEF handleNodeListSelect
<1>2. ForceTab /\ UNCHANGED <<filterVars, fetches, press, request>>
  BY DEF handleNodeListSelect
<1>3. IsMap(map) /\ map.tab = tab /\ tab \in {"apps", "tags"}
  BY <1>2 DEF MapsSound, ShapeSound, ForceTab
<1>4. SameData(map, map')
  BY <1>1, <1>3, Put_selectedId DEF SameData
<1>5. /\ ListSound(selection', related', relatedFetches')
      /\ selection' = MapSelection(map.tab, chosen, Neighbors(map, n))
  BY <1>1, SelectKeeps DEF MapsSound
<1>6. OfTab(selection', tab)
  BY <1>3, <1>5, SelectionIsOfTab DEF MapTabs
<1>7. TreeSound(map', url.tags, selection')
  BY <1>3, <1>4 DEF TreeSound, SameData
<1>8. QED
  BY <1>2, <1>4, <1>5, <1>6, <1>7, ViewKeeps

\* A metric reaches the simulation there is, and the next one.
Sized(m, key) == [applyMetrics(m, key) EXCEPT !.sizeKey = key]

LEMMA MetricParts ==
  ASSUME NEW m, IsMap(m), m.tab \in {"apps", "tags"}, m.sim # Null => Simulates(m), NEW key,
         NEW r, r = Sized(m, key)
  PROVE  /\ IsMap(r) /\ r.tab = m.tab /\ r.key = m.key /\ r.loading = m.loading
         /\ r.source = m.source /\ r.nodes = m.nodes
         /\ m.sim = Null => r.sim = Null
         /\ r.sim # Null => Simulates(r)
<1> DEFINE a == applyMetrics(m, key)
<1>1. CASE m.sim = Null
  <2>1. r = [m EXCEPT !.sizeKey = key]
    BY <1>1 DEF applyMetrics, Sized
  <2>2. /\ IsMap(r) /\ r.tab = m.tab /\ r.key = m.key /\ r.loading = m.loading
        /\ r.source = m.source /\ r.nodes = m.nodes /\ r.sim = m.sim
    BY <2>1, Put_sizeKey
  <2>3. QED
    BY <1>1, <2>2
<1>2. CASE m.sim # Null
  <2> DEFINE sim == [m.sim EXCEPT !.sizeKey = key]
             f == [m EXCEPT !.sim = sim]
             g == [f EXCEPT !.sortedBy = key]
             h == [g EXCEPT !.sizeKey = key]
  <2>1. a = g
    BY <1>2 DEF applyMetrics, IsMap, MapFields
  <2>2. r = h
    BY <2>1 DEF Sized
  <2>3. /\ DOMAIN sim = {"nodes", "sizeKey", "selected"} /\ sim.nodes = m.sim.nodes
        /\ sim.sizeKey = key /\ sim.selected = m.sim.selected
    BY <1>2 DEF Simulates
  <2>f. f = [m EXCEPT !.sim = sim]
    OBVIOUS
  <2>g. g = [f EXCEPT !.sortedBy = key]
    OBVIOUS
  <2>h. h = [g EXCEPT !.sizeKey = key]
    OBVIOUS
  <2> HIDE DEF sim, f, g, h, a
  <2>4. /\ IsMap(f) /\ f.sim = sim /\ f.tab = m.tab /\ f.key = m.key /\ f.loading = m.loading
        /\ f.source = m.source /\ f.nodes = m.nodes
    BY <2>f, Put_sim
  <2>5. /\ IsMap(g) /\ g.sim = f.sim /\ g.tab = f.tab /\ g.key = f.key /\ g.loading = f.loading
        /\ g.source = f.source /\ g.nodes = f.nodes
    BY <2>g, <2>4, Put_sortedBy
  <2>6. /\ IsMap(h) /\ h.sim = g.sim /\ h.tab = g.tab /\ h.key = g.key /\ h.loading = g.loading
        /\ h.source = g.source /\ h.nodes = g.nodes /\ h.sizeKey = key
    BY <2>h, <2>5, Put_sizeKey
  <2>7. Simulates(h)
    BY <1>2, <2>3, <2>4, <2>5, <2>6 DEF Simulates
  <2>8. QED
    BY <1>2, <2>2, <2>4, <2>5, <2>6, <2>7
<1>3. QED
  BY <1>1, <1>2

LEMMA SizeChangeKeeps ==
  ASSUME MapsSound, NEW key, handleSizeChange(key)
  PROVE  MapsSound'
<1>1. /\ ForceTab /\ map' = Sized(map, key)
      /\ UNCHANGED <<filterVars, listVars, fetches, press, request>>
  BY DEF handleSizeChange, Sized
<1>2. /\ IsMap(map) /\ map.tab = tab /\ map.tab \in {"apps", "tags"}
      /\ map.sim # Null => Simulates(map)
  BY <1>1 DEF MapsSound, ShapeSound, ForceTab
<1>3. /\ IsMap(map') /\ map'.tab = map.tab /\ map'.key = map.key /\ map'.loading = map.loading
      /\ map'.source = map.source /\ map'.nodes = map.nodes
      /\ map.sim = Null => map'.sim = Null
      /\ map'.sim # Null => Simulates(map')
  BY <1>1, <1>2, MetricParts
<1>4. ShapeSound(map', tab, url.tags, ranges)
  BY <1>3 DEF MapsSound, ShapeSound
<1>5. FetchesSound(map', fetches') /\ PressSound(map', fetches', press')
  BY <1>1, <1>3 DEF MapsSound, FetchesSound, PressSound
<1>6. TreeSound(map', url'.tags, selection')
  BY <1>2, <1>3 DEF TreeSound
<1>7. QED
  BY <1>1, <1>4, <1>5, <1>6, FiltersUnchanged DEF MapsSound, listVars

-----------------------------------------------------------------------------
(* Filters and navigations.                                                *)

LEMMA PickTagKeeps ==
  ASSUME MapsSound, PickTag
  PROVE  MapsSound'
<1>1. PICK t \in matches(Listed(url.tags)) \cup Listed(url.tags) : toggleTagFilter(t)
  BY DEF PickTag
<1>2. UNCHANGED <<url, ranges, timers, options, mapVars, request>>
  BY DEF PickTag
<1>3. t \in Labels
  <2>1. options \subseteq Tags /\ url.tags \in Seq(Labels)
    BY AddressParts DEF MapsSound, FiltersSound
  <2>2. Listed(url.tags) \subseteq Labels
    BY <2>1, ElementOfSeq, LenProperties DEF Listed
  <2>3. QED
    BY <2>1, <2>2 DEF matches, Labels
<1>4. /\ FiltersSound(url', nav', ranges', timers', options', request')
      /\ tab' = tab /\ url' = url /\ ranges' = ranges /\ Select(Null)
  BY <1>1, <1>2, <1>3, ToggleKeeps
<1>5. QED
  BY <1>2, <1>4, MapUnchanged DEF mapVars

\* An operation that only asks for a navigation.
LEMMA AskedNavigation ==
  ASSUME MapsSound, nav' \in Addresses,
         UNCHANGED <<url, ranges, timers, options, listVars, mapVars, request>>
  PROVE  MapsSound'
  BY NavigationKeeps, MapUnchanged DEF mapVars

LEMMA ClearFiltersKeeps ==
  ASSUME MapsSound, ClearFilters
  PROVE  MapsSound'
<1>1. /\ nav' = [url EXCEPT !.tags = <<>>]
      /\ UNCHANGED <<url, ranges, timers, options, listVars, mapVars, request>>
  BY DEF ClearFilters, pushParams
<1>2. url \in Addresses /\ <<>> \in Seq(Labels)
  BY EmptySeq DEF MapsSound, FiltersSound
<1>3. nav' \in Addresses
  BY <1>1, <1>2, AddressParts
<1>4. QED
  BY <1>1, <1>3, AskedNavigation

LEMMA SwitchTabKeeps ==
  ASSUME MapsSound, NEW t \in {"apps", "tags", "group"}, switchTab(t)
  PROVE  MapsSound'
<1>1. /\ nav' = [url EXCEPT !.tab = t]
      /\ UNCHANGED <<url, ranges, timers, options, listVars, mapVars, request>>
  BY DEF switchTab, pushParams
<1>2. nav' \in Addresses
  BY <1>1, AddressParts DEF MapsSound, FiltersSound
<1>3. QED
  BY <1>1, <1>2, AskedNavigation

LEMMA SetTabKeeps ==
  ASSUME MapsSound, NEW v \in {"leaderboard", "map"}, setTab(v)
  PROVE  MapsSound'
<1>1. /\ nav' = [url EXCEPT !.view = v]
      /\ UNCHANGED <<url, ranges, timers, options, listVars, mapVars, request>>
  BY DEF setTab, pushParams
<1>2. nav' \in Addresses
  BY <1>1, AddressParts DEF MapsSound, FiltersSound
<1>3. QED
  BY <1>1, <1>2, AskedNavigation

\* A timer pushes the address it was set on, with its own range.
LEMMA TimerKeeps ==
  ASSUME MapsSound, NEW t \in timers, TimerFires(t)
  PROVE  MapsSound'
<1>1. /\ timers' = timers \ {t} /\ nav' = [t.params EXCEPT !.ranges[t.field] = t.value]
      /\ UNCHANGED <<url, ranges, options, listVars, mapVars, request>>
  BY DEF TimerFires, pushParams
<1>2. t.params \in Addresses /\ t.field \in Fields /\ t.value \in Values
  BY DEF MapsSound, FiltersSound, Timers
<1> DEFINE rs == [t.params.ranges EXCEPT ![t.field] = t.value]
<1>3. rs \in [Fields -> Values]
  BY <1>2, AddressParts
<1>4. nav' = [t.params EXCEPT !.ranges = rs]
  BY <1>1
<1> HIDE DEF rs
<1>5. nav' \in Addresses
  BY <1>2, <1>3, <1>4, AddressParts
<1>6. FiltersSound(url', nav', ranges', timers', options', request')
  BY <1>1, <1>5 DEF MapsSound, FiltersSound
<1>7. tab' = tab
  BY <1>1 DEF tab
<1>8. QED
  BY <1>1, <1>6, <1>7, MapUnchanged DEF mapVars

LEMMA OptionsKeep ==
  ASSUME MapsSound, AnswerOptions
  PROVE  MapsSound'
<1>1. options' \subseteq Tags /\ UNCHANGED <<url, nav, ranges, timers, listVars, mapVars, request>>
  BY DEF AnswerOptions
<1>2. FiltersSound(url', nav', ranges', timers', options', request')
  BY <1>1 DEF MapsSound, FiltersSound
<1>3. tab' = tab
  BY <1>1 DEF tab
<1>4. QED
  BY <1>1, <1>2, <1>3, MapUnchanged DEF mapVars

\* A tag jumped to is selected at once if the simulation runs.
LEMMA SelectTagKeeps ==
  ASSUME MapsSound, NEW t, selectTagOnMap(t)
  PROVE  MapsSound'
<1>1. /\ tab = "tags" /\ t \in options /\ request' = t
      /\ UNCHANGED <<filterVars, fetches, press>>
      /\ \/ UNCHANGED <<map, listVars>>
         \/ map.sim # Null /\ externalSelect(map, t)
  BY DEF selectTagOnMap, matches
<1>2. /\ FiltersSound(url', nav', ranges', timers', options', request')
      /\ tab' = tab /\ url' = url /\ ranges' = ranges
  BY <1>1 DEF MapsSound, FiltersSound, filterVars, tab, Labels
<1>3. CASE UNCHANGED <<map, listVars>>
  BY <1>1, <1>2, <1>3, MapUnchanged
<1>4. CASE map.sim # Null /\ externalSelect(map, t)
  <2>1. /\ ShapeSound(map, tab, url.tags, ranges) /\ Simulates(map) /\ map.tab = tab
        /\ ListSound(selection, related, relatedFetches)
    BY <1>4 DEF MapsSound, ShapeSound
  <2>2. /\ ShapeSound(map', tab, url.tags, ranges) /\ map'.tab = map.tab
        /\ map'.key = map.key /\ map'.nodes = map.nodes
        /\ ListSound(selection', related', relatedFetches') /\ OfTab(selection', tab)
    BY <1>4, <2>1, ExternalSelectKeeps
  <2>3. FetchesSound(map', fetches') /\ PressSound(map', fetches', press')
    BY <1>1, <1>4, <2>2 DEF MapsSound, FetchesSound, PressSound
  <2>4. TreeSound(map', url'.tags, selection')
    BY <1>1, <2>1, <2>2 DEF TreeSound
  <2>5. QED
    BY <1>2, <2>2, <2>3, <2>4 DEF MapsSound
<1>5. QED
  BY <1>1, <1>3, <1>4

\* A map that follows the filters asks anew, keeping what was chosen on it.
LEMMA RefetchParts ==
  ASSUME NEW m, IsMap(m), NEW key, NEW r, r = Refetch(m, key)
  PROVE  /\ IsMap(r) /\ r.tab = m.tab /\ r.key = key /\ r.loading /\ r.source = m.source
         /\ r.nodes = m.nodes /\ r.sim = Null /\ r.selectedId = m.selectedId
         /\ r.focus = m.focus /\ r.camera = m.camera
<1> DEFINE a == [m EXCEPT !.sim = Null]
           b == [a EXCEPT !.key = key]
           c == [b EXCEPT !.loading = TRUE]
           d == [c EXCEPT !.empty = FALSE]
<1>1. r = d
  BY DEF Refetch, cleanup, IsMap, MapFields
<1>a. a = [m EXCEPT !.sim = Null]
  OBVIOUS
<1>b. b = [a EXCEPT !.key = key]
  OBVIOUS
<1>c. c = [b EXCEPT !.loading = TRUE]
  OBVIOUS
<1>d. d = [c EXCEPT !.empty = FALSE]
  OBVIOUS
<1> HIDE DEF a, b, c, d
<1>2. /\ IsMap(a) /\ a.tab = m.tab /\ a.source = m.source /\ a.nodes = m.nodes /\ a.sim = Null
      /\ a.selectedId = m.selectedId /\ a.focus = m.focus /\ a.camera = m.camera
  BY <1>a, Put_sim
<1>3. /\ IsMap(b) /\ b.tab = a.tab /\ b.source = a.source /\ b.nodes = a.nodes /\ b.sim = a.sim
      /\ b.selectedId = a.selectedId /\ b.focus = a.focus /\ b.camera = a.camera /\ b.key = key
  BY <1>b, <1>2, Put_key
<1>4. /\ IsMap(c) /\ c.tab = b.tab /\ c.source = b.source /\ c.nodes = b.nodes /\ c.sim = b.sim
      /\ c.selectedId = b.selectedId /\ c.focus = b.focus /\ c.camera = b.camera
      /\ c.key = b.key /\ c.loading
  BY <1>c, <1>3, Put_loading
<1>5. /\ IsMap(d) /\ d.tab = c.tab /\ d.source = c.source /\ d.nodes = c.nodes /\ d.sim = c.sim
      /\ d.selectedId = c.selectedId /\ d.focus = c.focus /\ d.camera = c.camera
      /\ d.key = c.key /\ d.loading = c.loading
  BY <1>d, <1>4, Put_empty
<1>6. QED
  BY <1>1, <1>2, <1>3, <1>4, <1>5

LEMMA AskedFetches ==
  ASSUME FetchesSound(map, fetches), NEW F, \A f \in F : f = Ask(map'.tab, map'.key),
         F # {} => map'.tab # "none" /\ map'.sim = Null, fetches' = Overtaken(fetches) \cup F
  PROVE  FetchesSound(map', fetches')
<1>1. \A f \in Overtaken(fetches) : DOMAIN f = {"tab", "key", "live"} /\ f.live = FALSE
  BY OvertakenKeep DEF FetchesSound
<1>2. \A f \in F : DOMAIN f = {"tab", "key", "live"}
  BY DEF Ask
<1>3. QED
  BY <1>1, <1>2 DEF FetchesSound

LEMMA FollowKeeps ==
  ASSUME MapsSound, tab # "none", NEW u, NEW rs, Follow(u, rs)
  PROVE  /\ ShapeSound(map', tab, u.tags, rs) /\ FetchesSound(map', fetches')
         /\ PressSound(map', fetches', press')
         /\ map'.tab = map.tab /\ map'.nodes = map.nodes /\ map'.selectedId = map.selectedId
         /\ map'.focus = map.focus /\ map'.camera = map.camera
<1> DEFINE key == FetchUrl(tab, u.tags, rs)
<1>1. /\ ShapeSound(map, tab, url.tags, ranges) /\ IsMap(map) /\ map.tab = tab
      /\ FetchesSound(map, fetches) /\ PressSound(map, fetches, press)
  BY DEF MapsSound, ShapeSound
<1>2. CASE key = map.key
  <2>1. UNCHANGED <<map, fetches, press>>
    BY <1>2 DEF Follow
  <2>2. ShapeSound(map, tab, u.tags, rs)
    BY <1>1, <1>2 DEF ShapeSound
  <2>3. QED
    BY <1>1, <2>1, <2>2
<1>3. CASE key # map.key
  <2>1. /\ map' = Refetch(map, key) /\ fetches' = Overtaken(fetches) \cup {Ask(tab, key)}
        /\ press' = IF ForceTab THEN Null ELSE press
    BY <1>3 DEF Follow
  <2>2. key = FetchUrl(tab, u.tags, rs)
    OBVIOUS
  <2> HIDE DEF key
  <2>3. /\ IsMap(map') /\ map'.tab = map.tab /\ map'.key = key /\ map'.loading
        /\ map'.source = map.source /\ map'.nodes = map.nodes /\ map'.sim = Null
        /\ map'.selectedId = map.selectedId /\ map'.focus = map.focus /\ map'.camera = map.camera
    <3>1. IsMap(map) /\ map' = Refetch(map, key)
      BY <1>1, <2>1
    <3>2. QED
      BY <3>1, RefetchParts
  <2>4. ShapeSound(map', tab, u.tags, rs)
    BY <1>1, <2>2, <2>3 DEF ShapeSound
  <2>5. FetchesSound(map', fetches')
    <3>1. \A f \in {Ask(tab, key)} : f = Ask(map'.tab, map'.key)
      BY <1>1, <2>3
    <3>2. map'.tab # "none" /\ map'.sim = Null
      BY <1>1, <2>3
    <3>3. QED
      BY <1>1, <2>1, <3>1, <3>2, AskedFetches
  <2>6. PressSound(map', fetches', press')
    BY <1>1, <2>1, <2>3 DEF PressSound, ForceTab
  <2>7. QED
    BY <2>3, <2>4, <2>5, <2>6
<1>4. QED
  BY <1>2, <1>3

\* Retyped and cleared ranges: no circle or leaf is chosen anew, but the data will be.
LEMMA FollowedSound ==
  ASSUME MapsSound, tab # "none", NEW u, Follow(u, ranges'), url' = url, u.tags = url.tags,
         FiltersSound(url', nav', ranges', timers', options', request'),
         UNCHANGED listVars
  PROVE  MapsSound'
<1>1. tab' = tab
  BY DEF tab
<1>2. /\ ShapeSound(map', tab, url.tags, ranges') /\ FetchesSound(map', fetches')
      /\ PressSound(map', fetches', press')
      /\ map'.tab = map.tab /\ map'.nodes = map.nodes /\ map'.selectedId = map.selectedId
      /\ map'.focus = map.focus /\ map'.camera = map.camera
  BY FollowKeeps
<1>3. /\ Leaves(map', url.tags) = Leaves(map, url.tags)
      /\ Circles(map', url.tags) = Circles(map, url.tags)
      /\ \A n : selectionFor(map', url.tags, n) = selectionFor(map, url.tags, n)
  BY <1>2, TreeOfNodes
<1>4. TreeSound(map', url.tags, selection)
  BY <1>2, <1>3 DEF MapsSound, TreeSound
<1>5. QED
  BY <1>1, <1>2, <1>4 DEF MapsSound, listVars

LEMMA RangeChangeKeeps ==
  ASSUME MapsSound, NEW f \in Fields, NEW v \in Values, onRangeChange(f, v)
  PROVE  MapsSound'
<1>1. /\ tab \in {"apps", "group"} /\ ranges' = [ranges EXCEPT ![f] = v]
      /\ Follow(url, ranges') /\ UNCHANGED <<url, nav, options, listVars, request>>
  BY DEF onRangeChange, Filters
<1>2. PICK t : /\ t = [field |-> f, value |-> v, params |-> url, mounted |-> TRUE]
               /\ timers' \subseteq timers \cup {t}
  BY DEF onRangeChange
<1>3. t \in Timers
  BY <1>2 DEF Timers, MapsSound, FiltersSound
<1>4. FiltersSound(url', nav', ranges', timers', options', request')
  BY <1>1, <1>2, <1>3 DEF MapsSound, FiltersSound
<1>5. QED
  BY <1>1, <1>4, FollowedSound

LEMMA ClearRangesKeeps ==
  ASSUME MapsSound, clearRanges
  PROVE  MapsSound'
<1>1. /\ tab \in {"apps", "group"} /\ ranges' = NoRanges /\ Follow(url, ranges')
      /\ nav' = [url EXCEPT !.ranges = NoRanges]
      /\ UNCHANGED <<url, timers, options, listVars, request>>
  BY DEF clearRanges, Filters, pushParams
<1>2. NoRanges \in [Fields -> Values]
  BY MapBounds DEF NoRanges
<1>3. nav' \in Addresses
  BY <1>1, <1>2, AddressParts DEF MapsSound, FiltersSound
<1>4. FiltersSound(url', nav', ranges', timers', options', request')
  BY <1>1, <1>2, <1>3 DEF MapsSound, FiltersSound
<1>5. QED
  BY <1>1, <1>4, FollowedSound

\* A map mounted for an address, with what was under way before left behind.
LEMMA MountKeeps ==
  ASSUME FetchesSound(map, fetches), NEW u \in Addresses, Mount(u)
  PROVE  /\ ShapeSound(map', TabOf(u), u.tags, ranges') /\ FetchesSound(map', fetches')
         /\ PressSound(map', fetches', press')
         /\ \A tags : TreeSound(map', tags, Null)
<1> DEFINE t == TabOf(u)
           key == FetchUrl(t, u.tags, ranges')
<1>1. t \in MapTabs
  BY AddressParts DEF TabOf, MapTabs
<1>2. /\ map' = IF t = "none" THEN NoMap ELSE Fresh(t, key)
      /\ fetches' = Overtaken(fetches) \cup (IF t = "none" THEN {} ELSE {Ask(t, key)})
      /\ press' = Null
  BY DEF Mount
<1>3. key = FetchUrl(t, u.tags, ranges')
  OBVIOUS
<1> HIDE DEF t, key
<1>4. PressSound(map', fetches', press')
  BY <1>2 DEF PressSound
<1>5. CASE t = "none"
  <2> DEFINE tk == [tags |-> <<>>, ranges |-> NoRanges]
             fresh == Fresh("tags", tk)
  <2>1. map' = [fresh EXCEPT !.tab = "none"]
    BY <1>2, <1>5 DEF NoMap
  <2>2. IsMap(fresh) /\ fresh.nodes = Fallback("tags", tk) /\ fresh.sim = Null
    BY FreshIsMap
  <2> HIDE DEF fresh
  <2>3. IsMap(map') /\ map'.tab = "none" /\ map'.nodes = fresh.nodes /\ map'.sim = fresh.sim
    BY <2>1, <2>2 DEF IsMap, MapFields
  <2>4. ShapeSound(map', t, u.tags, ranges')
    BY <1>1, <1>5, <2>2, <2>3, ServedIsDrawable DEF ShapeSound
  <2>5. FetchesSound(map', fetches')
    BY <1>2, <1>5, AskedFetches
  <2>6. \A tags : TreeSound(map', tags, Null)
    BY <2>3 DEF TreeSound
  <2>7. QED
    BY <1>4, <2>4, <2>5, <2>6 DEF t
<1>6. CASE t # "none"
  <2>1. map' = Fresh(t, key) /\ fetches' = Overtaken(fetches) \cup {Ask(t, key)}
    BY <1>2, <1>6
  <2>2. /\ IsMap(map') /\ map'.tab = t /\ map'.key = key /\ map'.nodes = Fallback(t, key)
        /\ map'.loading /\ map'.source = "sample" /\ map'.selectedId = Null
        /\ map'.focus = Null /\ map'.camera = Null /\ map'.sim = Null
    BY <2>1, FreshIsMap
  <2>3. t = "group" => Fallback(t, key) = SampleApps
    BY <1>3, GroupFallback
  <2>4. Fallback(t, key) \subseteq Drawable
    BY ServedIsDrawable
  <2>5. ShapeSound(map', t, u.tags, ranges')
    BY <1>1, <1>3, <2>2, <2>3, <2>4 DEF ShapeSound
  <2>6. FetchesSound(map', fetches')
    BY <1>6, <2>1, <2>2, AskedFetches
  <2>7. \A tags : TreeSound(map', tags, Null)
    BY <2>2 DEF TreeSound
  <2>8. QED
    BY <1>4, <2>5, <2>6, <2>7 DEF t
<1>7. QED
  BY <1>5, <1>6

LEMMA SeedIsLabel ==
  ASSUME NEW u \in Addresses
  PROVE  Seed(u) \in Labels \cup {Null} /\ (Seed(u) # Null => TabOf(u) = "tags")
<1>1. u.tags \in Seq(Labels)
  BY AddressParts
<1>2. u.tags # <<>> => Head(u.tags) \in Labels
  BY <1>1, HeadTailProperties
<1>3. QED
  BY <1>2 DEF Seed

\* The address changes: another view, another tab, or other filters of the same map.
LEMMA CommitKeeps ==
  ASSUME MapsSound, Commit
  PROVE  MapsSound'
<1>1. /\ url \in Addresses /\ nav \in Addresses /\ url' = nav /\ nav' = Null
      /\ map.tab = tab /\ FetchesSound(map, fetches)
  BY DEF Commit, MapsSound, FiltersSound, ShapeSound
<1>2. tab' = TabOf(nav)
  BY <1>1 DEF tab
<1>3. NoRanges \in [Fields -> Values]
  BY MapBounds DEF NoRanges
<1>4. CASE Remount(nav) /\ Mount(nav) /\ Select(Null)
  <2>1. ranges' \in [Fields -> Values]
    BY <1>1, <1>3, <1>4, AddressParts DEF Remount
  <2>2. timers' \subseteq Timers
    <3>1. \A t \in Timers : [t EXCEPT !.mounted = FALSE] \in Timers
      BY DEF Timers
    <3>2. QED
      BY <1>4, <3>1 DEF Remount, MapsSound, FiltersSound
  <2>3. FiltersSound(url', nav', ranges', timers', options', request')
    BY <1>1, <1>4, <2>1, <2>2, SeedIsLabel DEF Remount, FiltersSound
  <2>4. /\ ShapeSound(map', tab', url'.tags, ranges') /\ FetchesSound(map', fetches')
        /\ PressSound(map', fetches', press') /\ TreeSound(map', url'.tags, Null)
    BY <1>1, <1>2, <1>4, MountKeeps
  <2>5. QED
    BY <1>4, <2>3, <2>4, Deselected DEF MapsSound
<1>5. CASE tab # TabOf(nav) /\ ForgetAcrossTabs /\ Mount(nav)
  <2>1. Select(Null) /\ request' = Null /\ UNCHANGED <<ranges, timers, options>>
    BY <1>5 DEF ForgetAcrossTabs
  <2>2. FiltersSound(url', nav', ranges', timers', options', request')
    BY <1>1, <2>1 DEF MapsSound, FiltersSound
  <2>3. /\ ShapeSound(map', tab', url'.tags, ranges') /\ FetchesSound(map', fetches')
        /\ PressSound(map', fetches', press') /\ TreeSound(map', url'.tags, Null)
    BY <1>1, <1>2, <1>5, MountKeeps
  <2>4. QED
    BY <2>1, <2>2, <2>3, Deselected DEF MapsSound
<1>6. ASSUME tab = TabOf(nav), UNCHANGED <<ranges, timers, options, request>>
      PROVE  FiltersSound(url', nav', ranges', timers', options', request') /\ tab' = tab
  <2>1. FiltersSound(url, nav, ranges, timers, options, request) /\ tab' = tab
    BY <1>2, <1>6 DEF MapsSound
  <2>2. request # Null => TabOf(url') = "tags"
    BY <1>1, <1>6, <2>1 DEF FiltersSound, tab
  <2>3. QED
    BY <1>1, <1>6, <2>1, <2>2 DEF FiltersSound
<1>7. CASE /\ tab = TabOf(nav) /\ UNCHANGED <<ranges, timers, options, request>>
           /\ ForceTab /\ Follow(nav, ranges) /\ UNCHANGED listVars
  <2>1. tab # "none" /\ map.tab # "group"
    BY <1>1, <1>7 DEF ForceTab
  <2>2. /\ ShapeSound(map', tab, nav.tags, ranges) /\ FetchesSound(map', fetches')
        /\ PressSound(map', fetches', press') /\ map'.tab = map.tab
    BY <1>7, <2>1, FollowKeeps
  <2>3. TreeSound(map', url'.tags, selection')
    BY <2>1, <2>2 DEF TreeSound
  <2>4. QED
    BY <1>1, <1>6, <1>7, <2>2, <2>3 DEF MapsSound, listVars
<1>8. CASE /\ tab = TabOf(nav) /\ UNCHANGED <<ranges, timers, options, request>>
           /\ GroupTab /\ map' = Reset(map) /\ Select(Null) /\ UNCHANGED <<fetches, press>>
  <2>1. SameData(map, map') /\ map'.focus = Null /\ map'.selectedId = Null
    BY <1>8, ChosenParts DEF Reset, MapsSound, ShapeSound
  <2>2. /\ ShapeSound(map', tab, url.tags, ranges) /\ FetchesSound(map', fetches')
        /\ PressSound(map', fetches', press')
    BY <1>8, <2>1, SameDataKeeps
  <2>3. tab = "group" /\ FetchUrl("group", nav.tags, ranges) = FetchUrl("group", url.tags, ranges)
    BY <1>1, <1>8 DEF GroupTab, FetchUrl
  <2>4. ShapeSound(map', tab', url'.tags, ranges')
    BY <1>1, <1>6, <1>8, <2>2, <2>3 DEF ShapeSound
  <2>5. TreeSound(map', url'.tags, selection')
    BY <1>8, <2>1, Deselected DEF TreeSound
  <2>6. QED
    BY <1>6, <1>8, <2>2, <2>4, <2>5, Deselected DEF MapsSound
<1>9. CASE /\ tab = TabOf(nav) /\ UNCHANGED <<ranges, timers, options, request>>
           /\ UNCHANGED <<mapVars, listVars>>
           /\ tab = "none" \/ (GroupTab /\ nav.tags = url.tags)
  <2>1. ShapeSound(map', tab', url'.tags, ranges')
    <3>1. CASE tab = "none"
      BY <1>1, <1>6, <1>9, <3>1 DEF MapsSound, ShapeSound, mapVars
    <3>2. CASE nav.tags = url.tags
      BY <1>1, <1>6, <1>9, <3>2 DEF MapsSound, mapVars
    <3>3. QED
      BY <1>9, <3>1, <3>2
  <2>2. TreeSound(map', url'.tags, selection')
    <3>1. CASE tab = "none"
      BY <1>1, <1>9, <3>1 DEF TreeSound, mapVars
    <3>2. CASE nav.tags = url.tags
      BY <1>1, <1>9, <3>2 DEF MapsSound, mapVars, listVars
    <3>3. QED
      BY <1>9, <3>1, <3>2
  <2>3. QED
    BY <1>6, <1>9, <2>1, <2>2 DEF MapsSound, mapVars, listVars
<1>10. QED
  BY <1>4, <1>5, <1>7, <1>8, <1>9 DEF Commit

\* Where the page opens.
LEMMA MapsStart ==
  ASSUME MapsInit
  PROVE  MapsSound
<1> DEFINE key == FetchUrl(tab, url.tags, url.ranges)
<1>1. /\ url \in Addresses /\ nav = Null /\ timers = {} /\ options = {} /\ request = Seed(url)
      /\ ranges = (IF url.view = "map" THEN url.ranges ELSE NoRanges)
      /\ selection = Null /\ related = Null /\ relatedFetches = {} /\ press = Null
      /\ map = (IF tab = "none" THEN NoMap ELSE Fresh(tab, key))
      /\ fetches = (IF tab = "none" THEN {} ELSE {Ask(tab, key)})
  BY MapData DEF MapsInit
<1>2. tab \in MapTabs /\ (tab # "none" => url.view = "map")
  BY <1>1, AddressParts DEF tab, TabOf, MapTabs
<1>3. FiltersSound(url, nav, ranges, timers, options, request)
  <2>1. ranges \in [Fields -> Values]
    BY <1>1, AddressParts, MapBounds DEF NoRanges
  <2>2. QED
    BY <1>1, <2>1, SeedIsLabel DEF FiltersSound
<1>4. ListSound(selection, related, relatedFetches) /\ OfTab(selection, tab)
      /\ PressSound(map, fetches, press)
  BY <1>1 DEF ListSound, OfTab, PressSound
<1>5. ShapeSound(map, tab, url.tags, ranges) /\ FetchesSound(map, fetches)
      /\ TreeSound(map, url.tags, selection)
  <2>1. key = FetchUrl(tab, url.tags, url.ranges)
    OBVIOUS
  <2> HIDE DEF key
  <2>2. CASE tab = "none"
    <3> DEFINE tk == [tags |-> <<>>, ranges |-> NoRanges]
               fresh == Fresh("tags", tk)
    <3>1. map = [fresh EXCEPT !.tab = "none"] /\ fetches = {}
      BY <1>1, <2>2 DEF NoMap
    <3>2. IsMap(fresh) /\ fresh.nodes = Fallback("tags", tk) /\ fresh.sim = Null
      BY FreshIsMap
    <3> HIDE DEF fresh
    <3>3. IsMap(map) /\ map.tab = "none" /\ map.nodes = fresh.nodes /\ map.sim = fresh.sim
      BY <3>1, <3>2 DEF IsMap, MapFields
    <3>4. ShapeSound(map, tab, url.tags, ranges)
      BY <1>2, <2>2, <3>2, <3>3, ServedIsDrawable DEF ShapeSound
    <3>5. QED
      BY <3>1, <3>3, <3>4 DEF FetchesSound, TreeSound
  <2>3. CASE tab # "none"
    <3>1. /\ map = Fresh(tab, key) /\ fetches = {Ask(tab, key)} /\ ranges = url.ranges
      BY <1>1, <1>2, <2>3
    <3>2. /\ IsMap(map) /\ map.tab = tab /\ map.key = key /\ map.nodes = Fallback(tab, key)
          /\ map.loading /\ map.source = "sample" /\ map.selectedId = Null
          /\ map.focus = Null /\ map.camera = Null /\ map.sim = Null
      BY <3>1, FreshIsMap
    <3>3. tab = "group" => Fallback(tab, key) = SampleApps
      BY <2>1, GroupFallback
    <3>4. ShapeSound(map, tab, url.tags, ranges)
      BY <1>2, <2>1, <3>1, <3>2, <3>3, ServedIsDrawable DEF ShapeSound
    <3>5. FetchesSound(map, fetches)
      BY <2>3, <3>1, <3>2 DEF FetchesSound, Ask
    <3>6. TreeSound(map, url.tags, selection)
      BY <1>1, <3>2 DEF TreeSound
    <3>7. QED
      BY <3>4, <3>5, <3>6
  <2>4. QED
    BY <2>2, <2>3
<1>6. QED
  BY <1>3, <1>4, <1>5 DEF MapsSound

LEMMA MapsStep ==
  ASSUME MapsSound, [MapsNext]_mapsVars
  PROVE  MapsSound'
<1>1. CASE UNCHANGED mapsVars
  BY <1>1 DEF mapsVars, filterVars, listVars, mapVars, MapsSound, tab
<1>2. CASE \E f \in fetches : AnswerFetch(f)
  BY <1>2, AnswerFetchKeeps
<1>3. CASE \E r \in relatedFetches : AnswerRelated(r)
  BY <1>3, AnswerRelatedKeeps
<1>4. CASE \E t \in timers : TimerFires(t)
  BY <1>4, TimerKeeps
<1>5. CASE \/ \E n \in map.nodes : handleNodeListSelect(n)
           \/ \E i \in DOMAIN Metrics : handleSizeChange(Metrics[i])
  BY <1>5, NodeListSelectKeeps, SizeChangeKeeps
<1>6. CASE \E t \in Tags : selectTagOnMap(t)
  BY <1>6, SelectTagKeeps
<1>7. CASE \E f \in Fields, v \in Values : onRangeChange(f, v)
  BY <1>7, RangeChangeKeeps
<1>8. CASE \/ \E t \in {"apps", "tags", "group"} : switchTab(t)
           \/ \E v \in {"leaderboard", "map"} : setTab(v)
  BY <1>8, SwitchTabKeeps, SetTabKeeps
<1>9. CASE Press \/ Drag \/ Release \/ ResetButton \/ LeafListSelect \/ zoomByFactor
  BY <1>9, PressKeeps, DragKeeps, ReleaseKeeps, ResetButtonKeeps, LeafListSelectKeeps,
     zoomByFactorKeeps
<1>10. CASE Commit \/ AnswerOptions \/ PickTag \/ ClearFilters \/ ClearSelection \/ clearRanges
  BY <1>10, CommitKeeps, OptionsKeep, PickTagKeeps, ClearFiltersKeeps, ClearSelectionKeeps,
     ClearRangesKeeps
<1>11. QED
  BY <1>1, <1>2, <1>3, <1>4, <1>5, <1>6, <1>7, <1>8, <1>9, <1>10 DEF MapsNext

\* What the tabs show belongs together, and to what was asked for.
LEMMA MapsSoundIsInv == MapsSound => MapsInv
<1> SUFFICES ASSUME MapsSound PROVE MapsInv
  OBVIOUS
<1>1. MapsTypeOK
  BY AddressParts DEF MapsTypeOK, MapsSound, FiltersSound, ShapeSound, Simulates, Timers, Labels,
     Drawable
<1>2. ShownIsAsked
  BY DEF ShownIsAsked, MapsSound, ShapeSound, ListSound
<1>3. MetricApplies
  BY DEF MetricApplies, MapsSound, ShapeSound, Simulates
<1>4. GroupListMatchesTree
  BY DEF GroupListMatchesTree, MapsSound, TreeSound, GroupTab
<1>5. SelectionOfThisTab
  BY DEF SelectionOfThisTab, MapsSound, OfTab, FiltersSound, tab
<1>6. QED
  BY <1>1, <1>2, <1>3, <1>4, <1>5 DEF MapsInv

\* For any apps, tags, addresses and metrics: the mounted map, its camera, its selection and
\* the list below it agree with the filters and with one another (the effects of ForceMap,
\* GroupMap, RelatedApps and ExploreMaps).
THEOREM MapsAgree == MapsSpec => []MapsInv
<1>1. MapsInit => MapsSound
  BY MapsStart
<1>2. MapsSound /\ [MapsNext]_mapsVars => MapsSound'
  BY MapsStep
<1>3. QED
  BY <1>1, <1>2, MapsSoundIsInv, PTL DEF MapsSpec
================================================================================
