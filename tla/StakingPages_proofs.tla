--------------------------- MODULE StakingPages_proofs ---------------------------
(***************************************************************************)
(* Theorems about StakingPages, for every finite set of tags, any holdings *)
(* and any number of polls, transactions and failures: reports are true,   *)
(* buttons come back, and the vote panel runs one transaction at a time.   *)
(*                                                                         *)
(* A request belongs to the page it was started on until that is left, so  *)
(* that its kind tells which flag it holds and which edits it makes; its   *)
(* phase tells what it still has to do (RequestSound).  An answer under    *)
(* way fits the page (PollSound): the reads of one row are dropped with    *)
(* the row.                                                                *)
(***************************************************************************)
EXTENDS StakingPages, DataTheorems, SequenceTheorems

LedgerRows == [target : Targets, amount : 0..MaxStake]
Account == [amount : 0..MaxStake, pending : 0..(MaxEvents + 1), open : BOOLEAN]

Kinds == {"stake", "withdraw", "claim", "suggest", "unstake", "claimAll", "closeAll"}
OfMany == {"claimAll", "closeAll"}    \* the kinds of several transactions

\* What can be started on a page.
KindsOn(p) ==
  CASE p \in Panels -> {"stake", "withdraw", "claim", "suggest"}
    [] p = "profile" -> {"unstake", "claim"}
    [] p = "rewards" -> {"claim", "claimAll", "closeAll"}

Requests ==
  [id : Nat, kind : Kinds, target : Targets, amount : Nat, row : 0..Len(rows),
   todo : SUBSET Targets, closed : SUBSET Targets, full : BOOLEAN,
   pc : {"chain", "ledger", "answer", "answered"},
   ok : BOOLEAN, live : BOOLEAN, recorded : BOOLEAN]

\* A request of the page is of one of its kinds; one of a single transaction has that
\* one to make or none; only what reached the ledger is answered as a success.
RequestSound(r) ==
  /\ r \in Requests
  /\ r.live => r.kind \in KindsOn(page)
  /\ r.kind \notin OfMany => IF r.pc = "chain" THEN \E t \in Targets : r.todo = {t}
                                               ELSE r.todo = {}
  /\ r.kind = "withdraw" => r.row \in DOMAIN rows
  /\ r.pc = "ledger" => r.kind \in Recorded /\ (r.kind = "stake" => r.amount <= MaxStake)
  /\ r.pc = "answer" /\ r.ok /\ r.kind \in Recorded => r.recorded

\* The rows of a panel show what the ledger has.
PanelRow == {w \in Rows : w.row \in DOMAIN rows /\ w.amount \in Nat}

\* An answer under way was asked for by the page; a row that is being read is shown.
PollSound(p) ==
  \/ /\ p.kind = "panel" /\ page \in Panels /\ p.target \in InPanel
     /\ p.row \in PanelRow \cup {None}
  \/ /\ p.kind = "detail" /\ page \in Panels /\ p.target \in InPanel
     /\ shown[p.target] \in PanelRow /\ p.account \in Account
  \/ p.kind = "list" /\ page \in ListPages /\ p.amounts \in [Targets -> Nat]
  \/ /\ p.kind = "accounts" /\ page \in ListPages
     /\ p.amounts \in [Targets -> Nat] /\ p.accounts \in [Targets -> Account]
  \/ p.kind = "close" /\ page = "rewards" /\ p.targets \subseteq Targets

\* A reward was there at first or funded since.
WorldSound ==
  /\ chain \in [Targets -> Account] /\ mirror \in [Targets -> Account]
  /\ rows \in Seq(LedgerRows)
  /\ events \in 0..MaxEvents
  /\ \A t \in Targets : chain[t].pending <= events + 1 /\ mirror[t].pending <= events + 1

\* Only MyStakes may show an amount below zero: it takes what was asked for off a row
\* that a poll has replaced meanwhile.
PageSound ==
  /\ page \in Pages
  /\ shown \in [Targets -> Rows \cup {None}]
  /\ page \in Panels => \A t \in Targets : shown[t] \in PanelRow \cup {None}
  /\ closeable \subseteq Targets
  /\ form.key \in Targets \cup {None}
  /\ locks \in [Locks -> Targets \cup {None}]

VoteIsBusy == page = "vote" => \A r \in reqs : r.live => locks["busy"] # None

IInv ==
  /\ WorldSound /\ PageSound
  /\ \A r \in reqs : RequestSound(r)
  /\ \A p \in polls : PollSound(p)
  /\ NoStuckButton /\ VoteIsBusy /\ VoteRequestsDoNotOverlap

-----------------------------------------------------------------------------
(***************************************************************************)
(* Constants, rows and sums.                                               *)
(***************************************************************************)
LEMMA Constants ==
  /\ None \notin Targets /\ VoteTarget \in Targets /\ Tags \subseteq Targets
  /\ IsFiniteSet(Targets)
  /\ MaxStake \in Nat /\ MaxEvents \in Nat /\ HeldAmount \in 0..MaxStake
  /\ \A S \in Held : S \subseteq Targets
<1>1. IsFiniteSet({VoteTarget})
  BY FS_Singleton
<1>2. IsFiniteSet({VoteTarget} \cup Tags)
  BY <1>1, TagsFinite, FS_Union
<1>3. QED
  BY <1>2, NoneIsNoTarget, HoldsTargets, Bounds DEF Targets

LEMMA Ledger ==
  ASSUME WorldSound
  PROVE  /\ DOMAIN rows = 1..Len(rows) /\ Len(rows) \in Nat
         /\ \A i \in DOMAIN rows : rows[i] \in LedgerRows /\ rows[i].amount \in 0..MaxStake
         /\ IsFiniteSet(DOMAIN rows)
<1>1. DOMAIN rows = 1..Len(rows) /\ Len(rows) \in Nat
      /\ \A i \in DOMAIN rows : rows[i] \in LedgerRows
  BY DEF WorldSound
<1>2. IsFiniteSet(1..Len(rows))
  BY <1>1, FS_Interval
<1>3. QED
  BY <1>1, <1>2 DEF LedgerRows

LEMMA StakedIsNat ==
  ASSUME WorldSound, NEW t \in Targets
  PROVE  /\ ActiveOf(t) \subseteq DOMAIN rows /\ Staked(t) \in Nat
         /\ \A i \in Nat : SumFunctionOnSet(Amounts, {j \in ActiveOf(t) : j < i}) \in Nat
<1>1. ActiveOf(t) \subseteq DOMAIN rows
  BY DEF ActiveOf
<1>2. ASSUME NEW S \in SUBSET DOMAIN rows PROVE SumFunctionOnSet(Amounts, S) \in Nat
  <2>1. IsFiniteSet(S)
    BY Ledger, FS_Subset
  <2>2. \A x \in S : Amounts[x] \in Nat
    BY Ledger DEF Amounts
  <2>3. QED
    BY <2>1, <2>2, SumIsNat
<1>3. QED
  BY <1>1, <1>2 DEF Staked

\* What is taken from a row is at most what it has.
LEMMA AtMost ==
  ASSUME NEW a \in Nat, NEW b \in Int
  PROVE  Min({a, Max({0, b})}) \in 0..a
<1>1. PICK m \in {0, b} : \A y \in {0, b} : m >= y
  <2>1. CASE b <= 0
    BY <2>1
  <2>2. CASE b > 0
    BY <2>2
  <2>3. QED
    BY <2>1, <2>2
<1>2. Max({0, b}) \in {0, b} /\ Max({0, b}) >= 0
  BY <1>1 DEF Max
<1>3. PICK c \in Int : c = Max({0, b}) /\ c >= 0
  BY <1>2
<1>4. PICK n \in {a, c} : \A y \in {a, c} : n <= y
  <2>1. CASE a <= c
    BY <2>1, <1>3
  <2>2. CASE c < a
    BY <2>2, <1>3
  <2>3. QED
    BY <2>1, <2>2, <1>3
<1>5. Min({a, c}) \in {a, c} /\ Min({a, c}) <= a
  BY <1>4 DEF Min
<1>6. QED
  BY <1>3, <1>5

\* What a request makes of the ledger: its rows keep their types, and none is removed.
LEMMA LedgerGrows ==
  ASSUME WorldSound, NEW r, RequestSound(r), r.pc = "ledger"
  PROVE  LedgerAfter(r) \in Seq(LedgerRows) /\ Len(LedgerAfter(r)) \in Nat
         /\ Len(LedgerAfter(r)) >= Len(rows)
<1> DEFINE n == Len(rows)
<1>1. n \in Nat /\ rows \in [1..n -> LedgerRows] /\ DOMAIN rows = 1..n
  BY Ledger DEF WorldSound
<1>2. r.target \in Targets /\ r.amount \in Nat /\ r.kind \in Recorded
      /\ (r.kind = "stake" => r.amount \in 0..MaxStake)
  BY Constants DEF RequestSound, Requests
<1>3. ASSUME NEW s \in [1..n -> LedgerRows]
      PROVE  s \in Seq(LedgerRows) /\ Len(s) = n
  BY <1>1, <1>3
<1>4. CASE r.kind = "stake"
  <2>1. LedgerAfter(r) = Append(rows, [target |-> r.target, amount |-> r.amount])
    BY <1>4 DEF LedgerAfter
  <2>2. [target |-> r.target, amount |-> r.amount] \in LedgerRows
    BY <1>2, <1>4 DEF LedgerRows
  <2>3. QED
    BY <2>1, <2>2 DEF WorldSound
<1>5. CASE r.kind = "withdraw"
  <2>1. LedgerAfter(r) = [rows EXCEPT ![r.row].amount = 0]
    BY <1>5 DEF LedgerAfter
  <2>0. \A i \in 1..n : [rows[i] EXCEPT !.amount = 0] \in LedgerRows
    BY <1>1, Constants DEF LedgerRows
  <2>2. LedgerAfter(r) \in [1..n -> LedgerRows]
    <3> HIDE DEF n
    <3>1. ASSUME NEW f, f \in [1..n -> LedgerRows], NEW x, NEW i, x = [f[i] EXCEPT !.amount = 0],
                 i \in 1..n => x \in LedgerRows
          PROVE  [f EXCEPT ![i] = x] \in [1..n -> LedgerRows]
      BY <3>1
    <3>2. LedgerAfter(r) = [rows EXCEPT ![r.row] = [rows[r.row] EXCEPT !.amount = 0]]
      BY <2>1
    <3>3. QED
      BY <1>1, <2>0, <3>1, <3>2
  <2>3. QED
    BY <1>1, <1>3, <2>2
<1>6. CASE r.kind = "unstake"
  <2>1. LedgerAfter(r) = [i \in DOMAIN rows |->
            IF i \in ActiveOf(r.target)
              THEN [rows[i] EXCEPT !.amount = @ - Taken(r.target, r.amount, i)]
              ELSE rows[i]]
    BY <1>6 DEF LedgerAfter
  <2>2. ASSUME NEW i \in DOMAIN rows
        PROVE  [rows[i] EXCEPT !.amount = @ - Taken(r.target, r.amount, i)] \in LedgerRows
    <3>0. PICK before \in Nat :
              before = SumFunctionOnSet(Amounts, {j \in ActiveOf(r.target) : j < i})
      <4>1. r.target \in Targets /\ i \in Nat
        BY <1>1, <1>2
      <4>2. SumFunctionOnSet(Amounts, {j \in ActiveOf(r.target) : j < i}) \in Nat
        BY <4>1, StakedIsNat
      <4>3. QED
        BY <4>2
    <3>a. rows[i].amount \in Nat /\ r.amount - before \in Int
      BY <1>1, <1>2, Ledger
    <3>1. Taken(r.target, r.amount, i) \in 0..rows[i].amount
      BY <3>0, <3>a, AtMost DEF Taken
    <3>2. rows[i] \in LedgerRows /\ rows[i].amount \in 0..MaxStake
      BY Ledger
    <3>3. rows[i].amount - Taken(r.target, r.amount, i) \in 0..MaxStake
      BY <3>1, <3>2, Constants
    <3>4. QED
      BY <3>2, <3>3 DEF LedgerRows
  <2>3. LedgerAfter(r) \in [1..n -> LedgerRows]
    BY <1>1, <2>1, <2>2
  <2>4. QED
    BY <1>1, <1>3, <2>3
<1>7. QED
  BY <1>2, <1>4, <1>5, <1>6 DEF Recorded

\* The rows a page may show, and requests, only become more as the ledger grows.
LEMMA MoreRows ==
  ASSUME WorldSound, Len(rows') \in Nat, Len(rows') >= Len(rows)
  PROVE  /\ Rows \subseteq Rows' /\ Requests \subseteq Requests'
         /\ rows' \in Seq(LedgerRows)
              => PanelRow \subseteq PanelRow' /\ DOMAIN rows \subseteq DOMAIN rows'
<1>1. 0..Len(rows) \subseteq 0..Len(rows')
  BY Ledger
<1>2. ASSUME rows' \in Seq(LedgerRows) PROVE DOMAIN rows \subseteq DOMAIN rows'
  BY <1>2, Ledger
<1>3. Rows \subseteq Rows' /\ Requests \subseteq Requests'
  BY <1>1 DEF Rows, Requests
<1>4. QED
  BY <1>2, <1>3 DEF PanelRow

\* What the program makes of a position stays within its types, and only a funding adds
\* to a reward.
LEMMA ChainKeepsType ==
  ASSUME WorldSound, NEW r, RequestSound(r), NEW t \in Targets, ChainAccepts(r, t)
  PROVE  /\ ChainAfter(r, t) \in [Targets -> Account]
         /\ \A u \in Targets : ChainAfter(r, t)[u].pending <= events + 1
<1>1. /\ r.kind \in Kinds /\ r.amount \in Nat
      /\ chain \in [Targets -> Account] /\ chain[t] \in Account
      /\ chain[t].amount \in 0..MaxStake /\ MaxStake \in Nat /\ MaxEvents \in Nat
      /\ events \in 0..MaxEvents
      /\ \A u \in Targets : chain[u].pending <= events + 1
  BY Constants DEF WorldSound, RequestSound, Requests, Account
<1>2. ASSUME NEW c \in Account, c.pending <= events + 1, ChainAfter(r, t) = [chain EXCEPT ![t] = c]
      PROVE  /\ ChainAfter(r, t) \in [Targets -> Account]
             /\ \A u \in Targets : ChainAfter(r, t)[u].pending <= events + 1
  BY <1>1, <1>2
<1>3. CASE r.kind = "stake"
  <2> DEFINE c == [amount |-> chain[t].amount + r.amount, pending |-> 0, open |-> TRUE]
  <2>1. c \in Account /\ c.pending <= events + 1
    BY <1>1, <1>3 DEF ChainAccepts, Account
  <2>2. ChainAfter(r, t) = [chain EXCEPT ![t] = c]
    BY <1>3 DEF ChainAfter
  <2>3. QED
    BY <1>2, <2>1, <2>2
<1>4. CASE r.kind \in {"withdraw", "unstake"}
  <2> DEFINE c == [chain[t] EXCEPT !.amount = @ - r.amount, !.pending = 0]
  <2>0. chain[t].amount - r.amount \in 0..MaxStake
    BY <1>1, <1>4 DEF ChainAccepts
  <2>1. c \in Account /\ c.pending <= events + 1
    <3> DEFINE a == [chain[t] EXCEPT !.amount = @ - r.amount]
    <3>1. a \in Account
      BY <1>1, <2>0 DEF Account
    <3>2. c = [a EXCEPT !.pending = 0]
      OBVIOUS
    <3> HIDE DEF a
    <3>3. [a EXCEPT !.pending = 0] \in Account /\ [a EXCEPT !.pending = 0].pending <= events + 1
      BY <1>1, <3>1 DEF Account
    <3>4. QED
      BY <3>2, <3>3
  <2>2. ChainAfter(r, t) = [chain EXCEPT ![t] = c]
    BY <1>1, <1>4 DEF ChainAfter
  <2>3. QED
    BY <1>2, <2>1, <2>2
<1>5. CASE r.kind \in {"claim", "claimAll"}
  <2> DEFINE c == [chain[t] EXCEPT !.pending = 0]
  <2>1. c \in Account /\ c.pending <= events + 1
    BY <1>1 DEF Account
  <2>2. ChainAfter(r, t) = [chain EXCEPT ![t] = c]
    BY <1>5 DEF ChainAfter
  <2>3. QED
    BY <1>2, <2>1, <2>2
<1>6. CASE r.kind = "closeAll"
  <2> DEFINE c == [chain[t] EXCEPT !.open = FALSE]
  <2>1. c \in Account /\ c.pending <= events + 1
    BY <1>1 DEF Account
  <2>2. ChainAfter(r, t) = [chain EXCEPT ![t] = c]
    BY <1>6 DEF ChainAfter
  <2>3. QED
    BY <1>2, <2>1, <2>2
<1>7. CASE r.kind = "suggest"
  BY <1>1, <1>7 DEF ChainAfter
<1>8. QED
  BY <1>1, <1>3, <1>4, <1>5, <1>6, <1>7 DEF Kinds

-----------------------------------------------------------------------------
(***************************************************************************)
(* Steps of one kind keep the invariant alike.                             *)
(***************************************************************************)

\* A poll is asked for or answered: what is shown and what is under way have to be right.
LEMMA PollStep ==
  ASSUME IInv, UNCHANGED <<world, page, form, locks, reqs>>,
         events' \in 0..MaxEvents, events' >= events,
         PageSound', \A p \in polls' : PollSound(p)'
  PROVE  IInv'
<1>1. WorldSound'
  <2>1. \A t \in Targets : chain[t].pending \in Nat /\ mirror[t].pending \in Nat
    BY DEF IInv, WorldSound, Account
  <2>2. events \in Nat /\ events' \in Nat
    BY Constants DEF IInv, WorldSound
  <2>3. \A e, f, i \in Nat : e <= f /\ i <= e + 1 => i <= f + 1
    OBVIOUS
  <2>4. QED
    BY <2>1, <2>2, <2>3 DEF IInv, WorldSound, world
<1>2. ASSUME NEW r \in reqs' PROVE RequestSound(r)'
  BY <1>2 DEF IInv, RequestSound, Requests, world
<1>3. NoStuckButton' /\ VoteIsBusy' /\ VoteRequestsDoNotOverlap'
  BY DEF IInv, NoStuckButton, VoteIsBusy, VoteRequestsDoNotOverlap, LockOf
<1>4. QED
  BY <1>1, <1>2, <1>3 DEF IInv

\* The world moves on behind the page: an account, here or there.
LEMMA WorldStep ==
  ASSUME IInv, UNCHANGED <<rows, page, panel, polls, reqs>>, WorldSound'
  PROVE  IInv'
<1>1. PageSound'
  BY DEF IInv, PageSound, Rows, PanelRow, panel
<1>2. ASSUME NEW r \in reqs' PROVE RequestSound(r)'
  BY <1>2 DEF IInv, RequestSound, Requests
<1>3. ASSUME NEW p \in polls' PROVE PollSound(p)'
  BY <1>3 DEF IInv, PollSound, Rows, PanelRow, panel, InPanel
<1>4. NoStuckButton' /\ VoteIsBusy' /\ VoteRequestsDoNotOverlap'
  BY DEF IInv, NoStuckButton, VoteIsBusy, VoteRequestsDoNotOverlap, LockOf, panel
<1>5. QED
  BY <1>1, <1>2, <1>3, <1>4 DEF IInv

\* A panel of the page opens or closes.
LEMMA FormStep ==
  ASSUME IInv, UNCHANGED <<world, page, shown, closeable, locks, polls, reqs, events>>,
         form'.key \in Targets \cup {None}
  PROVE  IInv'
<1>1. WorldSound' /\ PageSound'
  BY DEF IInv, WorldSound, PageSound, Rows, PanelRow, world
<1>2. ASSUME NEW r \in reqs' PROVE RequestSound(r)'
  BY <1>2 DEF IInv, RequestSound, Requests, world
<1>3. ASSUME NEW p \in polls' PROVE PollSound(p)'
  BY <1>3 DEF IInv, PollSound, Rows, PanelRow, InPanel, world
<1>4. NoStuckButton' /\ VoteIsBusy' /\ VoteRequestsDoNotOverlap'
  BY DEF IInv, NoStuckButton, VoteIsBusy, VoteRequestsDoNotOverlap, LockOf
<1>5. QED
  BY <1>1, <1>2, <1>3, <1>4 DEF IInv

-----------------------------------------------------------------------------
(***************************************************************************)
(* Polls.                                                                  *)
(***************************************************************************)
LEMMA InvParts ==
  ASSUME IInv
  PROVE  /\ page \in Pages /\ events \in 0..MaxEvents /\ events \in Nat
         /\ \A t \in Targets : /\ mirror[t] \in Account /\ chain[t] \in Account
                               /\ shown[t] \in Rows \cup {None}
                               /\ shown[t] # None => shown[t] \in Rows
                               /\ page \in Panels => shown[t] \in PanelRow \cup {None}
         /\ shown \in [Targets -> Rows \cup {None}] /\ DOMAIN shown = Targets
         /\ Panels \cap ListPages = {} /\ "rewards" \in ListPages
         /\ InPanel \subseteq Targets
BY Constants DEF IInv, WorldSound, PageSound, InPanel, Panels, ListPages

LEMMA PollKinds ==
  ASSUME IInv, NEW p \in polls
  PROVE  /\ PollSound(p)
         /\ p.kind = "panel" => /\ page \in Panels /\ page \notin ListPages /\ p.target \in InPanel
                                /\ p.target \in Targets
                                /\ p.row \in PanelRow \cup {None}
         /\ p.kind = "detail" => /\ page \in Panels /\ page \notin ListPages /\ p.target \in Targets
                                 /\ shown[p.target] \in PanelRow /\ p.account \in Account
         /\ p.kind = "list" => page \in ListPages /\ p.amounts \in [Targets -> Nat]
         /\ p.kind = "accounts" => /\ page \in ListPages /\ p.amounts \in [Targets -> Nat]
                                   /\ p.accounts \in [Targets -> Account]
         /\ p.kind = "close" => page = "rewards" /\ p.targets \subseteq Targets
         /\ p.kind \in {"panel", "detail", "list", "accounts", "close"}
<1>1. PollSound(p)
  BY DEF IInv
<1>2. QED
  BY <1>1, InvParts DEF PollSound

\* An answer stays right if the row it is about is still shown.
LEMMA StillSound ==
  ASSUME IInv, UNCHANGED <<world, page>>, NEW p \in polls,
         p.kind = "detail" => shown'[p.target] \in PanelRow
  PROVE  PollSound(p)'
<1>1. Rows' = Rows /\ PanelRow' = PanelRow /\ InPanel' = InPanel
  BY DEF Rows, PanelRow, InPanel, world
<1>2. QED
  BY <1>1, PollKinds DEF PollSound

LEMMA RewardIsKnown ==
  ASSUME NEW a \in Account
  PROVE  settlePendingRaw(a) \in Nat \cup {Unknown}
BY Constants DEF settlePendingRaw, Account

\* The page after its rows alone have changed.
LEMMA ShownStep ==
  ASSUME IInv, UNCHANGED <<world, page, closeable, form, locks>>,
         shown' \in [Targets -> Rows \cup {None}],
         page \in Panels => \A t \in Targets : shown'[t] \in PanelRow \cup {None}
  PROVE  PageSound'
<1>1. Rows' = Rows /\ PanelRow' = PanelRow
  BY DEF Rows, PanelRow, world
<1>2. QED
  BY <1>1 DEF IInv, PageSound

LEMMA PollPanelKeeps ==
  ASSUME IInv, PollPanel
  PROVE  IInv'
<1>1. UNCHANGED <<world, page, shown, closeable, form, locks, reqs, events>> /\ page \in Panels
  BY DEF PollPanel, panel
<1>2. PageSound'
  BY <1>1, ShownStep, InvParts
<1>3. ASSUME NEW p \in polls', p \notin polls PROVE PollSound(p)'
  <2>1. PICK f : /\ \A t \in InPanel : f[t] \in PanelRows(t)
                 /\ p \in {[kind |-> "panel", target |-> t, row |-> f[t]] : t \in InPanel}
    BY <1>3 DEF PollPanel
  <2>2. PICK t \in InPanel : p = [kind |-> "panel", target |-> t, row |-> f[t]]
    BY <2>1
  <2>3. t \in Targets /\ WorldSound
    BY InvParts DEF IInv
  <2>4. ASSUME NEW i \in ActiveOf(t)
        PROVE  [row |-> i, amount |-> rows[i].amount, pending |-> Unknown] \in PanelRow
    <3>1. i \in DOMAIN rows
      BY <2>3, <2>4, StakedIsNat
    <3>2. i \in 0..Len(rows) /\ i \in DOMAIN rows /\ rows[i].amount \in Nat
      BY <2>3, <3>1, Ledger
    <3>3. QED
      BY <3>2 DEF Rows, PanelRow
  <2>5. f[t] \in PanelRow \cup {None}
    <3>1. f[t] \in PanelRows(t)
      BY <2>1
    <3>2. QED
      BY <2>4, <3>1 DEF PanelRows
  <2>6. Rows' = Rows /\ PanelRow' = PanelRow /\ InPanel' = InPanel
    BY <1>1 DEF Rows, PanelRow, InPanel, world
  <2>7. QED
    BY <1>1, <2>2, <2>5, <2>6 DEF PollSound
<1>4. ASSUME NEW p \in polls PROVE PollSound(p)'
  BY <1>1, <1>4, StillSound, PollKinds
<1>5. QED
  BY <1>1, <1>2, <1>3, <1>4, PollStep, InvParts

LEMMA ShowPanelRowKeeps ==
  ASSUME IInv, NEW p \in polls, ShowPanelRow(p)
  PROVE  IInv'
<1> DEFINE t == p.target
           row == IF p.row # None /\ shown[t] # None
                    THEN [p.row EXCEPT !.pending = shown[t].pending] ELSE p.row
<1>1. /\ UNCHANGED <<world, page, closeable, form, locks, reqs, events>>
      /\ p.kind = "panel" /\ shown' = [shown EXCEPT ![t] = row]
      /\ polls' = {q \in polls \ {p} : ~(q.kind = "detail" /\ q.target = t)}
                    \cup (IF p.row = None THEN {} ELSE {Detail(t)})
  BY DEF ShowPanelRow
<1>2. /\ page \in Panels /\ t \in InPanel /\ t \in Targets
      /\ p.row \in PanelRow \cup {None}
  BY <1>1, PollKinds
<1>3. /\ p.row = None => row = None
      /\ p.row # None => row \in PanelRow
  <2>1. CASE p.row # None /\ shown[t] # None
    <3>1. shown[t] \in Rows /\ p.row \in PanelRow
      BY <1>2, <2>1, InvParts
    <3>2. QED
      BY <1>2, <2>1, <3>1 DEF Rows, PanelRow
  <2>2. CASE ~(p.row # None /\ shown[t] # None)
    BY <1>2, <2>2
  <2>3. QED
    BY <2>1, <2>2
<1> HIDE DEF row
<1>a. row \in Rows \cup {None} /\ row \in PanelRow \cup {None}
  BY <1>3 DEF PanelRow
<1>4. PageSound'
  BY <1>1, <1>2, <1>a, ShownStep, InvParts
<1>5. ASSUME NEW q \in polls' PROVE PollSound(q)'
  <2>1. CASE q \in polls /\ ~(q.kind = "detail" /\ q.target = t)
    <3>1. q.kind = "detail" => shown'[q.target] \in PanelRow
      BY <1>1, <2>1, PollKinds, InvParts
    <3>2. QED
      BY <1>1, <2>1, <3>1, StillSound
  <2>2. CASE p.row # None /\ q = Detail(t)
    <3>1. Rows' = Rows /\ PanelRow' = PanelRow /\ InPanel' = InPanel /\ page' = page
      BY <1>1 DEF Rows, PanelRow, InPanel, world
    <3>2. shown'[t] \in PanelRow
      BY <1>1, <1>2, <1>3, <2>2, InvParts
    <3>3. mirror[t] \in Account
      BY <1>2, InvParts
    <3>4. QED
      BY <1>2, <2>2, <3>1, <3>2, <3>3 DEF PollSound, Detail
  <2>3. QED
    BY <1>1, <2>1, <2>2
<1>6. QED
  BY <1>1, <1>4, <1>5, PollStep, InvParts

LEMMA ShowDetailKeeps ==
  ASSUME IInv, NEW p \in polls, p.kind = "detail", ShowDetail(p)
  PROVE  IInv'
<1> DEFINE t == p.target
           row == [shown[t] EXCEPT !.pending = settlePendingRaw(p.account)]
<1>1. /\ UNCHANGED <<world, page, closeable, form, locks, reqs, events>>
      /\ shown' = [shown EXCEPT ![t] = row] /\ polls' = polls \ {p}
  BY DEF ShowDetail
<1>2. page \in Panels /\ t \in Targets /\ shown[t] \in PanelRow /\ p.account \in Account
  BY <1>1, PollKinds
<1>3. row \in PanelRow
  BY <1>2, RewardIsKnown DEF Rows, PanelRow
<1> HIDE DEF row
<1>4. row \in Rows
  BY <1>3 DEF PanelRow
<1>6. PageSound'
  BY <1>1, <1>2, <1>3, <1>4, ShownStep, InvParts
<1>7. ASSUME NEW q \in polls' PROVE PollSound(q)'
  <2>1. q.kind = "detail" => shown'[q.target] \in PanelRow
    BY <1>1, <1>3, <1>7, PollKinds, InvParts
  <2>2. QED
    BY <1>1, <1>7, <2>1, StillSound
<1>8. QED
  BY <1>1, <1>6, <1>7, PollStep, InvParts

LEMMA PollListKeeps ==
  ASSUME IInv, PollList
  PROVE  IInv'
<1>1. UNCHANGED <<world, page, shown, closeable, form, locks, reqs, events>> /\ page \in ListPages
  BY DEF PollList, panel
<1>2. PageSound'
  BY <1>1, ShownStep, InvParts
<1>3. RewardPositions \in [Targets -> Nat]
  BY StakedIsNat DEF RewardPositions, IInv
<1>4. ASSUME NEW p \in polls' PROVE PollSound(p)'
  <2>1. CASE p \in polls
    BY <1>1, <2>1, StillSound, PollKinds
  <2>2. CASE p = [kind |-> "list", amounts |-> RewardPositions]
    BY <1>1, <1>3, <2>2 DEF PollSound
  <2>3. QED
    BY <2>1, <2>2 DEF PollList
<1>5. QED
  BY <1>1, <1>2, <1>4, PollStep, InvParts

LEMMA BaseRowIsRow ==
  ASSUME IInv, NEW a \in [Targets -> Nat], NEW t \in Targets
  PROVE  BaseRow(a, t) \in Rows \cup {None}
<1>1. 0 \in 0..Len(rows)
  BY Ledger DEF IInv
<1>2. QED
  BY <1>1 DEF BaseRow, Rows

LEMMA DetailedRowIsRow ==
  ASSUME IInv, NEW p, p.amounts \in [Targets -> Nat], p.accounts \in [Targets -> Account],
         NEW t \in Targets
  PROVE  DetailedRow(p, t) \in Rows \cup {None}
<1>1. 0 \in 0..Len(rows)
  BY Ledger DEF IInv
<1>2. settlePendingRaw(p.accounts[t]) \in Nat \cup {Unknown} /\ p.amounts[t] \in Nat
  BY RewardIsKnown
<1>3. QED
  BY <1>1, <1>2 DEF DetailedRow, Rows

LEMMA ReceiveListKeeps ==
  ASSUME IInv, NEW p \in polls, ReceiveList(p)
  PROVE  IInv'
<1>1. /\ UNCHANGED <<world, page, closeable, form, locks, reqs, events>> /\ p.kind = "list"
      /\ polls' = (polls \ {p})
           \cup {[kind |-> "accounts", amounts |-> p.amounts, accounts |-> mirror]}
      /\ shown' = IF page = "profile" THEN [t \in Targets |-> BaseRow(p.amounts, t)] ELSE shown
  BY DEF ReceiveList
<1>2. page \in ListPages /\ page \notin Panels /\ p.amounts \in [Targets -> Nat]
  BY <1>1, PollKinds, InvParts
<1>3. shown' \in [Targets -> Rows \cup {None}]
  BY <1>1, <1>2, BaseRowIsRow, InvParts
<1>4. PageSound'
  BY <1>1, <1>2, <1>3, ShownStep
<1>5. ASSUME NEW q \in polls' PROVE PollSound(q)'
  <2>1. CASE q \in polls
    BY <1>1, <1>2, <2>1, StillSound, PollKinds
  <2>2. CASE q = [kind |-> "accounts", amounts |-> p.amounts, accounts |-> mirror]
    BY <1>1, <1>2, <2>2 DEF PollSound, IInv, WorldSound
  <2>3. QED
    BY <1>1, <2>1, <2>2
<1>6. QED
  BY <1>1, <1>4, <1>5, PollStep, InvParts

LEMMA ReceiveAccountsKeeps ==
  ASSUME IInv, NEW p \in polls, ReceiveAccounts(p)
  PROVE  IInv'
<1>1. /\ UNCHANGED <<world, page, closeable, form, locks, reqs, events>> /\ p.kind = "accounts"
      /\ polls' = polls \ {p} /\ shown' = [t \in Targets |-> DetailedRow(p, t)]
  BY DEF ReceiveAccounts
<1>2. /\ page \in ListPages /\ page \notin Panels
      /\ p.amounts \in [Targets -> Nat] /\ p.accounts \in [Targets -> Account]
  BY <1>1, PollKinds, InvParts
<1>3. shown' \in [Targets -> Rows \cup {None}]
  BY <1>1, <1>2, DetailedRowIsRow
<1>4. PageSound'
  BY <1>1, <1>2, <1>3, ShownStep
<1>5. ASSUME NEW q \in polls' PROVE PollSound(q)'
  BY <1>1, <1>2, <1>5, StillSound, PollKinds
<1>6. QED
  BY <1>1, <1>4, <1>5, PollStep, InvParts

LEMMA OneMoreEvent ==
  ASSUME IInv, Event
  PROVE  events' \in 0..MaxEvents /\ events' >= events /\ events' = events + 1
BY InvParts, Constants DEF Event

LEMMA ReadFailsKeeps ==
  ASSUME IInv, NEW p \in polls, ReadFails(p)
  PROVE  IInv'
<1>1. /\ UNCHANGED <<world, page, closeable, form, locks, reqs>> /\ p.kind # "close" /\ Event
      /\ polls' = {q \in polls \ {p} : q.kind = "detail" => shown'[q.target] # None}
      /\ shown' \in AfterFailure(p)
  BY DEF ReadFails
<1>2. ASSUME shown' \in [Targets -> Rows \cup {None}],
             page \in Panels => \A t \in Targets : shown'[t] \in PanelRow \cup {None},
             \A q \in polls' : q.kind = "detail" => shown'[q.target] \in PanelRow
      PROVE  IInv'
  <2>1. PageSound'
    BY <1>1, <1>2, ShownStep
  <2>2. ASSUME NEW q \in polls' PROVE PollSound(q)'
    BY <1>1, <1>2, <2>2, StillSound
  <2>3. QED
    BY <1>1, <2>1, <2>2, PollStep, OneMoreEvent
<1>3. \A q \in polls' : q \in polls
  BY <1>1
<1>4. CASE p.kind = "list"
  <2>1. shown' = NothingShown \/ shown' = shown
    BY <1>1, <1>4 DEF AfterFailure
  <2>2. page \notin Panels /\ \A q \in polls : q.kind # "detail"
    BY <1>4, PollKinds, InvParts
  <2>3. shown' \in [Targets -> Rows \cup {None}]
    BY <2>1, InvParts DEF NothingShown
  <2>4. QED
    BY <1>2, <1>3, <2>2, <2>3
<1>5. CASE p.kind = "accounts"
  <2>1. shown' = [t \in Targets |-> IF page = "rewards" THEN None ELSE BaseRow(p.amounts, t)]
    BY <1>1, <1>5 DEF AfterFailure
  <2>2. page \notin Panels /\ \A q \in polls : q.kind # "detail"
    BY <1>5, PollKinds, InvParts
  <2>3. p.amounts \in [Targets -> Nat]
    BY <1>5, PollKinds
  <2>4. shown' \in [Targets -> Rows \cup {None}]
    BY <2>1, <2>3, BaseRowIsRow
  <2>5. QED
    BY <1>2, <1>3, <2>2, <2>4
<1>6. CASE p.kind = "detail"
  <2> DEFINE t == p.target
             row == [shown[t] EXCEPT !.pending = Unknown]
  <2>1. shown' = [shown EXCEPT ![t] = row]
    BY <1>1, <1>6 DEF AfterFailure
  <2>2. t \in Targets /\ shown[t] \in PanelRow
    BY <1>6, PollKinds
  <2>3. row \in PanelRow
    BY <2>2 DEF Rows, PanelRow
  <2> HIDE DEF row
  <2>4. row \in Rows
    BY <2>3 DEF PanelRow
  <2>5. /\ shown' \in [Targets -> Rows \cup {None}]
        /\ page \in Panels => \A u \in Targets : shown'[u] \in PanelRow \cup {None}
    BY <2>1, <2>2, <2>3, <2>4, InvParts
  <2>6. \A q \in polls' : q.kind = "detail" => shown'[q.target] \in PanelRow
    BY <1>3, <2>1, <2>3, PollKinds, InvParts
  <2>7. QED
    BY <1>2, <2>5, <2>6
<1>7. CASE p.kind = "panel"
  <2>1. shown' = shown \/ shown' = [shown EXCEPT ![VoteTarget] = None]
    BY <1>1, <1>7 DEF AfterFailure
  <2>2. /\ shown' \in [Targets -> Rows \cup {None}]
        /\ page \in Panels => \A u \in Targets : shown'[u] \in PanelRow \cup {None}
    BY <2>1, InvParts
  <2>3. ASSUME NEW q \in polls', q.kind = "detail"
        PROVE  shown'[q.target] \in PanelRow
    <3>1. q \in polls /\ shown'[q.target] # None
      BY <1>1, <2>3
    <3>2. page \in Panels /\ q.target \in Targets
      BY <2>3, <3>1, PollKinds, InvParts
    <3>3. QED
      BY <2>2, <3>1, <3>2
  <2>4. QED
    BY <1>2, <2>2, <2>3
<1>8. QED
  BY <1>1, <1>4, <1>5, <1>6, <1>7, PollKinds

LEMMA PollCloseableKeeps ==
  ASSUME IInv, PollCloseable
  PROVE  IInv'
<1>1. UNCHANGED <<world, page, shown, closeable, form, locks, reqs, events>> /\ page = "rewards"
  BY DEF PollCloseable, panel
<1>2. PageSound'
  BY <1>1, ShownStep, InvParts
<1>3. ASSUME NEW p \in polls' PROVE PollSound(p)'
  <2>1. CASE p \in polls
    BY <1>1, <2>1, StillSound, PollKinds
  <2>2. CASE p = [kind |-> "close", targets |-> Closeable]
    BY <1>1, <2>2 DEF PollSound, Closeable
  <2>3. QED
    BY <2>1, <2>2 DEF PollCloseable
<1>4. QED
  BY <1>1, <1>2, <1>3, PollStep, InvParts

LEMMA ReceiveCloseableKeeps ==
  ASSUME IInv, NEW p \in polls, ReceiveCloseable(p)
  PROVE  IInv'
<1>1. /\ UNCHANGED <<world, page, shown, form, locks, reqs, events>>
      /\ closeable' = p.targets /\ p.kind = "close" /\ polls' = polls \ {p}
  BY DEF ReceiveCloseable
<1>2. p.targets \subseteq Targets
  BY <1>1, PollKinds
<1>3. PageSound'
  BY <1>1, <1>2 DEF IInv, PageSound, Rows, PanelRow, world
<1>4. ASSUME NEW q \in polls' PROVE PollSound(q)'
  BY <1>1, <1>4, StillSound, PollKinds
<1>5. QED
  BY <1>1, <1>3, <1>4, PollStep, InvParts

LEMMA PollsKeep ==
  ASSUME IInv,
         \/ PagePoll \/ PollCloseable
         \/ \E p \in polls : ReceiveCloseable(p) \/ ReadFails(p)
         \/ \E t \in Targets : DetailOf(t)
  PROVE  IInv'
BY PollPanelKeeps, PollListKeeps, ShowPanelRowKeeps, ReceiveListKeeps, PollCloseableKeeps,
   ReceiveCloseableKeeps, ReadFailsKeeps, ShowDetailKeeps, ReceiveAccountsKeeps
   DEF PagePoll, DetailOf

-----------------------------------------------------------------------------
(***************************************************************************)
(* The accounts move.                                                      *)
(***************************************************************************)
LEMMA FundKeeps ==
  ASSUME IInv, NEW t \in Targets, Fund(t)
  PROVE  IInv'
<1>1. /\ UNCHANGED <<mirror, rows, page, panel, polls, reqs>>
      /\ chain' = [chain EXCEPT ![t].pending = @ + 1] /\ Event /\ events < MaxEvents
  BY DEF Fund, Event
<1>2. events' \in 0..MaxEvents /\ events' = events + 1 /\ events \in Nat
  BY <1>1, OneMoreEvent, InvParts
<1>3. ASSUME NEW u \in Targets
      PROVE  /\ chain'[u] \in Account /\ chain'[u].pending <= events' + 1
             /\ mirror[u].pending <= events' + 1
  <2>1. /\ chain[u] \in Account /\ chain[u].pending \in Nat /\ chain[u].pending <= events + 1
        /\ mirror[u].pending \in Nat /\ mirror[u].pending <= events + 1
        /\ chain \in [Targets -> Account]
    BY DEF IInv, WorldSound, Account
  <2>2. MaxEvents \in Nat
    BY Constants
  <2>3. CASE u = t
    BY <1>1, <1>2, <2>1, <2>2, <2>3 DEF Account
  <2>4. CASE u # t
    BY <1>1, <1>2, <2>1, <2>2, <2>4
  <2>5. QED
    BY <2>3, <2>4
<1>4. chain' \in [Targets -> Account]
  BY <1>1, <1>3 DEF IInv, WorldSound
<1>5. WorldSound'
  BY <1>1, <1>2, <1>3, <1>4 DEF IInv, WorldSound
<1>6. QED
  BY <1>1, <1>5, WorldStep

LEMMA SyncKeeps ==
  ASSUME IInv, NEW t \in Targets, Sync(t)
  PROVE  IInv'
<1>1. /\ UNCHANGED <<chain, rows, page, panel, polls, reqs, events>>
      /\ mirror' = [mirror EXCEPT ![t] = chain[t]]
  BY DEF Sync
<1>2. WorldSound'
  BY <1>1 DEF IInv, WorldSound
<1>3. QED
  BY <1>1, <1>2, WorldStep

-----------------------------------------------------------------------------
(***************************************************************************)
(* Clicks.                                                                 *)
(***************************************************************************)
LEMMA ReqParts ==
  ASSUME IInv, NEW r \in reqs
  PROVE  /\ RequestSound(r) /\ r \in Requests
         /\ r.kind \in Kinds /\ r.target \in Targets /\ r.amount \in Nat
         /\ r.todo \subseteq Targets /\ r.closed \subseteq Targets
         /\ r.ok \in BOOLEAN /\ r.live \in BOOLEAN
         /\ r.pc \in {"chain", "ledger", "answer", "answered"}
BY DEF IInv, RequestSound, Requests

\* On the vote panel, everything sets its one flag.
LEMMA VoteHoldsBusy ==
  ASSUME NEW r, page = "vote", r.kind \in KindsOn(page)
  PROVE  LockOf(r) = "busy" /\ r.kind \notin OfMany
BY DEF KindsOn, LockOf, Panels, OfMany

\* A transaction is started.  On the vote panel there was none.
LEMMA StartStep ==
  ASSUME IInv, NEW r, RequestSound(r), r.live, r.pc = "chain", Start(r),
         NEW k \in Targets, Lock(LockOf(r), k), form' = form,
         page = "vote" => Free("busy")
  PROVE  IInv'
<1>1. /\ UNCHANGED <<world, page, shown, closeable, form, polls>>
      /\ reqs' = reqs \cup {r} /\ Event
      /\ locks' = [locks EXCEPT ![LockOf(r)] = k]
  BY DEF Start, Lock
<1>2. LockOf(r) \in Locks /\ k # None /\ locks \in [Locks -> Targets \cup {None}]
  BY Constants DEF IInv, PageSound, LockOf, Locks
<1>3. locks' \in [Locks -> Targets \cup {None}]
  BY <1>1, <1>2
<1>4. Rows' = Rows /\ PanelRow' = PanelRow /\ Requests' = Requests /\ InPanel' = InPanel
  BY <1>1 DEF Rows, PanelRow, Requests, InPanel, world
<1>5. WorldSound'
  <2>1. \A t \in Targets : chain[t].pending \in Nat /\ mirror[t].pending \in Nat
    BY DEF IInv, WorldSound, Account
  <2>2. \A e, i \in Nat : i <= e + 1 => i <= (e + 1) + 1
    OBVIOUS
  <2>3. events \in Nat /\ events' = events + 1 /\ events' \in 0..MaxEvents
    BY <1>1, OneMoreEvent, InvParts
  <2>4. QED
    BY <1>1, <2>1, <2>2, <2>3 DEF IInv, WorldSound, world
<1>6. PageSound'
  BY <1>1, <1>3, <1>4 DEF IInv, PageSound
<1>7. \A q \in reqs' : RequestSound(q)'
  BY <1>1, <1>4 DEF IInv, RequestSound, world
<1>8. \A p \in polls' : PollSound(p)'
  BY <1>1, <1>4 DEF IInv, PollSound
<1>9. \A q : LockOf(q)' = LockOf(q)
  BY <1>1 DEF LockOf
<1>10. NoStuckButton'
  <2> SUFFICES ASSUME NEW l \in Locks, locks'[l] # None
               PROVE  \E q \in reqs' : q.live /\ q.pc # "answered" /\ LockOf(q) = l
    BY <1>9 DEF NoStuckButton
  <2>1. CASE l = LockOf(r)
    BY <1>1, <2>1
  <2>2. CASE l # LockOf(r)
    <3>1. locks[l] # None
      BY <1>1, <1>2, <2>2
    <3>2. QED
      BY <1>1, <3>1 DEF IInv, NoStuckButton
  <2>3. QED
    BY <2>1, <2>2
<1>11. ASSUME page = "vote" PROVE locks'["busy"] # None /\ \A q \in reqs : ~q.live
  <2>1. LockOf(r) = "busy"
    BY <1>11, VoteHoldsBusy DEF RequestSound
  <2>2. locks["busy"] = None
    BY <1>11 DEF Free
  <2>3. QED
    BY <1>1, <1>2, <1>11, <2>1, <2>2 DEF IInv, VoteIsBusy
<1>12. VoteIsBusy' /\ VoteRequestsDoNotOverlap'
  BY <1>1, <1>11 DEF VoteIsBusy, VoteRequestsDoNotOverlap
<1>13. QED
  BY <1>5, <1>6, <1>7, <1>8, <1>10, <1>12 DEF IInv

\* A request to make one transaction, or several.
LEMMA RequestIsSound ==
  ASSUME IInv, NEW kind \in KindsOn(page), NEW t \in Targets, NEW x \in Nat
  PROVE  /\ kind \in Kinds
         /\ Request(kind, t, x) \in Requests
         /\ kind # "withdraw" => RequestSound(Request(kind, t, x))
         /\ Request(kind, t, x).live /\ Request(kind, t, x).pc = "chain"
         /\ Request(kind, t, x).kind = kind
<1>1. kind \in Kinds
  BY InvParts DEF KindsOn, Kinds, Pages, Panels, ListPages
<1>2. 0 \in 0..Len(rows) /\ events + 1 \in Nat
  BY Ledger, InvParts DEF IInv
<1>3. Request(kind, t, x) \in Requests
  BY <1>1, <1>2 DEF Request, Requests
<1>4. QED
  BY <1>1, <1>3 DEF Request, RequestSound

LEMMA HereKinds ==
  ASSUME IInv, NEW t, t \in InPanel
  PROVE  /\ page \in Panels /\ t \in Targets
         /\ KindsOn(page) = {"stake", "withdraw", "claim", "suggest"}
         /\ \A r : r.kind \in KindsOn(page) => LockOf(r) = "busy"
<1>1. page \in Panels
  BY DEF InPanel, PanelOf, Panels
<1>2. KindsOn(page) = {"stake", "withdraw", "claim", "suggest"}
  BY <1>1 DEF KindsOn, Panels
<1>3. ASSUME NEW r, r.kind \in {"stake", "withdraw", "claim", "suggest"}
      PROVE  LockOf(r) = "busy"
  BY <1>1, <1>3 DEF LockOf
<1>4. QED
  BY <1>1, <1>2, <1>3, InvParts

LEMMA StakeHereKeeps ==
  ASSUME IInv, NEW t, StakeHere(t)
  PROVE  IInv'
<1>1. PICK r : r = Request("stake", t, 1)
  OBVIOUS
<1>2. t \in InPanel /\ Free("busy") /\ Start(r) /\ Lock("busy", t) /\ form' = form
  BY <1>1 DEF StakeHere, CanClick
<1>3. RequestSound(r) /\ r.live /\ r.pc = "chain" /\ r.kind = "stake"
  BY <1>1, <1>2, HereKinds, RequestIsSound
<1>4. LockOf(r) = "busy" /\ t \in Targets
  BY <1>2, <1>3, HereKinds
<1>5. QED
  BY <1>2, <1>3, <1>4, StartStep

LEMMA WithdrawHereKeeps ==
  ASSUME IInv, NEW t, WithdrawHere(t)
  PROVE  IInv'
<1>1. PICK q : q = Request("withdraw", t, shown[t].amount)
  OBVIOUS
<1>2. PICK r : r = [q EXCEPT !.row = shown[t].row]
  OBVIOUS
<1>3. t \in InPanel /\ HasRow(t) /\ Free("busy") /\ Start(r) /\ Lock("busy", t) /\ form' = form
  BY <1>1, <1>2 DEF WithdrawHere, CanClick
<1>4. /\ shown[t] \in PanelRow /\ shown[t].amount \in Nat /\ shown[t].row \in 0..Len(rows)
      /\ shown[t].row \in DOMAIN rows
  <2>1. shown[t] \in PanelRow
    BY <1>3, HereKinds, InvParts DEF HasRow
  <2>2. QED
    BY <2>1 DEF PanelRow, Rows
<1>a. "withdraw" \in KindsOn(page) /\ t \in Targets
  BY <1>3, HereKinds
<1>5. /\ q \in Requests /\ q.live /\ q.pc = "chain" /\ q.kind = "withdraw"
      /\ q.todo = {t}
  BY <1>1, <1>4, <1>a, RequestIsSound DEF Request
<1>6. /\ r \in Requests /\ r.live /\ r.pc = "chain" /\ r.kind = "withdraw"
      /\ r.todo = {t} /\ r.row = shown[t].row
  BY <1>2, <1>4, <1>5 DEF Requests
<1>b. RequestSound(r)
  BY <1>4, <1>6, <1>a DEF RequestSound
<1>7. LockOf(r) = "busy" /\ t \in Targets
  BY <1>3, <1>6, HereKinds
<1>8. QED
  BY <1>3, <1>6, <1>7, <1>b, StartStep

LEMMA ClaimHereKeeps ==
  ASSUME IInv, NEW t, ClaimHere(t)
  PROVE  IInv'
<1>1. PICK r : r = Request("claim", t, 0)
  OBVIOUS
<1>2. t \in InPanel /\ Free("busy") /\ Start(r) /\ Lock("busy", t) /\ form' = form
  BY <1>1 DEF ClaimHere, CanClick
<1>3. RequestSound(r) /\ r.live /\ r.pc = "chain" /\ r.kind = "claim"
  BY <1>1, <1>2, HereKinds, RequestIsSound
<1>4. LockOf(r) = "busy" /\ t \in Targets
  BY <1>2, <1>3, HereKinds
<1>5. QED
  BY <1>2, <1>3, <1>4, StartStep

LEMMA SuggestKeeps ==
  ASSUME IInv, Suggest
  PROVE  IInv'
<1>1. PICK t : t = CHOOSE u \in Tags : TRUE
  OBVIOUS
<1>2. page = "tags" /\ t \in Tags /\ t \in Targets /\ page \in Panels
  BY <1>1, Constants DEF Suggest, Panels
<1>3. PICK q : q = Request("suggest", t, 0)
  OBVIOUS
<1>4. PICK r : r = [q EXCEPT !.todo = {VoteTarget}]
  OBVIOUS
<1>5. Start(r) /\ Lock("busy", t) /\ form' = form
  BY <1>1, <1>3, <1>4 DEF Suggest
<1>6. RequestSound(q) /\ q \in Requests /\ q.live /\ q.pc = "chain" /\ q.kind = "suggest"
  BY <1>2, <1>3, RequestIsSound DEF KindsOn
<1>7. RequestSound(r) /\ r.live /\ r.pc = "chain" /\ r.kind = "suggest"
  BY <1>4, <1>6, Constants DEF RequestSound, Requests
<1>8. LockOf(r) = "busy"
  BY <1>2, <1>7 DEF LockOf
<1>9. QED
  BY <1>2, <1>5, <1>7, <1>8, StartStep

LEMMA UnstakeKeeps ==
  ASSUME IInv, NEW t \in Targets, NEW x \in 1..MaxStake, Unstake(t, x)
  PROVE  IInv'
<1>1. PICK q : q = Request("unstake", t, x)
  OBVIOUS
<1>2. PICK r : r = [q EXCEPT !.full = (x >= shown[t].amount)]
  OBVIOUS
<1>3. (x >= shown[t].amount) \in BOOLEAN
  <2>1. shown[t] \in Rows
    BY InvParts DEF Unstake, HasRow
  <2>2. shown[t].amount \in Int /\ x \in Int
    BY <2>1 DEF Rows
  <2>3. CASE x >= shown[t].amount
    BY <2>3
  <2>4. CASE ~(x >= shown[t].amount)
    BY <2>2, <2>4
  <2>5. QED
    BY <2>3, <2>4
<1>4. page = "profile" /\ Start(r) /\ Lock("unstaking", t) /\ form' = form
  BY <1>1, <1>2 DEF Unstake
<1>5. x \in Nat /\ "unstake" \in KindsOn(page)
  BY <1>4, Constants DEF KindsOn, Panels
<1>6. RequestSound(q) /\ q \in Requests /\ q.live /\ q.pc = "chain" /\ q.kind = "unstake"
  BY <1>1, <1>5, RequestIsSound
<1>7. RequestSound(r) /\ r.live /\ r.pc = "chain" /\ r.kind = "unstake"
  BY <1>2, <1>3, <1>6 DEF RequestSound, Requests
<1>8. LockOf(r) = "unstaking"
  BY <1>7 DEF LockOf
<1>9. QED
  BY <1>4, <1>7, <1>8, StartStep

LEMMA ClaimKeeps ==
  ASSUME IInv, NEW t \in Targets, page \in ListPages, Claim(t)
  PROVE  IInv'
<1>1. PICK r : r = Request("claim", t, 0)
  OBVIOUS
<1>2. page \notin Panels /\ page # "vote" /\ Start(r) /\ Lock("claiming", t) /\ form' = form
  BY <1>1 DEF Claim, Panels, ListPages
<1>3. "claim" \in KindsOn(page)
  BY <1>2 DEF KindsOn, ListPages
<1>4. RequestSound(r) /\ r.live /\ r.pc = "chain" /\ r.kind = "claim"
  BY <1>1, <1>3, RequestIsSound
<1>5. LockOf(r) = "claiming"
  BY <1>2, <1>4 DEF LockOf
<1>6. QED
  BY <1>2, <1>4, <1>5, StartStep

LEMMA ClaimAllKeeps ==
  ASSUME IInv, ClaimAll
  PROVE  IInv'
<1>1. PICK q : q = Request("claimAll", VoteTarget, 0)
  OBVIOUS
<1>2. PICK r : r = [q EXCEPT !.todo = claimableRows, !.closed = claimableRows]
  OBVIOUS
<1>3. page = "rewards" /\ Start(r) /\ Lock("all", VoteTarget) /\ form' = form
  BY <1>1, <1>2 DEF ClaimAll
<1>4. "claimAll" \in KindsOn(page) /\ VoteTarget \in Targets
  BY <1>3, Constants DEF KindsOn, Panels
<1>5. RequestSound(q) /\ q \in Requests /\ q.live /\ q.pc = "chain" /\ q.kind = "claimAll"
  BY <1>1, <1>4, RequestIsSound
<1>6. PICK rewarded \in SUBSET Targets : rewarded = claimableRows
  BY DEF claimableRows
<1>7. PICK s : s = [q EXCEPT !.todo = rewarded]
  OBVIOUS
<1>8. r = [s EXCEPT !.closed = rewarded]
  BY <1>2, <1>6, <1>7
<1>9. s \in Requests /\ s.kind = "claimAll" /\ s.pc = "chain" /\ s.live
  BY <1>5, <1>7 DEF Requests
<1>10. r \in Requests /\ r.kind = "claimAll" /\ r.pc = "chain" /\ r.live
  BY <1>8, <1>9 DEF Requests
<1>11. RequestSound(r)
  BY <1>4, <1>10 DEF RequestSound, OfMany
<1>12. LockOf(r) = "all"
  BY <1>10 DEF LockOf
<1>13. QED
  BY <1>3, <1>4, <1>10, <1>11, <1>12, StartStep

LEMMA CloseAllKeeps ==
  ASSUME IInv, CloseAll
  PROVE  IInv'
<1>1. PICK q : q = Request("closeAll", VoteTarget, 0)
  OBVIOUS
<1>2. PICK r : r = [q EXCEPT !.todo = closeable]
  OBVIOUS
<1>3. page = "rewards" /\ Start(r) /\ Lock("closing", VoteTarget) /\ form' = form
  BY <1>1, <1>2 DEF CloseAll
<1>4. "closeAll" \in KindsOn(page) /\ VoteTarget \in Targets /\ closeable \subseteq Targets
  BY <1>3, Constants DEF KindsOn, Panels, IInv, PageSound
<1>5. RequestSound(q) /\ q \in Requests /\ q.live /\ q.pc = "chain" /\ q.kind = "closeAll"
  BY <1>1, <1>4, RequestIsSound
<1>6. r \in Requests /\ r.kind = "closeAll" /\ r.pc = "chain" /\ r.live
  BY <1>2, <1>4, <1>5 DEF Requests
<1>7. RequestSound(r)
  BY <1>4, <1>6 DEF RequestSound, OfMany
<1>8. LockOf(r) = "closing"
  BY <1>6 DEF LockOf
<1>9. QED
  BY <1>3, <1>4, <1>6, <1>7, <1>8, StartStep

LEMMA FormsKeep ==
  ASSUME IInv, NEW t \in Targets,
         (\E k \in {"stake", "withdraw"} : OpenTagForm(t, k)) \/ OpenUnstake(t)
  PROVE  IInv'
<1>1. UNCHANGED <<world, page, shown, closeable, locks, polls, reqs, events>>
  BY DEF OpenTagForm, OpenUnstake
<1>2. form'.key \in Targets \cup {None}
  BY DEF OpenTagForm, OpenUnstake, NoForm
<1>3. QED
  BY <1>1, <1>2, FormStep

\* The page is left: nothing is shown or under way, and no button is disabled.
LEMMA VisitKeeps ==
  ASSUME IInv, NEW p \in Pages, Visit(p)
  PROVE  IInv'
<1>1. /\ UNCHANGED world /\ page' = p /\ p # page
      /\ shown' = NothingShown /\ closeable' = {} /\ form' = NoForm /\ locks' = AllFree
      /\ polls' = {} /\ Event
      /\ reqs' = {[r EXCEPT !.live = FALSE] : r \in reqs}
  BY DEF Visit
<1>2. WorldSound'
  <2>1. \A t \in Targets : chain[t].pending \in Nat /\ mirror[t].pending \in Nat
    BY DEF IInv, WorldSound, Account
  <2>2. \A e, i \in Nat : i <= e + 1 => i <= (e + 1) + 1
    OBVIOUS
  <2>3. events \in Nat /\ events' = events + 1 /\ events' \in 0..MaxEvents
    BY <1>1, OneMoreEvent, InvParts
  <2>4. QED
    BY <1>1, <2>1, <2>2, <2>3 DEF IInv, WorldSound, world
<1>3. PageSound'
  BY <1>1 DEF PageSound, NothingShown, AllFree, NoForm
<1>4. ASSUME NEW q \in reqs' PROVE RequestSound(q)' /\ ~q.live
  <2>1. PICK r \in reqs : q = [r EXCEPT !.live = FALSE]
    BY <1>1
  <2>2. RequestSound(r) /\ r \in Requests
    BY ReqParts
  <2>3. Requests' = Requests /\ rows' = rows
    BY <1>1 DEF Requests, world
  <2>4. q \in Requests /\ ~q.live
    BY <2>1, <2>2 DEF Requests
  <2>5. q.kind = r.kind /\ q.pc = r.pc /\ q.todo = r.todo /\ q.ok = r.ok /\ q.amount = r.amount
        /\ q.recorded = r.recorded /\ q.row = r.row
    BY <2>1, <2>2 DEF Requests
  <2>6. QED
    BY <2>2, <2>3, <2>4, <2>5 DEF RequestSound
<1>5. NoStuckButton' /\ VoteIsBusy' /\ VoteRequestsDoNotOverlap'
  BY <1>1, <1>4 DEF NoStuckButton, VoteIsBusy, VoteRequestsDoNotOverlap, AllFree
<1>6. QED
  BY <1>1, <1>2, <1>3, <1>4, <1>5 DEF IInv

LEMMA ClicksKeep ==
  ASSUME IInv, Click
  PROVE  IInv'
<1>1. ASSUME NEW t \in Targets, ClaimStake(t) \/ ClaimReward(t) PROVE IInv'
  <2>1. page \in ListPages /\ Claim(t)
    BY <1>1 DEF ClaimStake, ClaimReward, ListPages
  <2>2. QED
    BY <2>1, ClaimKeeps
<1>2. QED
  BY <1>1, FormsKeep, StakeHereKeeps, WithdrawHereKeeps, ClaimHereKeeps, UnstakeKeeps,
     SuggestKeeps, ClaimAllKeeps, CloseAllKeeps, VisitKeeps DEF Click

-----------------------------------------------------------------------------
(***************************************************************************)
(* Transactions.                                                           *)
(***************************************************************************)

\* A request goes on, as at most one, or has nothing left to do after it was answered.
\* The page does not notice.
LEMMA RequestStep ==
  ASSUME IInv, UNCHANGED <<page, panel, polls>>, WorldSound', Len(rows') >= Len(rows),
         NEW r \in reqs, NEW S, reqs' = (reqs \ {r}) \cup S,
         \A s \in S : RequestSound(s)' /\ s.live = r.live /\ s.kind = r.kind,
         \A s, u \in S : s = u,
         r.pc # "answered" => \E s \in S : s.pc # "answered"
  PROVE  IInv'
<1>1. Len(rows') \in Nat /\ rows' \in Seq(LedgerRows)
  BY DEF WorldSound
<1>2. /\ Rows \subseteq Rows' /\ PanelRow \subseteq PanelRow' /\ Requests \subseteq Requests'
      /\ DOMAIN rows \subseteq DOMAIN rows' /\ InPanel' = InPanel
  BY <1>1, MoreRows DEF InPanel, IInv
<1>3. PageSound'
  <2>1. shown' \in [Targets -> Rows' \cup {None}]
    BY <1>2, InvParts DEF panel
  <2>2. page \in Panels => \A t \in Targets : shown[t] \in PanelRow' \cup {None}
    BY <1>2, InvParts
  <2>3. QED
    BY <2>1, <2>2 DEF IInv, PageSound, panel
<1>4. \A q \in reqs' : RequestSound(q)'
  BY <1>2 DEF IInv, RequestSound
<1>5. ASSUME NEW p \in polls' PROVE PollSound(p)'
  BY <1>2, <1>5 DEF IInv, PollSound, panel
<1>6. \A q : LockOf(q)' = LockOf(q)
  BY DEF LockOf
<1>7. NoStuckButton'
  <2> SUFFICES ASSUME NEW l \in Locks, locks[l] # None
               PROVE  \E q \in reqs' : q.live /\ q.pc # "answered" /\ LockOf(q) = l
    BY <1>6 DEF NoStuckButton, panel
  <2>1. PICK q \in reqs : q.live /\ q.pc # "answered" /\ LockOf(q) = l
    BY DEF IInv, NoStuckButton
  <2>2. CASE q = r
    <3>1. PICK s \in S : s.pc # "answered" /\ s.live = r.live /\ s.kind = r.kind
      BY <2>1, <2>2
    <3>2. LockOf(s) = LockOf(r)
      BY <3>1 DEF LockOf
    <3>3. QED
      BY <2>1, <2>2, <3>1, <3>2
  <2>3. CASE q # r
    BY <2>1, <2>3
  <2>4. QED
    BY <2>2, <2>3
<1>8. VoteIsBusy' /\ VoteRequestsDoNotOverlap'
  BY DEF IInv, VoteIsBusy, VoteRequestsDoNotOverlap, panel
<1>9. QED
  BY <1>3, <1>4, <1>5, <1>7, <1>8 DEF IInv

\* As one other.
LEMMA BecomesStep ==
  ASSUME IInv, UNCHANGED <<page, panel, polls>>, WorldSound', Len(rows') >= Len(rows),
         NEW r \in reqs, NEW s, reqs' = (reqs \ {r}) \cup {s},
         RequestSound(s)', s.live = r.live, s.kind = r.kind,
         r.pc # "answered" => s.pc # "answered"
  PROVE  IInv'
<1>1. PICK S : S = {s}
  OBVIOUS
<1>2. /\ reqs' = (reqs \ {r}) \cup S /\ \A q, u \in S : q = u
      /\ \A q \in S : RequestSound(q)' /\ q.live = r.live /\ q.kind = r.kind
      /\ r.pc # "answered" => \E q \in S : q.pc # "answered"
  BY <1>1
<1>3. QED
  BY <1>2, RequestStep

\* The program accepts a deposit only within the bound.
LEMMA AcceptedStake ==
  ASSUME IInv, NEW r \in reqs, NEW t \in Targets, ChainAccepts(r, t), r.kind = "stake"
  PROVE  r.amount <= MaxStake
<1>1. chain[t].amount + r.amount <= MaxStake
  BY DEF ChainAccepts
<1>2. chain[t].amount \in Nat /\ r.amount \in Nat /\ MaxStake \in Nat
  BY InvParts, ReqParts, Constants DEF Account
<1>3. QED
  BY <1>1, <1>2

\* The accounts after one has changed in its type, at the same count of events or the next.
LEMMA ChainStep ==
  ASSUME IInv, UNCHANGED <<mirror, rows>>, events' = events \/ Event,
         chain' \in [Targets -> Account], \A u \in Targets : chain'[u].pending <= events + 1
  PROVE  WorldSound'
<1>1. \A t \in Targets : chain'[t].pending \in Nat /\ mirror[t].pending \in Nat
  BY DEF IInv, WorldSound, Account
<1>2. \A e, i \in Nat : i <= e + 1 => i <= (e + 1) + 1
  OBVIOUS
<1>3. events \in Nat /\ events' \in 0..MaxEvents /\ (events' = events \/ events' = events + 1)
  BY OneMoreEvent, InvParts
<1>4. QED
  BY <1>1, <1>2, <1>3 DEF IInv, WorldSound

LEMMA LandsKeeps ==
  ASSUME IInv, NEW r \in reqs, NEW t \in Targets, Lands(r, t)
  PROVE  IInv'
<1>1. PICK heard \in BOOLEAN :
        /\ IF heard THEN UNCHANGED events ELSE Event
        /\ Becomes(r, [r EXCEPT
             !.todo = @ \ {t},
             !.closed = IF r.kind = "closeAll" /\ heard THEN @ \cup {t} ELSE @,
             !.ok = @ /\ (heard \/ r.kind = "closeAll"),
             !.pc = IF r.kind \in {"claimAll", "closeAll"} THEN @
                    ELSE IF heard /\ r.kind \in Recorded THEN "ledger" ELSE "answer"])
  BY DEF Lands
<1>2. /\ r.pc = "chain" /\ t \in r.todo /\ ChainAccepts(r, t) /\ chain' = ChainAfter(r, t)
      /\ UNCHANGED <<mirror, rows, page, panel, polls>>
  BY DEF Lands
<1> DEFINE todo == r.todo \ {t}
           closed == IF r.kind = "closeAll" /\ heard THEN r.closed \cup {t} ELSE r.closed
           ok == r.ok /\ (heard \/ r.kind = "closeAll")
           pc == IF r.kind \in {"claimAll", "closeAll"} THEN r.pc
                 ELSE IF heard /\ r.kind \in Recorded THEN "ledger" ELSE "answer"
<1>3. PICK s : s = [r EXCEPT !.todo = todo, !.closed = closed, !.ok = ok, !.pc = pc]
  OBVIOUS
<1>4. reqs' = (reqs \ {r}) \cup {s}
  BY <1>1, <1>3 DEF Becomes
<1>5. /\ todo \in SUBSET Targets /\ closed \in SUBSET Targets
      /\ pc \in {"chain", "ledger", "answer", "answered"}
  BY <1>2, ReqParts
<1>6. ok \in BOOLEAN
  OBVIOUS
<1>7. /\ s \in Requests /\ s.todo = todo /\ s.ok = ok /\ s.pc = pc
      /\ s.kind = r.kind /\ s.live = r.live /\ s.amount = r.amount /\ s.row = r.row
  <2> HIDE DEF todo, closed, ok, pc
  <2>1. PICK a : a = [r EXCEPT !.todo = todo]
    OBVIOUS
  <2>2. PICK b : b = [a EXCEPT !.closed = closed]
    OBVIOUS
  <2>3. PICK c : c = [b EXCEPT !.ok = ok]
    OBVIOUS
  <2>4. s = [c EXCEPT !.pc = pc]
    BY <1>3, <2>1, <2>2, <2>3
  <2>5. a \in Requests /\ a.todo = todo
        /\ a.kind = r.kind /\ a.live = r.live /\ a.amount = r.amount /\ a.row = r.row
    BY <1>5, <2>1, ReqParts DEF Requests
  <2>6. b \in Requests /\ b.todo = todo
        /\ b.kind = r.kind /\ b.live = r.live /\ b.amount = r.amount /\ b.row = r.row
    BY <1>5, <2>2, <2>5 DEF Requests
  <2>7. c \in Requests /\ c.todo = todo /\ c.ok = ok
        /\ c.kind = r.kind /\ c.live = r.live /\ c.amount = r.amount /\ c.row = r.row
    BY <1>6, <2>3, <2>6 DEF Requests
  <2>8. QED
    BY <1>5, <2>4, <2>7 DEF Requests
<1>8. RequestSound(s)
  <2>1. s.live => s.kind \in KindsOn(page)
    BY <1>7, ReqParts DEF RequestSound
  <2>2. s.kind \notin OfMany => s.pc # "chain" /\ s.todo = {}
    BY <1>2, <1>7, ReqParts DEF RequestSound, OfMany
  <2>3. s.kind = "withdraw" => s.row \in DOMAIN rows
    BY <1>7, ReqParts DEF RequestSound
  <2>4. s.pc = "ledger" => s.kind \in Recorded /\ (s.kind = "stake" => s.amount <= MaxStake)
    BY <1>2, <1>7, AcceptedStake
  <2>5. s.pc = "answer" => s.kind \notin Recorded \/ ~s.ok
    BY <1>2, <1>7 DEF Recorded
  <2>6. QED
    BY <1>7, <2>1, <2>2, <2>3, <2>4, <2>5 DEF RequestSound
<1>9. RequestSound(s)'
  BY <1>2, <1>8 DEF RequestSound, Requests
<1>10. WorldSound'
  <2>1. /\ ChainAfter(r, t) \in [Targets -> Account]
        /\ \A u \in Targets : ChainAfter(r, t)[u].pending <= events + 1
    BY <1>2, ChainKeepsType, ReqParts DEF IInv
  <2>2. events' = events \/ Event
    BY <1>1
  <2>3. QED
    BY <1>2, <2>1, <2>2, ChainStep
<1>11. s.pc # "answered"
  BY <1>2, <1>7
<1>12. Len(rows') >= Len(rows)
  BY <1>2, Ledger DEF IInv
<1> HIDE DEF todo, closed, ok, pc
<1>13. QED
  BY <1>2, <1>4, <1>7, <1>9, <1>10, <1>11, <1>12, BecomesStep

LEMMA DeclinedKeeps ==
  ASSUME IInv, NEW r \in reqs, NEW t \in Targets, Declined(r, t)
  PROVE  IInv'
<1> DEFINE todo == r.todo \ {t}
           ok == r.kind = "closeAll"
           pc == IF r.kind \in {"claimAll", "closeAll"} THEN r.pc ELSE "answer"
<1>1. PICK s : s = [r EXCEPT !.todo = todo, !.ok = ok, !.pc = pc]
  OBVIOUS
<1>2. /\ r.pc = "chain" /\ t \in r.todo /\ reqs' = (reqs \ {r}) \cup {s}
      /\ UNCHANGED <<world, page, panel, polls, events>>
  BY <1>1 DEF Declined, Becomes
<1>3. todo \in SUBSET Targets /\ ok \in BOOLEAN /\ pc \in {"chain", "ledger", "answer", "answered"}
  BY <1>2, ReqParts
<1>4. /\ s \in Requests /\ s.todo = todo /\ s.ok = ok /\ s.pc = pc
      /\ s.kind = r.kind /\ s.live = r.live /\ s.row = r.row
  <2> HIDE DEF todo, ok, pc
  <2>1. PICK a : a = [r EXCEPT !.todo = todo]
    OBVIOUS
  <2>2. PICK b : b = [a EXCEPT !.ok = ok]
    OBVIOUS
  <2>3. s = [b EXCEPT !.pc = pc]
    BY <1>1, <2>1, <2>2
  <2>4. a \in Requests /\ a.todo = todo /\ a.kind = r.kind /\ a.live = r.live /\ a.row = r.row
    BY <1>3, <2>1, ReqParts DEF Requests
  <2>5. b \in Requests /\ b.todo = todo /\ b.ok = ok
        /\ b.kind = r.kind /\ b.live = r.live /\ b.row = r.row
    BY <1>3, <2>2, <2>4 DEF Requests
  <2>6. QED
    BY <1>3, <2>3, <2>5 DEF Requests
<1>5. RequestSound(s)
  <2>1. s.kind \notin OfMany => s.pc # "chain" /\ s.todo = {}
    BY <1>2, <1>4, ReqParts DEF RequestSound, OfMany
  <2>2. s.pc # "ledger" /\ (s.ok => s.kind \notin Recorded)
    BY <1>2, <1>4 DEF Recorded
  <2>3. QED
    BY <1>4, <2>1, <2>2, ReqParts DEF RequestSound
<1>6. RequestSound(s)' /\ WorldSound' /\ Len(rows') >= Len(rows)
  BY <1>2, <1>5, Ledger DEF RequestSound, Requests, IInv, WorldSound, world
<1>7. s.pc # "answered"
  BY <1>2, <1>4
<1> HIDE DEF todo, ok, pc
<1>8. QED
  BY <1>2, <1>4, <1>6, <1>7, BecomesStep

LEMMA LedgerAnswers ==
  ASSUME IInv, NEW r \in reqs, r.pc = "ledger"
  PROVE  LedgerAccepts(r) \in BOOLEAN
<1>1. r.kind \in Recorded /\ (r.kind = "withdraw" => r.row \in DOMAIN rows)
      /\ r.target \in Targets /\ r.amount \in Nat /\ WorldSound
  BY ReqParts DEF RequestSound, IInv
<1>2. CASE r.kind = "stake"
  BY <1>2 DEF LedgerAccepts
<1>3. CASE r.kind = "withdraw"
  <2>1. rows[r.row].amount \in Nat
    BY <1>1, <1>3, Ledger
  <2>2. LedgerAccepts(r) = (rows[r.row].amount > 0)
    BY <1>3 DEF LedgerAccepts
  <2>3. QED
    BY <2>1, <2>2
<1>4. CASE r.kind = "unstake"
  <2>1. Staked(r.target) \in Nat
    BY <1>1, StakedIsNat
  <2>2. LedgerAccepts(r) = (Staked(r.target) >= r.amount)
    BY <1>4 DEF LedgerAccepts
  <2>3. QED
    BY <1>1, <2>1, <2>2
<1>5. QED
  BY <1>1, <1>2, <1>3, <1>4 DEF Recorded

LEMMA RecordKeeps ==
  ASSUME IInv, NEW r \in reqs, Record(r)
  PROVE  IInv'
<1>1. PICK reached \in BOOLEAN, heard \in BOOLEAN :
        /\ heard => reached
        /\ IF heard THEN UNCHANGED events ELSE Event
        /\ rows' = IF reached THEN LedgerAfter(r) ELSE rows
        /\ Becomes(r, [r EXCEPT !.pc = "answer", !.ok = heard /\ LedgerAccepts(r),
                                !.recorded = reached /\ LedgerAccepts(r)])
  BY DEF Record
<1>2. r.pc = "ledger" /\ UNCHANGED <<chain, mirror, page, panel, polls>>
  BY DEF Record
<1>3. PICK accepted \in BOOLEAN : accepted = LedgerAccepts(r)
  BY <1>2, LedgerAnswers
<1> DEFINE ok == heard /\ accepted
           recorded == reached /\ accepted
<1>4. PICK s : s = [r EXCEPT !.pc = "answer", !.ok = ok, !.recorded = recorded]
  OBVIOUS
<1>5. reqs' = (reqs \ {r}) \cup {s}
  BY <1>1, <1>3, <1>4 DEF Becomes
<1>6. ok \in BOOLEAN /\ recorded \in BOOLEAN /\ (ok => recorded)
  BY <1>1
<1> HIDE DEF ok, recorded
<1>7. /\ s \in Requests /\ s.pc = "answer" /\ s.ok = ok /\ s.recorded = recorded
      /\ s.kind = r.kind /\ s.live = r.live /\ s.row = r.row /\ s.todo = r.todo
  <2>1. PICK a : a = [r EXCEPT !.pc = "answer"]
    OBVIOUS
  <2>2. PICK b : b = [a EXCEPT !.ok = ok]
    OBVIOUS
  <2>3. s = [b EXCEPT !.recorded = recorded]
    BY <1>4, <2>1, <2>2
  <2>4. a \in Requests /\ a.pc = "answer"
        /\ a.kind = r.kind /\ a.live = r.live /\ a.row = r.row /\ a.todo = r.todo
    BY <2>1, ReqParts DEF Requests
  <2>5. b \in Requests /\ b.pc = "answer" /\ b.ok = ok
        /\ b.kind = r.kind /\ b.live = r.live /\ b.row = r.row /\ b.todo = r.todo
    BY <1>6, <2>2, <2>4 DEF Requests
  <2>6. QED
    BY <1>6, <2>3, <2>5 DEF Requests
<1>8. RequestSound(s)
  <2>1. r.kind \in Recorded /\ r.todo = {}
    BY <1>2, ReqParts DEF RequestSound, Recorded, OfMany
  <2>2. QED
    BY <1>6, <1>7, <2>1, ReqParts DEF RequestSound
<1>9. rows' \in Seq(LedgerRows) /\ Len(rows') \in Nat /\ Len(rows') >= Len(rows)
  <2>1. CASE reached
    BY <1>1, <1>2, <2>1, LedgerGrows, ReqParts DEF IInv
  <2>2. CASE ~reached
    BY <1>1, <2>2, Ledger DEF IInv, WorldSound
  <2>3. QED
    BY <2>1, <2>2
<1>10. RequestSound(s)'
  <2>1. Requests \subseteq Requests' /\ DOMAIN rows \subseteq DOMAIN rows'
    BY <1>9, MoreRows DEF IInv
  <2>2. QED
    BY <1>2, <1>8, <2>1 DEF RequestSound
<1>11. WorldSound'
  <2>1. \A t \in Targets : chain[t].pending \in Nat /\ mirror[t].pending \in Nat
    BY DEF IInv, WorldSound, Account
  <2>2. \A e, i \in Nat : i <= e + 1 => i <= (e + 1) + 1
    OBVIOUS
  <2>3. events \in Nat /\ events' \in 0..MaxEvents /\ (events' = events \/ events' = events + 1)
    BY <1>1, OneMoreEvent, InvParts
  <2>4. QED
    BY <1>2, <1>9, <2>1, <2>2, <2>3 DEF IInv, WorldSound
<1>12. QED
  BY <1>2, <1>5, <1>7, <1>9, <1>10, <1>11, BecomesStep

LEMMA LandsLateKeeps ==
  ASSUME IInv, NEW r \in reqs, NEW t \in Targets, LandsLate(r, t)
  PROVE  IInv'
<1>1. /\ UNCHANGED <<mirror, rows, page, panel, polls, events>>
      /\ r.pc = "answered" /\ t \in r.todo
      /\ chain' = IF ChainAccepts(r, t) THEN ChainAfter(r, t) ELSE chain
  BY DEF LandsLate
<1>2. WorldSound' /\ Len(rows') >= Len(rows)
  <2>1. CASE ChainAccepts(r, t)
    BY <1>1, <2>1, ChainKeepsType, ChainStep, ReqParts, Ledger DEF IInv
  <2>2. CASE ~ChainAccepts(r, t)
    BY <1>1, <2>2, Ledger DEF IInv, WorldSound
  <2>3. QED
    BY <2>1, <2>2
<1>3. CASE r.todo = {t}
  <2>1. PICK S : S = {}
    OBVIOUS
  <2>2. reqs' = (reqs \ {r}) \cup S
    BY <1>3, <2>1 DEF LandsLate
  <2>3. /\ \A s \in S : RequestSound(s)' /\ s.live = r.live /\ s.kind = r.kind
        /\ \A s, u \in S : s = u
    BY <2>1
  <2>4. QED
    BY <1>1, <1>2, <2>2, <2>3, RequestStep
<1>4. CASE r.todo # {t}
  <2>1. PICK s : s = [r EXCEPT !.todo = @ \ {t}]
    OBVIOUS
  <2>2. reqs' = (reqs \ {r}) \cup {s}
    BY <1>4, <2>1 DEF LandsLate, Becomes
  <2>3. /\ s \in Requests /\ s.kind = r.kind /\ s.live = r.live /\ s.row = r.row
        /\ s.pc = "answered" /\ s.todo \subseteq r.todo
    BY <1>1, <2>1, ReqParts DEF Requests
  <2>4. RequestSound(s)
    <3>1. s.kind \notin OfMany => s.todo = {}
      BY <1>1, <2>3, ReqParts DEF RequestSound
    <3>2. QED
      BY <2>3, <3>1, ReqParts DEF RequestSound
  <2>5. RequestSound(s)'
    BY <1>1, <2>4 DEF RequestSound, Requests
  <2>6. QED
    BY <1>1, <1>2, <2>2, <2>3, <2>5, BecomesStep
<1>5. QED
  BY <1>3, <1>4

\* A request that is over and has one transaction only has nothing left to do.
LEMMA OverIsDone ==
  ASSUME IInv, NEW r \in reqs, Over(r)
  PROVE  /\ r.kind \notin OfMany => r.todo = {}
         /\ Succeeded(r) => Done(r)
<1>1. RequestSound(r) /\ r.kind \in Kinds
  BY ReqParts
<1>2. CASE r.kind = "claimAll"
  BY <1>2 DEF Over, Succeeded, Done, OfMany, Recorded
<1>3. CASE r.kind = "closeAll"
  BY <1>3 DEF Over, Succeeded, Done, OfMany, Recorded
<1>4. CASE r.kind \notin OfMany
  <2>1. r.pc = "answer"
    BY <1>4 DEF Over, OfMany
  <2>2. QED
    BY <1>1, <1>4, <2>1 DEF RequestSound, Succeeded, Done
<1>5. QED
  BY <1>2, <1>3, <1>4 DEF OfMany

\* The row a page shows after a success of its own.
LEMMA EditedIsRow ==
  ASSUME IInv, NEW r \in reqs, r.live, NEW t \in Targets
  PROVE  /\ EditedRow(r, t) \in Rows \cup {None}
         /\ page \in Panels => EditedRow(r, t) \in PanelRow \cup {None}
         /\ page \in Panels /\ shown[t] \in PanelRow /\ r.kind # "withdraw"
              => EditedRow(r, t) \in PanelRow
<1> DEFINE row == shown[t]
           gone == r.kind = "withdraw" \/ (r.kind = "claim" /\ page = "rewards")
                     \/ (r.kind = "unstake" /\ r.full)
<1>1. /\ row \in Rows \cup {None} /\ (page \in Panels => row \in PanelRow \cup {None})
      /\ r.kind \in KindsOn(page) /\ r.amount \in Nat
  BY InvParts, ReqParts DEF RequestSound
<1>2. page \in Panels => r.kind \in {"stake", "withdraw", "claim", "suggest"} /\ page # "rewards"
  BY <1>1 DEF KindsOn, Panels
<1>3. CASE row = None \/ gone
  <2>1. EditedRow(r, t) = None
    BY <1>3 DEF EditedRow
  <2>2. page \in Panels /\ r.kind # "withdraw" => row = None
    BY <1>2, <1>3
  <2>3. QED
    BY <2>1, <2>2
<1>4. CASE row # None /\ ~gone /\ r.kind \in {"claim", "claimAll"}
  <2>1. EditedRow(r, t) = [row EXCEPT !.pending = 0]
    BY <1>4 DEF EditedRow
  <2>2. row \in Rows /\ [row EXCEPT !.pending = 0] \in Rows
        /\ [row EXCEPT !.pending = 0].row = row.row
        /\ [row EXCEPT !.pending = 0].amount = row.amount
    BY <1>1, <1>4 DEF Rows
  <2>3. page \in Panels => row \in PanelRow
    BY <1>1, <1>4
  <2>4. page \in Panels => [row EXCEPT !.pending = 0] \in PanelRow
    BY <2>2, <2>3 DEF PanelRow
  <2>5. QED
    BY <2>1, <2>2, <2>4
<1>5. CASE row # None /\ ~gone /\ r.kind = "unstake"
  <2> DEFINE a == [row EXCEPT !.amount = @ - r.amount]
  <2>1. EditedRow(r, t) = [a EXCEPT !.pending = 0]
    BY <1>5 DEF EditedRow
  <2>2. row \in Rows
    BY <1>1, <1>5
  <2>3. a \in Rows
    BY <1>1, <2>2 DEF Rows
  <2> HIDE DEF a
  <2>4. [a EXCEPT !.pending = 0] \in Rows
    BY <2>3 DEF Rows
  <2>5. page \notin Panels
    BY <1>2, <1>5
  <2>6. QED
    BY <2>1, <2>4, <2>5
<1>6. CASE row # None /\ ~gone /\ r.kind \notin {"claim", "claimAll", "unstake"}
  <2>1. EditedRow(r, t) = row
    BY <1>6 DEF EditedRow
  <2>2. QED
    BY <1>1, <1>6, <2>1
<1>7. QED
  BY <1>3, <1>4, <1>5, <1>6

LEMMA EditsAreSound ==
  ASSUME IInv, NEW r \in reqs, Answer(r)
  PROVE  /\ shown' \in [Targets -> Rows \cup {None}]
         /\ page \in Panels => \A t \in Targets : shown'[t] \in PanelRow \cup {None}
         /\ polls' \subseteq polls
         /\ \A q \in polls' : q.kind = "detail" => shown'[q.target] \in PanelRow
<1>1. CASE shown' = shown
  <2>1. polls' \subseteq polls
    BY DEF Answer, PollsAfter
  <2>2. QED
    BY <1>1, <2>1, InvParts, PollKinds
<1>2. CASE r.live /\ Succeeded(r) /\ r.kind # "closeAll"
  <2>1. shown' = Edited(r) /\ polls' = PollsAfter(r)
    BY <1>2 DEF Answer
  <2>2. polls' = {q \in polls : ~(q.kind = "detail" /\ r.kind = "withdraw" /\ q.target = r.target)}
    BY <1>2, <2>1 DEF PollsAfter
  <2>3. \A t \in Targets : shown'[t] = IF t \in EditedTargets(r) THEN EditedRow(r, t) ELSE shown[t]
    BY <2>1 DEF Edited
  <2>4. shown' \in [Targets -> Rows \cup {None}]
    BY <1>2, <2>1, EditedIsRow, InvParts DEF Edited
  <2>5. page \in Panels => \A t \in Targets : shown'[t] \in PanelRow \cup {None}
    BY <1>2, <2>3, EditedIsRow, InvParts
  <2>6. ASSUME NEW q \in polls', q.kind = "detail" PROVE shown'[q.target] \in PanelRow
    <3>1. q.target \in Targets /\ page \in Panels /\ shown[q.target] \in PanelRow
      BY <2>2, <2>6, PollKinds
    <3>2. CASE q.target \in EditedTargets(r)
      <4>1. r.kind # "withdraw"
        BY <2>2, <2>6, <3>2 DEF EditedTargets
      <4>2. QED
        BY <1>2, <2>3, <3>1, <3>2, <4>1, EditedIsRow
    <3>3. CASE q.target \notin EditedTargets(r)
      BY <2>3, <3>1, <3>3
    <3>4. QED
      BY <3>2, <3>3
  <2>7. QED
    BY <2>2, <2>4, <2>5, <2>6
<1>3. QED
  BY <1>1, <1>2 DEF Answer

LEMMA AnswerKeeps ==
  ASSUME IInv, NEW r \in reqs, Answer(r)
  PROVE  IInv'
<1>1. /\ UNCHANGED <<world, page, closeable, events>> /\ Over(r) /\ r.pc # "answered"
      /\ locks' = IF r.live THEN Released(r) ELSE locks
  BY DEF Answer
<1>2. /\ Rows' = Rows /\ PanelRow' = PanelRow /\ Requests' = Requests /\ rows' = rows
      /\ InPanel' = InPanel
  BY <1>1 DEF Rows, PanelRow, Requests, InPanel, world
<1>3. WorldSound'
  BY <1>1 DEF IInv, WorldSound, world
<1>4. LockOf(r) \in Locks /\ locks \in [Locks -> Targets \cup {None}]
  BY DEF IInv, PageSound, LockOf, Locks
<1>5. locks' \in [Locks -> Targets \cup {None}]
  BY <1>1, <1>4 DEF Released
<1>6. form'.key \in Targets \cup {None}
  BY DEF Answer, FormAfter, NoForm, IInv, PageSound
<1>7. PageSound'
  BY <1>1, <1>2, <1>5, <1>6, EditsAreSound DEF IInv, PageSound
<1>8. \A p \in polls' : PollSound(p)'
  BY <1>1, EditsAreSound, StillSound
<1>9. ASSUME NEW q \in reqs', q \notin reqs
      PROVE  /\ q \in Requests /\ q.kind = r.kind /\ q.live = r.live /\ q.row = r.row
             /\ q.pc = "answered" /\ r.todo # {}
  <2>1. q = [r EXCEPT !.pc = "answered"] /\ r.todo # {}
    BY <1>9 DEF Answer, Becomes
  <2>2. QED
    BY <2>1, ReqParts DEF Requests
<1>10. ASSUME NEW q \in reqs, q # r PROVE q \in reqs'
  BY <1>10 DEF Answer, Becomes
<1>11. ASSUME NEW q \in reqs' PROVE RequestSound(q)'
  <2>1. CASE q \in reqs
    BY <1>1, <1>2, <2>1, ReqParts DEF RequestSound
  <2>2. CASE q \notin reqs
    <3>1. r.kind \in OfMany
      BY <1>1, <1>9, <2>2, OverIsDone
    <3>2. QED
      BY <1>1, <1>2, <1>9, <2>2, <3>1, ReqParts DEF RequestSound, OfMany
  <2>3. QED
    BY <2>1, <2>2
<1>12. \A q : LockOf(q)' = LockOf(q)
  BY <1>1 DEF LockOf
<1>13. NoStuckButton'
  <2> SUFFICES ASSUME NEW l \in Locks, locks'[l] # None
               PROVE  \E q \in reqs' : q.live /\ q.pc # "answered" /\ LockOf(q) = l
    BY <1>12 DEF NoStuckButton
  <2>1. locks[l] # None /\ (r.live => l # LockOf(r))
    BY <1>1, <1>4 DEF Released
  <2>2. PICK q \in reqs : q.live /\ q.pc # "answered" /\ LockOf(q) = l
    BY <2>1 DEF IInv, NoStuckButton
  <2>3. QED
    BY <1>10, <2>1, <2>2
<1>14. ASSUME page = "vote", NEW q \in reqs', q.live PROVE q \in reqs /\ ~r.live
  <2>1. ASSUME r.live PROVE r.todo = {} /\ r.kind \notin OfMany
    <3>1. r.kind \in KindsOn(page)
      BY <2>1, ReqParts DEF RequestSound
    <3>2. QED
      BY <1>1, <1>14, <3>1, VoteHoldsBusy, OverIsDone
  <2>2. q \in reqs
    BY <1>9, <1>14, <2>1
  <2>3. r.live => q = r /\ reqs' = reqs \ {r}
    BY <1>14, <2>1, <2>2 DEF IInv, VoteRequestsDoNotOverlap, Answer
  <2>4. QED
    BY <2>2, <2>3
<1>15. VoteIsBusy' /\ VoteRequestsDoNotOverlap'
  BY <1>1, <1>14 DEF IInv, VoteIsBusy, VoteRequestsDoNotOverlap
<1>16. QED
  BY <1>3, <1>7, <1>8, <1>11, <1>13, <1>15 DEF IInv

-----------------------------------------------------------------------------
(***************************************************************************)
(* The theorems.                                                           *)
(***************************************************************************)
LEMMA InitSound ==
  ASSUME Init
  PROVE  IInv
<1>1. PICK S \in Held, E \in Emptied :
        LET H == S \ E IN
          /\ chain = [t \in Targets |-> [amount |-> IF t \in H THEN HeldAmount ELSE 0,
                                         pending |-> IF t \in H THEN 1 ELSE 0,
                                         open |-> t \in S \cup E]]
          /\ rows = SetToSeq({[target |-> t, amount |-> HeldAmount] : t \in H})
  BY DEF Init
<1> DEFINE H == S \ E
           R == {[target |-> t, amount |-> HeldAmount] : t \in H}
<1>2. H \subseteq Targets /\ HeldAmount \in 0..MaxStake /\ 0 \in 0..MaxStake
      /\ {0, 1} \subseteq 0..(MaxEvents + 1) /\ 0 \in 0..MaxEvents
  BY Constants
<1>3. chain \in [Targets -> Account] /\ \A t \in Targets : chain[t].pending <= 1
  BY <1>1, <1>2 DEF Account
<1>4. rows \in Seq(LedgerRows)
  <2>1. R \subseteq LedgerRows
    BY <1>2 DEF LedgerRows
  <2>2. IsFiniteSet(H)
    BY <1>2, Constants, FS_Subset
  <2>3. IsFiniteSet(R)
    <3> DEFINE f == [t \in H |-> [target |-> t, amount |-> HeldAmount]]
    <3>1. f \in Surjection(H, R)
      BY DEF Surjection
    <3>2. QED
      BY <2>2, <3>1, FS_Surjection
  <2>4. PICK f \in [1..Cardinality(R) -> R] : IsInjective(f)
    <3>1. ExistsBijection(1..Cardinality(R), R)
      BY <2>3, FS_NatBijection, FS_CountingElements, FS_CardinalityType
    <3>2. PICK f : f \in Bijection(1..Cardinality(R), R)
      BY <3>1 DEF ExistsBijection
    <3>3. QED
      BY <3>2 DEF Bijection, Injection, IsInjective
  <2>5. SetToSeq(R) \in [1..Cardinality(R) -> R]
    BY <2>4 DEF SetToSeq
  <2>6. Cardinality(R) \in Nat
    BY <2>3, FS_CardinalityType
  <2>7. rows = SetToSeq(R)
    BY <1>1
  <2> HIDE DEF R
  <2>8. QED
    BY <2>1, <2>5, <2>6, <2>7
<1>5. mirror = chain /\ events = 0 /\ reqs = {} /\ polls = {}
  BY DEF Init
<1>6. WorldSound
  BY <1>2, <1>3, <1>4, <1>5 DEF WorldSound
<1>7. PageSound
  BY DEF Init, PageSound, NothingShown, AllFree, NoForm
<1>8. NoStuckButton /\ VoteIsBusy /\ VoteRequestsDoNotOverlap
  BY <1>5 DEF Init, NoStuckButton, VoteIsBusy, VoteRequestsDoNotOverlap, AllFree
<1>9. QED
  BY <1>5, <1>6, <1>7, <1>8 DEF IInv

LEMMA StepKeeps ==
  ASSUME IInv, [Next]_vars
  PROVE  IInv'
<1>1. CASE Click
  BY <1>1, ClicksKeep
<1>2. CASE \E r \in reqs : Transaction(r)
  BY <1>2, LandsKeeps, DeclinedKeeps, LandsLateKeeps, RecordKeeps, AnswerKeeps DEF Transaction
<1>3. CASE \/ PagePoll \/ PollCloseable
           \/ \E p \in polls : ReceiveCloseable(p) \/ ReadFails(p)
           \/ \E t \in Targets : DetailOf(t)
  BY <1>3, PollsKeep
<1>4. CASE \E t \in Targets : Fund(t) \/ Sync(t)
  BY <1>4, FundKeeps, SyncKeeps
<1>5. CASE UNCHANGED vars
  <2>1. UNCHANGED <<world, page, shown, closeable, form, locks, polls, reqs, events>>
    BY <1>5 DEF vars, world
  <2>2. form'.key \in Targets \cup {None}
    BY <2>1 DEF IInv, PageSound
  <2>3. QED
    BY <2>1, <2>2, FormStep
<1>6. QED
  BY <1>1, <1>2, <1>3, <1>4, <1>5 DEF Next

\* The inductive invariant holds in every state: requests and answers under way fit the
\* page, and only transactions of the page hold its flags (VotePanel.tsx:128-185).
THEOREM PagesSound == Spec => []IInv
<1>1. Init => IInv
  BY InitSound
<1>2. IInv /\ [Next]_vars => IInv'
  BY StepKeeps
<1>3. QED
  BY <1>1, <1>2, PTL DEF Spec

LEMMA IInvTypes ==
  ASSUME IInv
  PROVE  TypeOK
<1>1. \A m \in {chain, mirror} : m \in [Targets -> Account]
  BY DEF IInv, WorldSound
<1>2. rows \in Seq(LedgerRows) /\ page \in Pages /\ closeable \subseteq Targets
      /\ form.key \in Targets \cup {None} /\ locks \in [Locks -> Targets \cup {None}]
  BY DEF IInv, WorldSound, PageSound
<1>3. DOMAIN shown = Targets /\ \A t \in Targets : shown[t] = None \/ shown[t] \in Rows
  BY InvParts
<1>4. \A r \in reqs : r.target \in Targets /\ r.todo \subseteq Targets
  BY ReqParts
<1>5. QED
  BY <1>1, <1>2, <1>3, <1>4 DEF TypeOK, Account, LedgerRows

\* What a page reports as a success has happened, on the chain and in the ledger, and
\* every disabled button waits for a transaction of the page (VotePanel.tsx:128-156).
THEOREM ReportsAreTrue == Spec => []Inv
<1>1. IInv => Inv
  BY IInvTypes, OverIsDone DEF IInv, Inv, ReportedDone
<1>2. QED
  BY <1>1, PagesSound, PTL

\* The vote panel never runs two transactions at once (VotePanel.tsx:187-264).
THEOREM OneVoteRequest == Spec => []VoteRequestsDoNotOverlap
<1>1. IInv => VoteRequestsDoNotOverlap
  BY DEF IInv
<1>2. QED
  BY <1>1, PagesSound, PTL

=============================================================================
