----------------------------- MODULE StakingPages -----------------------------
(***************************************************************************)
(* The browser side of staking: VotePanel and TagStakePanel on an app's    *)
(* page, MyStakes on the profile page, ClaimRewards and                    *)
(* CloseZeroStakeAccounts on the rewards page, with the hooks they share.  *)
(* A page shows what its last poll brought.  A poll reads the ledger of    *)
(* the API and the indexer's copy of the chain, both of which may have     *)
(* moved by the time the answer is displayed, and answers may overtake     *)
(* each other.  A click builds, signs and submits a transaction, tells the *)
(* ledger, then edits the page by hand until the next poll.                *)
(*                                                                         *)
(* One app, one signed-in visitor and a live deployment (not simulation    *)
(* mode).  The app's vote and each of its tags are targets.  StakeLedger   *)
(* has the ledger's handlers in detail; here a request to it is one step.  *)
(***************************************************************************)
EXTENDS Integers, Sequences, SequencesExt, FiniteSetsExt, Functions

CONSTANTS
  VoteTarget, Tags,
  None,          \* no row, no key
  Unknown,       \* a pending reward not fetched (yet)
  Held,          \* what the visitor may hold at first, with a reward: sets of targets
  HeldAmount,    \* and how much on each
  Emptied,       \* the positions withdrawn earlier and not closed yet: sets of targets
  MaxStake,      \* bound: stake on one target
  MaxEvents,     \* bound: transactions started, pools funded, pages opened, and
                 \* failed reads, lost requests and lost replies, all together
  MaxPolls       \* bound: polls of a list under way at once

ASSUME VoteIsNoTag == VoteTarget \notin Tags
ASSUME NoneIsNoTarget == None \notin {VoteTarget} \cup Tags
ASSUME TagsFinite == IsFiniteSet(Tags)
ASSUME HoldsTargets == \A S \in Held : S \subseteq {VoteTarget} \cup Tags
ASSUME Bounds ==
  {HeldAmount, MaxStake, MaxEvents, MaxPolls} \subseteq Nat /\ HeldAmount <= MaxStake

VARIABLES
  chain,      \* the visitor's positions: amount, pending reward, account open
  mirror,     \* the indexer's copy of them
  rows,       \* the visitor's Vote and Stake rows in createdAt order; 0 is inactive
  page,       \* the panel of an app's page, or the list, that is looked at
  shown,      \* the row the page shows for each target
  closeable,  \* the positions CloseZeroStakeAccounts offers to close
  form,       \* the amount panel that is open
  locks,      \* the busy flags and keys that disable buttons
  polls,      \* answers on their way to the page
  reqs,       \* transactions under way
  events      \* events so far

vars == <<chain, mirror, rows, page, shown, closeable, form, locks, polls, reqs, events>>
world == <<chain, mirror, rows>>
panel == <<shown, closeable, form, locks>>

Targets == {VoteTarget} \cup Tags
\* VotePanel and TagStakePanel of an app's page share nothing but the ledger and the
\* chain: one of them is looked at.
Panels == {"vote", "tags"}
ListPages == {"profile", "rewards"}
Pages == Panels \cup ListPages
PanelOf(t) == IF t = VoteTarget THEN "vote" ELSE "tags"
InPanel == {t \in Targets : PanelOf(t) = page}

\* busy of the panels; MyStakes and ClaimRewards: claimingKey; MyStakes: unstakingKey;
\* claimingAll; closing.
Locks == {"busy", "claiming", "unstaking", "all", "closing"}

NoForm == [key |-> None, kind |-> None]
NothingShown == [t \in Targets |-> None]
AllFree == [l \in Locks |-> None]

Init ==
  /\ \E S \in Held, E \in Emptied :
     LET H == S \ E IN
       /\ chain = [t \in Targets |-> [amount |-> IF t \in H THEN HeldAmount ELSE 0,
                                      pending |-> IF t \in H THEN 1 ELSE 0,
                                      open |-> t \in S \cup E]]
       /\ rows = SetToSeq({[target |-> t, amount |-> HeldAmount] : t \in H})
  /\ mirror = chain
  /\ page \in Pages
  /\ shown = NothingShown /\ closeable = {}
  /\ form = NoForm /\ locks = AllFree
  /\ polls = {} /\ reqs = {}
  /\ events = 0

Event == events < MaxEvents /\ events' = events + 1

-----------------------------------------------------------------------------
(***************************************************************************)
(* The ledger and the chain, as the pages' routes see them.                *)
(***************************************************************************)
ActiveOf(t) == {i \in DOMAIN rows : rows[i].target = t /\ rows[i].amount > 0}
Amounts == [i \in DOMAIN rows |-> rows[i].amount]
Staked(t) == SumFunctionOnSet(Amounts, ActiveOf(t))

\* GET /api/rewards/positions: one amount per app or tag, however many rows.
RewardPositions == [t \in Targets |-> Staked(t)]

\* GET /api/vote has LIMIT 1; TagStakePanel keeps one row per tag of GET /api/stake.
PanelRows(t) ==
  IF ActiveOf(t) = {} THEN {None}
  ELSE {[row |-> i, amount |-> rows[i].amount, pending |-> Unknown] : i \in ActiveOf(t)}

\* What withdraw_partial takes from row i when x is asked for, oldest row first.
Taken(t, x, i) ==
  LET before == SumFunctionOnSet(Amounts, {j \in ActiveOf(t) : j < i})
  IN Min({rows[i].amount, Max({0, x - before})})

\* settlePendingRaw over the indexer's accounts; without a position it stays unknown.
settlePendingRaw(account) == IF account.open THEN account.pending ELSE Unknown

\* POST of the request to /api/vote, /api/stake and their withdraw routes.
LedgerAccepts(r) ==
  CASE r.kind = "stake" -> TRUE
    [] r.kind = "withdraw" -> rows[r.row].amount > 0
    [] r.kind = "unstake" -> Staked(r.target) >= r.amount
    [] OTHER -> TRUE

LedgerAfter(r) ==
  CASE r.kind = "stake" -> Append(rows, [target |-> r.target, amount |-> r.amount])
    [] r.kind = "withdraw" -> [rows EXCEPT ![r.row].amount = 0]
    [] r.kind = "unstake" ->
         [i \in DOMAIN rows |->
            IF i \in ActiveOf(r.target)
              THEN [rows[i] EXCEPT !.amount = @ - Taken(r.target, r.amount, i)]
              ELSE rows[i]]
    [] OTHER -> rows

\* Mutant: the program does not compare a withdrawal with the position.
AcceptsAnyAmount(r, t) ==
  CASE r.kind = "stake" -> chain[t].amount + r.amount <= MaxStake
    [] r.kind \in {"withdraw", "unstake", "claim", "claimAll"} -> chain[t].open
    [] OTHER -> TRUE

\* What the program accepts of a transaction on target t, and what it does.  The
\* indexer builds a close only for an account it has seen emptied.
ChainAccepts(r, t) ==
  CASE r.kind = "stake" -> chain[t].amount + r.amount <= MaxStake
    [] r.kind \in {"withdraw", "unstake"} -> chain[t].open /\ chain[t].amount >= r.amount
    [] r.kind \in {"claim", "claimAll"} -> chain[t].open
    [] r.kind = "closeAll" -> /\ mirror[t].open /\ mirror[t].amount = 0
                              /\ chain[t].open /\ chain[t].amount = 0
    [] OTHER -> TRUE

ChainAfter(r, t) ==
  CASE r.kind = "stake" ->
         [chain EXCEPT ![t] = [amount |-> @.amount + r.amount, pending |-> 0, open |-> TRUE]]
    [] r.kind \in {"withdraw", "unstake"} ->
         [chain EXCEPT ![t].amount = @ - r.amount, ![t].pending = 0]
    [] r.kind \in {"claim", "claimAll"} -> [chain EXCEPT ![t].pending = 0]
    [] r.kind = "closeAll" -> [chain EXCEPT ![t].open = FALSE]
    [] OTHER -> chain

\* An app's pool is funded.
Fund(t) ==
  /\ chain[t].amount > 0
  /\ chain' = [chain EXCEPT ![t].pending = @ + 1]
  /\ Event
  /\ UNCHANGED <<mirror, rows, page, panel, polls, reqs>>

\* The indexer catches up with a position.
Sync(t) ==
  /\ mirror[t] # chain[t]
  /\ mirror' = [mirror EXCEPT ![t] = chain[t]]
  /\ UNCHANGED <<chain, rows, page, panel, polls, reqs, events>>

-----------------------------------------------------------------------------
(***************************************************************************)
(* Polling (usePollingEffect).  An answer is dropped once the effect was   *)
(* cleaned up: its poll leaves polls when the page is left or a dependency *)
(* changed.                                                                *)
(***************************************************************************)
PollsOf(kind) == {p \in polls : p.kind = kind}
Detail(t) == [kind |-> "detail", target |-> t, account |-> mirror[t]]

\* The timer of a panel: GET /api/vote, GET /api/stake.  Like the lists' it does not wait
\* for an answer.
PollPanel ==
  /\ page \in Panels
  /\ \A t \in InPanel : Cardinality({p \in PollsOf("panel") : p.target = t}) < MaxPolls
  /\ \E f \in [InPanel -> UNION {PanelRows(t) : t \in InPanel}] :
       /\ \A t \in InPanel : f[t] \in PanelRows(t)
       /\ polls' = polls \cup {[kind |-> "panel", target |-> t, row |-> f[t]] : t \in InPanel}
  /\ UNCHANGED <<world, page, panel, reqs, events>>

\* Mutant: a read whose row was replaced is never made again.
ShowPanelRowOnly(p) ==
  /\ p.kind = "panel"
  /\ shown' = [shown EXCEPT ![p.target] = p.row]
  /\ polls' = {q \in polls \ {p} : ~(q.kind = "detail" /\ q.target = p.target)}
  /\ UNCHANGED <<world, page, closeable, form, locks, reqs, events>>

\* setMyVote, setMyStakes: a new object even when nothing changed, so the effect that
\* depends on it starts over: its reads under way are dropped and new ones made.
ShowPanelRow(p) ==
  /\ p.kind = "panel"
  /\ shown' = [shown EXCEPT ![p.target] =
       IF p.row # None /\ @ # None THEN [p.row EXCEPT !.pending = shown[p.target].pending]
                                   ELSE p.row]
  /\ polls' = {q \in polls \ {p} : ~(q.kind = "detail" /\ q.target = p.target)}
                \cup (IF p.row = None THEN {} ELSE {Detail(p.target)})
  /\ UNCHANGED <<world, page, closeable, form, locks, reqs, events>>

\* The pending reward and the fee estimate of a row of the app page.
ShowDetail(p) ==
  /\ p.kind = "detail"
  /\ shown' = [shown EXCEPT ![p.target].pending = settlePendingRaw(p.account)]
  /\ polls' = polls \ {p}
  /\ UNCHANGED <<world, page, closeable, form, locks, reqs, events>>

\* MyStakes and ClaimRewards ask for the positions.
PollList ==
  /\ page \in ListPages
  /\ Cardinality(PollsOf("list") \cup PollsOf("accounts")) < MaxPolls
  /\ polls' = polls \cup {[kind |-> "list", amounts |-> RewardPositions]}
  /\ UNCHANGED <<world, page, panel, reqs, events>>

BaseRow(amounts, t) ==
  IF amounts[t] = 0 THEN None ELSE [row |-> 0, amount |-> amounts[t], pending |-> Unknown]

\* The positions arrive.  MyStakes shows them at once, with no reward; both ask for
\* the accounts.
ReceiveList(p) ==
  /\ p.kind = "list"
  /\ shown' = IF page = "profile" THEN [t \in Targets |-> BaseRow(p.amounts, t)] ELSE shown
  /\ polls' = (polls \ {p})
                \cup {[kind |-> "accounts", amounts |-> p.amounts, accounts |-> mirror]}
  /\ UNCHANGED <<world, page, closeable, form, locks, reqs, events>>

\* The row with its reward: MyStakes shows every position, ClaimRewards those with
\* something to claim.
DetailedRow(p, t) ==
  LET due == settlePendingRaw(p.accounts[t])
  IN IF p.amounts[t] = 0 THEN None
     ELSE IF page = "rewards" /\ due \in {0, Unknown} THEN None
     ELSE [row |-> 0, amount |-> p.amounts[t], pending |-> due]

ReceiveAccounts(p) ==
  /\ p.kind = "accounts"
  /\ shown' = [t \in Targets |-> DetailedRow(p, t)]
  /\ polls' = polls \ {p}
  /\ UNCHANGED <<world, page, closeable, form, locks, reqs, events>>

\* What a read that failed leaves.  A list turns empty unless it was refused, a vote goes
\* only if it was; a panel keeps its row and loses the reward; an account that cannot be
\* read leaves its row without one.
AfterFailure(p) ==
  CASE p.kind = "list" -> {NothingShown, shown}
    [] p.kind = "accounts" ->
         {[t \in Targets |-> IF page = "rewards" THEN None ELSE BaseRow(p.amounts, t)]}
    [] p.kind = "detail" -> {[shown EXCEPT ![p.target].pending = Unknown]}
    [] p.kind = "panel" ->
         {shown} \cup {[shown EXCEPT ![t] = None] : t \in {p.target} \cap {VoteTarget}}

ReadFails(p) ==
  /\ p.kind # "close" /\ Event
  /\ shown' \in AfterFailure(p)
  /\ polls' = {q \in polls \ {p} : q.kind = "detail" => shown'[q.target] # None}
  /\ UNCHANGED <<world, page, closeable, form, locks, reqs>>

\* GET /api/wallet/{owner}/closeable-positions.
Closeable == {t \in Targets : mirror[t].open /\ mirror[t].amount = 0}

PollCloseable ==
  /\ page = "rewards" /\ PollsOf("close") = {}
  /\ closeable # Closeable
  /\ polls' = polls \cup {[kind |-> "close", targets |-> Closeable]}
  /\ UNCHANGED <<world, page, panel, reqs, events>>

ReceiveCloseable(p) ==
  /\ p.kind = "close"
  /\ closeable' = p.targets
  /\ polls' = polls \ {p}
  /\ UNCHANGED <<world, page, shown, form, locks, reqs, events>>

-----------------------------------------------------------------------------
(***************************************************************************)
(* Clicks.  What a page offers depends on the row shown and on the flags.  *)
(***************************************************************************)
Request(kind, t, x) ==
  [id |-> events + 1, kind |-> kind, target |-> t, amount |-> x, row |-> 0,
   todo |-> {t}, closed |-> {}, full |-> FALSE,
   pc |-> "chain", ok |-> TRUE, live |-> TRUE, recorded |-> FALSE]

Start(r) ==
  /\ reqs' = reqs \cup {r}
  /\ Event
  /\ UNCHANGED <<world, page, shown, closeable, polls>>

Lock(l, key) == locks' = [locks EXCEPT ![l] = key]
Free(l) == locks[l] = None
HasRow(t) == shown[t] # None
HasReward(t) == HasRow(t) /\ shown[t].pending \notin {0, Unknown}

\* The Stake and Withdraw buttons of a tag open and close their panel; one at a time.
OpenTagForm(t, kind) ==
  /\ page = "tags" /\ t \in Tags
  /\ kind = "withdraw" => HasRow(t)
  /\ form' = IF form.key = t /\ form.kind = kind THEN NoForm
             ELSE [key |-> t, kind |-> kind]
  /\ UNCHANGED <<world, page, shown, closeable, locks, polls, reqs, events>>

FormOpen(t, kind) == t \in Tags => form.key = t /\ form.kind = kind

\* Mutant: busy is looked at only by the button that set it.
ClickAnyway(t) == t \in InPanel

\* The buttons of a panel are disabled while it is busy.
CanClick(t) == t \in InPanel /\ Free("busy")

\* VotePanel.vote, TagStakePanel.stake
StakeHere(t) ==
  /\ CanClick(t) /\ FormOpen(t, "stake")
  /\ Start(Request("stake", t, 1))
  /\ Lock("busy", t)
  /\ UNCHANGED form

\* VotePanel.withdraw, TagStakePanel.withdraw: the whole row shown.
WithdrawHere(t) ==
  /\ CanClick(t) /\ HasRow(t) /\ FormOpen(t, "withdraw")
  /\ Start([Request("withdraw", t, shown[t].amount) EXCEPT !.row = shown[t].row])
  /\ Lock("busy", t)
  /\ UNCHANGED form

\* VotePanel.claim, TagStakePanel.claimTag
ClaimHere(t) ==
  /\ CanClick(t) /\ HasReward(t)
  /\ Start(Request("claim", t, 0))
  /\ Lock("busy", t)
  /\ UNCHANGED form

\* TagStakePanel.suggest: its button is disabled while the panel is busy, but Enter in
\* the field is not.
Suggest ==
  /\ page = "tags" /\ Tags # {}
  /\ Start([Request("suggest", CHOOSE t \in Tags : TRUE, 0) EXCEPT !.todo = {VoteTarget}])
  /\ Lock("busy", CHOOSE t \in Tags : TRUE)
  /\ UNCHANGED form

\* MyStakes: a row is busy while either key is its own.
RowBusy(t) == locks["unstaking"] = t \/ locks["claiming"] = t

\* MyStakes.openUnstake
OpenUnstake(t) ==
  /\ page = "profile" /\ HasRow(t) /\ ~RowBusy(t)
  /\ form' = IF form.key = t THEN NoForm
             ELSE [key |-> t, kind |-> "unstake"]
  /\ UNCHANGED <<world, page, shown, closeable, locks, polls, reqs, events>>

\* MyStakes.unstake of the amount typed, up to that of the row; only unstakingKey
\* disables its Confirm button.
Unstake(t, x) ==
  /\ page = "profile" /\ HasRow(t) /\ form.key = t
  /\ locks["unstaking"] # t
  /\ x <= shown[t].amount
  /\ Start([Request("unstake", t, x) EXCEPT !.full = x >= shown[t].amount])
  /\ Lock("unstaking", t)
  /\ UNCHANGED form

Claim(t) ==
  /\ Start(Request("claim", t, 0))
  /\ Lock("claiming", t)
  /\ UNCHANGED form

\* MyStakes.claim
ClaimStake(t) == page = "profile" /\ HasReward(t) /\ ~RowBusy(t) /\ Claim(t)

\* ClaimRewards.claim: a listed row may have nothing left to claim.
ClaimReward(t) == page = "rewards" /\ HasRow(t) /\ locks["claiming"] # t /\ Claim(t)

claimableRows == {t \in Targets : HasReward(t)}

\* ClaimRewards.claimAll: one approval for all rows, one transaction for each.
ClaimAll ==
  /\ page = "rewards" /\ Cardinality(claimableRows) > 1 /\ Free("all")
  /\ Start([Request("claimAll", VoteTarget, 0) EXCEPT !.todo = claimableRows,
                                                      !.closed = claimableRows])
  /\ Lock("all", VoteTarget)
  /\ UNCHANGED form

\* CloseZeroStakeAccounts.closeAll
CloseAll ==
  /\ page = "rewards" /\ closeable # {} /\ Free("closing")
  /\ Start([Request("closeAll", VoteTarget, 0) EXCEPT !.todo = closeable])
  /\ Lock("closing", VoteTarget)
  /\ UNCHANGED form

-----------------------------------------------------------------------------
(***************************************************************************)
(* A transaction under way: runProgramTx, then the ledger, then the page.  *)
(***************************************************************************)
Becomes(r, s) == reqs' = (reqs \ {r}) \cup {s}
Recorded == {"stake", "withdraw", "unstake"}   \* kinds that tell the ledger

\* The transaction on t is confirmed; a reply may be lost afterwards.
Lands(r, t) ==
  /\ r.pc = "chain" /\ t \in r.todo
  /\ ChainAccepts(r, t)
  /\ chain' = ChainAfter(r, t)
  /\ \E heard \in BOOLEAN :
       /\ IF heard THEN UNCHANGED events ELSE Event
       /\ Becomes(r, [r EXCEPT
            !.todo = @ \ {t},
            !.closed = IF r.kind = "closeAll" /\ heard THEN @ \cup {t} ELSE @,
            !.ok = @ /\ (heard \/ r.kind = "closeAll"),
            !.pc = IF r.kind \in {"claimAll", "closeAll"} THEN @
                   ELSE IF heard /\ r.kind \in Recorded THEN "ledger" ELSE "answer"])
  /\ UNCHANGED <<mirror, rows, page, panel, polls>>

\* It is not: the wallet's owner declines, the build is refused, the program fails.
Declined(r, t) ==
  /\ r.pc = "chain" /\ t \in r.todo
  /\ Becomes(r, [r EXCEPT !.todo = @ \ {t}, !.ok = r.kind = "closeAll",
                          !.pc = IF r.kind \in {"claimAll", "closeAll"} THEN @ ELSE "answer"])
  /\ UNCHANGED <<world, page, panel, polls, events>>

\* The POST to the ledger: answered, or lost on the way there or back.  A partial
\* withdrawal that asks for more than there is takes all there is and is refused.
Record(r) ==
  /\ r.pc = "ledger"
  /\ \E reached, heard \in BOOLEAN :
       /\ heard => reached
       /\ IF heard THEN UNCHANGED events ELSE Event
       /\ rows' = IF reached THEN LedgerAfter(r) ELSE rows
       /\ Becomes(r, [r EXCEPT !.pc = "answer", !.ok = heard /\ LedgerAccepts(r),
                               !.recorded = reached /\ LedgerAccepts(r)])
  /\ UNCHANGED <<chain, mirror, page, panel, polls>>

\* Promise.all fails with the first transaction that does, the others still run.
Over(r) ==
  CASE r.kind = "claimAll" -> r.pc = "chain" /\ (r.todo = {} \/ ~r.ok)
    [] r.kind = "closeAll" -> r.todo = {}
    [] OTHER -> r.pc = "answer"

\* Mutant: the reply of the ledger is not looked at.
TransactionOnly(r) == r.ok \/ (r.kind \in Recorded /\ r.pc = "answer")

Succeeded(r) == r.ok /\ (r.kind = "closeAll" => r.closed # {})

LockOf(r) ==
  CASE r.kind = "unstake" -> "unstaking"
    [] r.kind = "claimAll" -> "all"
    [] r.kind = "closeAll" -> "closing"
    [] OTHER -> IF page \in Panels THEN "busy" ELSE "claiming"

\* Mutant: the key is released only after a success.
ReleasedOnSuccess(r) ==
  IF Succeeded(r) THEN [locks EXCEPT ![LockOf(r)] = None] ELSE locks

\* finally: the one key there is, whoever holds it now.
Released(r) == [locks EXCEPT ![LockOf(r)] = None]

\* What the page edits by hand after a success, in the row it shows at that moment.
EditedRow(r, t) ==
  LET row == shown[t]
      gone == r.kind = "withdraw" \/ (r.kind = "claim" /\ page = "rewards")
                \/ (r.kind = "unstake" /\ r.full)
  IN IF row = None \/ gone THEN None
     ELSE CASE r.kind \in {"claim", "claimAll"} -> [row EXCEPT !.pending = 0]
            [] r.kind = "unstake" -> [row EXCEPT !.amount = @ - r.amount, !.pending = 0]
            [] OTHER -> row

EditedTargets(r) == IF r.kind = "claimAll" THEN r.closed ELSE {r.target}

Edited(r) ==
  [t \in Targets |-> IF t \in EditedTargets(r) THEN EditedRow(r, t) ELSE shown[t]]

\* Forms closed by a success: TagStakePanel's own, MyStakes' whichever is open.
FormAfter(r) ==
  IF r.kind = "unstake" \/ (r.kind \in {"stake", "withdraw"} /\ page = "tags"
                            /\ form.kind = r.kind)
    THEN NoForm ELSE form

\* The reads of a row that is gone are dropped; closeAll asks for its list again.
PollsAfter(r) ==
  IF r.kind = "closeAll" THEN polls \ PollsOf("close")
  ELSE {q \in polls : ~(q.kind = "detail" /\ r.kind = "withdraw" /\ q.target = r.target)}

Done(r) == r.todo = {} /\ (r.kind \in Recorded => r.recorded)

Answer(r) ==
  /\ Over(r) /\ r.pc # "answered"
  /\ IF r.todo = {} THEN reqs' = reqs \ {r}
                    ELSE Becomes(r, [r EXCEPT !.pc = "answered"])
  /\ IF r.live
       THEN /\ locks' = Released(r)
            /\ shown' = IF Succeeded(r) /\ r.kind # "closeAll" THEN Edited(r) ELSE shown
            /\ form' = IF Succeeded(r) THEN FormAfter(r) ELSE form
            /\ polls' = IF Succeeded(r) THEN PollsAfter(r) ELSE polls
       ELSE UNCHANGED <<locks, shown, form, polls>>
  /\ UNCHANGED <<world, page, closeable, events>>

\* A transaction of a claimAll that has already been reported as failed.
LandsLate(r, t) ==
  /\ r.pc = "answered" /\ t \in r.todo
  /\ chain' = IF ChainAccepts(r, t) THEN ChainAfter(r, t) ELSE chain
  /\ IF r.todo = {t} THEN reqs' = reqs \ {r} ELSE Becomes(r, [r EXCEPT !.todo = @ \ {t}])
  /\ UNCHANGED <<mirror, rows, page, panel, polls, events>>

\* Another page: what the old one held is gone, its transactions go on.
Visit(p) ==
  /\ p # page
  /\ page' = p
  /\ shown' = NothingShown /\ closeable' = {} /\ form' = NoForm /\ locks' = AllFree
  /\ polls' = {}
  /\ reqs' = {[r EXCEPT !.live = FALSE] : r \in reqs}
  /\ Event
  /\ UNCHANGED world

Click ==
  \/ \E t \in Targets :
       \/ \E k \in {"stake", "withdraw"} : OpenTagForm(t, k)
       \/ StakeHere(t) \/ WithdrawHere(t) \/ ClaimHere(t)
       \/ OpenUnstake(t) \/ ClaimStake(t) \/ ClaimReward(t)
       \/ \E x \in 1..MaxStake : Unstake(t, x)
  \/ Suggest \/ ClaimAll \/ CloseAll
  \/ \E p \in Pages : Visit(p)

Transaction(r) ==
  \/ \E t \in Targets : Lands(r, t) \/ Declined(r, t) \/ LandsLate(r, t)
  \/ Record(r) \/ Answer(r)

PagePoll ==
  \/ PollPanel \/ PollList
  \/ \E p \in polls : ShowPanelRow(p) \/ ReceiveList(p)

\* The accounts of t arrive.
DetailOf(t) ==
  \E p \in polls : (p.kind = "detail" /\ p.target = t /\ ShowDetail(p)) \/ ReceiveAccounts(p)

Next ==
  \/ Click
  \/ \E r \in reqs : Transaction(r)
  \/ PagePoll \/ PollCloseable
  \/ \E p \in polls : ReceiveCloseable(p) \/ ReadFails(p)
  \/ \E t \in Targets : DetailOf(t) \/ Fund(t) \/ Sync(t)

Spec == Init /\ [][Next]_vars

\* The indexer keeps up, the timers fire, and requests of the page are answered.
FairSpec ==
  /\ Spec
  /\ WF_vars(\E t \in Targets : Sync(t))
  /\ WF_vars(PagePoll)
  /\ \A t \in Targets : WF_vars(DetailOf(t))

\* And what a request posts to the ledger is answered.
FairRequests == FairSpec /\ WF_vars(\E r \in reqs : Record(r))

-----------------------------------------------------------------------------
\* Type invariant.
Rows == [row : 0..Len(rows), amount : Int, pending : Nat \cup {Unknown}]

TypeOK ==
  /\ \A m \in {chain, mirror} :
       m \in [Targets -> [amount : 0..MaxStake, pending : 0..(MaxEvents + 1), open : BOOLEAN]]
  /\ rows \in Seq([target : Targets, amount : 0..MaxStake])
  /\ page \in Pages
  /\ \A t \in Targets : shown[t] = None \/ shown[t] \in Rows
  /\ DOMAIN shown = Targets /\ closeable \subseteq Targets
  /\ form.key \in Targets \cup {None}
  /\ locks \in [Locks -> Targets \cup {None}]
  /\ \A r \in reqs : r.target \in Targets /\ r.todo \subseteq Targets

\* Whatever a page is about to report as a success has happened, on the chain and in the ledger,
\* although either half can fail or be answered late (VotePanel.tsx:128-156).
ReportedDone == \A r \in reqs : Over(r) /\ Succeeded(r) => Done(r)

\* A button disabled by a busy flag is always waiting for a transaction of the page:
\* none stays disabled by one that is over, whichever way it ended.
NoStuckButton ==
  \A l \in Locks : locks[l] # None => \E r \in reqs : r.live /\ r.pc # "answered" /\ LockOf(r) = l

\* Reports are true and buttons come back.
Inv == TypeOK /\ ReportedDone /\ NoStuckButton

\* VotePanel's one busy flag keeps its three buttons from overlapping
\* (VotePanel.tsx:187-264).
VoteRequestsDoNotOverlap ==
  \A r, s \in reqs :
    /\ page = "vote" /\ r.live /\ s.live
    => r = s

\* What the page shows of t is what the ledger and the chain hold.
RightRow(t) ==
  CASE page \in Panels ->
         t \in InPanel =>
         IF ActiveOf(t) = {} THEN shown[t] = None
         ELSE /\ shown[t] # None /\ shown[t].row \in ActiveOf(t)
              /\ shown[t].pending = settlePendingRaw(chain[t])
    [] page = "profile" ->
         shown[t] = IF Staked(t) = 0 THEN None
                    ELSE [row |-> 0, amount |-> Staked(t), pending |-> settlePendingRaw(chain[t])]
    [] page = "rewards" ->
         shown[t] = IF Staked(t) = 0 \/ settlePendingRaw(chain[t]) \in {0, Unknown} THEN None
                    ELSE [row |-> 0, amount |-> Staked(t), pending |-> chain[t].pending]

\* However polls and transactions overlap, overtake each other or fail, the page comes
\* to show the truth again and again (usePollingEffect.ts:7-16); on the rewards page,
\* every reward of a position the ledger knows.
PageCatchesUp == []<>(\A t \in Targets : RightRow(t))

Owed(t) == page = "rewards" /\ chain[t].pending > 0

\* ClaimRewards.tsx:43-44: "every app/tag whose vote or tag stake has actually accrued a
\* claimable NEB reward right now".
EveryRewardOffered == \A t \in Targets : Owed(t) ~> (HasReward(t) \/ ~Owed(t))
==============================================================================
