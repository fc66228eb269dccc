------------------------------ MODULE StakeLedger ------------------------------
(***************************************************************************)
(* The off-chain ledger of votes and stakes and the totals cached from it: *)
(* indexer/src/handlers/votes.rs, stakes.rs and the refresh functions of   *)
(* engine.rs, together with the browser panels that feed them.  A panel    *)
(* first moves tokens on chain and then POSTs what it did; the handler     *)
(* that serves the POST runs one SQL statement at a time, outside any      *)
(* database transaction, interleaved with the handlers of other panels.    *)
(* The POST may never arrive and the handler may die between statements.   *)
(*                                                                         *)
(* One app is modelled.  Its vote is one target and each of its tags       *)
(* another: votes.rs and stakes.rs are the same text over the tables Vote  *)
(* and Stake, so a row names its target.  Amounts are integers, which      *)
(* makes the EPS tolerance of the handlers zero.                           *)
(***************************************************************************)
EXTENDS Integers, Sequences, FiniteSets, FiniteSetsExt, Functions

CONSTANTS
  Users,
  Tabs,         \* browser tabs: each has at most one request under way
  TabUser,      \* the user signed in to each tab
  VoteTarget,   \* the app's vote
  Tags,         \* the app's tags
  None,         \* no row shown by a panel
  MaxAmount,    \* bound: stake of one user on one target
  MaxDeposits,  \* bound: confirmed deposit transactions
  MaxFaults,    \* bound: lost requests, handlers that die, restarts
  MaxResends    \* bound: requests sent again with a signature already used

ASSUME FinitelyMany == IsFiniteSet(Users) /\ IsFiniteSet(Tabs) /\ IsFiniteSet(Tags)
ASSUME TabsHaveUsers == TabUser \in [Tabs -> Users]
ASSUME VoteIsNoTag == VoteTarget \notin Tags
ASSUME LedgerBounds == {MaxAmount, MaxDeposits, MaxFaults, MaxResends} \subseteq Nat

VARIABLES
  chain,     \* chain[u][t]: amount of the user's on-chain position
  deposits,  \* confirmed deposit transactions; the signature is the index
  rows,      \* the Vote and Stake tables in createdAt order; the id is the index
  app,       \* cached App.voteWeight, voteCount and stakeTotal
  tagTotal,  \* cached AppTag.stakeTotal
  tab,       \* each tab's request and the locals of the handler serving it
  shown,     \* the row a VotePanel or TagStakePanel shows, as last polled
  missed,    \* history: withdrawn on chain and not taken off the ledger
  overlapped,\* history: whether two handlers ever were under way at once, and the tabs
             \* whose present one was so
  faults,    \* faults so far
  resends    \* resends so far

vars == <<chain, deposits, rows, app, tagTotal, tab, shown, missed, overlapped,
          faults, resends>>

Targets == {VoteTarget} \cup Tags
Kind(t) == IF t = VoteTarget THEN "Vote" ELSE "Stake"   \* the table

NoRows == [i \in {} |-> 0]
Idle == [pc |-> "idle", target |-> VoteTarget, sig |-> 0, row |-> 0, amount |-> 0,
         todo |-> NoRows, weight |-> 0, count |-> 0, stakes |-> 0]

Init ==
  /\ chain = [u \in Users |-> [t \in Targets |-> 0]]
  /\ deposits = <<>>
  /\ rows = <<>>
  /\ app = [weight |-> 0, count |-> 0, stakes |-> 0]
  /\ tagTotal = [t \in Tags |-> 0]
  /\ tab = [w \in Tabs |-> Idle]
  /\ shown = [w \in Tabs |-> None]
  /\ missed = [u \in Users |-> [t \in Targets |-> 0]]
  /\ overlapped = [ever |-> FALSE, now |-> {}]
  /\ faults = 0
  /\ resends = 0

-----------------------------------------------------------------------------
(***************************************************************************)
(* Queries over the ledger.                                                *)
(***************************************************************************)
Active == {i \in DOMAIN rows : rows[i].active}
ActiveOf(u, t) == {i \in Active : rows[i].user = u /\ rows[i].target = t}
ActiveOn(T) == {i \in Active : rows[i].target \in T}
amountOf == [i \in DOMAIN rows |-> rows[i].amount]
SumOfRows(R) == SumFunctionOnSet(amountOf, R)

\* The unique index over txSig, and the SELECT EXISTS over it.
Recorded(s, t) == \E i \in DOMAIN rows : rows[i].sig = s /\ Kind(rows[i].target) = Kind(t)

\* Mutant: no unique index.
NothingUnique(s, t) == FALSE

\* An INSERT of a row with this signature fails.
ViolatesUnique(s, t) == Recorded(s, t)

\* Mutant: withdraw_partial without `active = true`.
WithInactive(u, t) ==
  Restrict(amountOf, {i \in DOMAIN rows : rows[i].user = u /\ rows[i].target = t})

\* The rows withdraw_partial goes through, with the amounts it reads.
RowsToConsume(u, t) == Restrict(amountOf, ActiveOf(u, t))

\* ORDER BY "createdAt" ASC.
Oldest(todo) == Min(DOMAIN todo)

\* Mutant: a row that is exactly used up is kept, with nothing in it.
UsedUpStrictly(rowAmount, remaining) == rowAmount < remaining

UsedUp(rowAmount, remaining) == rowAmount <= remaining

-----------------------------------------------------------------------------
(***************************************************************************)
(* The browser.  It moves tokens first (a deposit or withdrawal the        *)
(* program accepted) and holds the request it is about to POST.            *)
(***************************************************************************)
Me(w) == TabUser[w]
IsIdle(w) == tab[w].pc = "idle"
Send(w, r) == tab' = [tab EXCEPT ![w] = r]

\* VotePanel.vote, TagStakePanel.stake.
Stake(w, t, x) ==
  /\ IsIdle(w)
  /\ Len(deposits) < MaxDeposits
  /\ chain[Me(w)][t] + x <= MaxAmount
  /\ chain' = [chain EXCEPT ![Me(w)][t] = @ + x]
  /\ deposits' = Append(deposits, [user |-> Me(w), target |-> t, amount |-> x])
  /\ Send(w, [Idle EXCEPT !.pc = "create", !.target = t, !.amount = x,
                          !.sig = Len(deposits) + 1])
  /\ UNCHANGED <<rows, app, tagTotal, shown, missed, faults, resends>>

\* A request repeated with the signature of an earlier transaction.
Resend(w, s) ==
  /\ IsIdle(w)
  /\ resends < MaxResends
  /\ deposits[s].user = Me(w)
  /\ Send(w, [Idle EXCEPT !.pc = "create", !.target = deposits[s].target,
                          !.amount = deposits[s].amount, !.sig = s])
  /\ resends' = resends + 1
  /\ UNCHANGED <<chain, deposits, rows, app, tagTotal, shown, missed, faults>>

\* What a panel may show: get_vote takes any active row of the user (LIMIT 1 without
\* an order), TagStakePanel keeps one row per tag.
Showable(w) ==
  {None} \cup {[row |-> i, target |-> rows[i].target, amount |-> rows[i].amount] :
                 i \in {j \in Active : rows[j].user = Me(w)}}

\* The panel's poll.
Poll(w) ==
  /\ IsIdle(w)
  /\ \E r \in Showable(w) : shown' = [shown EXCEPT ![w] = r]
  /\ UNCHANGED <<chain, deposits, rows, app, tagTotal, tab, missed, faults, resends>>

\* Mutant: the program lets a user take more than the position holds.
UnlockUnchecked(w, t, x) ==
  /\ IsIdle(w)
  /\ x > 0
  /\ chain' = [chain EXCEPT ![Me(w)][t] = @ - x]

\* A withdrawal the program accepts (EnoughStake in NebulousProgram).
Unlock(w, t, x) ==
  /\ IsIdle(w)
  /\ x > 0
  /\ chain[Me(w)][t] >= x
  /\ chain' = [chain EXCEPT ![Me(w)][t] = @ - x]

\* VotePanel.withdraw, TagStakePanel.withdraw: the amount of the row shown, which
\* may be out of date.
WithdrawShown(w) ==
  /\ shown[w] # None
  /\ Unlock(w, shown[w].target, shown[w].amount)
  /\ Send(w, [Idle EXCEPT !.pc = "readRow", !.target = shown[w].target,
                          !.row = shown[w].row, !.amount = shown[w].amount])
  /\ UNCHANGED <<deposits, rows, app, tagTotal, shown, missed, faults, resends>>

\* Everything the ledger was told u staked on t: no poll of it ever said more.
EverStaked(u, t) ==
  LET depositOf == [i \in DOMAIN rows |-> deposits[rows[i].sig].amount]
  IN SumFunctionOnSet(depositOf, {i \in DOMAIN rows : rows[i].user = u /\ rows[i].target = t})

\* MyStakes.unstake, on another page: up to the stakedAmount it polled, which may be out
\* of date.
WithdrawPart(w, t, x) ==
  /\ x <= EverStaked(Me(w), t)
  /\ Unlock(w, t, x)
  /\ Send(w, [Idle EXCEPT !.pc = "readRows", !.target = t, !.amount = x])
  /\ shown' = [shown EXCEPT ![w] = None]
  /\ UNCHANGED <<deposits, rows, app, tagTotal, missed, faults, resends>>

-----------------------------------------------------------------------------
(***************************************************************************)
(* The handlers, one statement per step.                                   *)
(***************************************************************************)
At(w, pc) == tab[w].pc = pc
Goto(w, pc) == tab' = [tab EXCEPT ![w].pc = pc]

\* Mutant: a stake handler that only calls refresh_app.
RefreshAppOnly(t) == "sumVotes"

\* The first statement of the refresh that ends a handler: refresh_app_tag for a
\* stake, then refresh_app for both.
RefreshFrom(t) == IF t \in Tags THEN "sumTag" ELSE "sumVotes"

\* The handler goes on to its refresh, which needs nothing but the target.
Refresh(w) ==
  tab' = [tab EXCEPT ![w] = [Idle EXCEPT !.pc = RefreshFrom(tab[w].target),
                                         !.target = tab[w].target]]

\* The request ends without having recorded x that left the chain.
GiveUp(w, x) ==
  /\ tab' = [tab EXCEPT ![w] = Idle]
  /\ missed' = [missed EXCEPT ![Me(w)][tab[w].target] = @ + x]

\* create: is the signature known?
CheckSig(w) ==
  /\ At(w, "create")
  /\ IF Recorded(tab[w].sig, tab[w].target)
       THEN tab' = [tab EXCEPT ![w] = Idle]
       ELSE Goto(w, "insert")
  /\ UNCHANGED <<chain, deposits, rows, app, tagTotal, shown, missed, faults, resends>>

\* create: INSERT, which the unique index may refuse.
Insert(w) ==
  /\ At(w, "insert")
  /\ IF ViolatesUnique(tab[w].sig, tab[w].target)
       THEN /\ tab' = [tab EXCEPT ![w] = Idle]
            /\ UNCHANGED rows
       ELSE /\ rows' = Append(rows, [user |-> Me(w), target |-> tab[w].target,
                                     amount |-> tab[w].amount, sig |-> tab[w].sig,
                                     active |-> TRUE])
            /\ Refresh(w)
  /\ UNCHANGED <<chain, deposits, app, tagTotal, shown, missed, faults, resends>>

\* withdraw: "Vote already withdrawn" if the row is inactive.
ReadRow(w) ==
  /\ At(w, "readRow")
  /\ IF rows[tab[w].row].active
       THEN Goto(w, "deactivate") /\ UNCHANGED missed
       ELSE GiveUp(w, tab[w].amount)
  /\ UNCHANGED <<chain, deposits, rows, app, tagTotal, shown, faults, resends>>

\* withdraw: the UPDATE does not look at `active` again, nor at the amount: a panel that
\* has not polled since part of the row was unstaked elsewhere has withdrawn more.
Deactivate(w) ==
  /\ At(w, "deactivate")
  /\ rows' = [rows EXCEPT ![tab[w].row].active = FALSE]
  /\ missed' = [missed EXCEPT ![Me(w)][tab[w].target] =
                  @ + tab[w].amount - rows[tab[w].row].amount]
  /\ Refresh(w)
  /\ shown' = [shown EXCEPT ![w] = None]
  /\ UNCHANGED <<chain, deposits, app, tagTotal, faults, resends>>

\* withdraw_partial: the rows and their amounts, read once.
ReadRows(w) ==
  /\ At(w, "readRows")
  /\ tab' = [tab EXCEPT ![w].pc = "consume",
                        ![w].todo = RowsToConsume(Me(w), tab[w].target)]
  /\ UNCHANGED <<chain, deposits, rows, app, tagTotal, shown, missed, faults, resends>>

\* withdraw_partial: one UPDATE per row, computed from the amount read before.
Consume(w) ==
  LET todo == tab[w].todo
      row == Oldest(todo)
      remaining == tab[w].amount
      full == UsedUp(todo[row], remaining)
  IN /\ At(w, "consume")
     /\ DOMAIN todo # {} /\ remaining > 0
     /\ rows' = IF full THEN [rows EXCEPT ![row].active = FALSE]
                        ELSE [rows EXCEPT ![row].amount = @ - remaining]
     /\ tab' = [tab EXCEPT ![w].todo = Restrict(@, DOMAIN @ \ {row}),
                           ![w].amount = IF full THEN remaining - todo[row] ELSE 0]
     /\ UNCHANGED <<chain, deposits, app, tagTotal, shown, missed, faults, resends>>

\* withdraw_partial: "amount exceeds your active vote on this app", returned after
\* the rows were deactivated and without a refresh.
RefusePart(w) ==
  /\ At(w, "consume")
  /\ DOMAIN tab[w].todo = {} /\ tab[w].amount > 0
  /\ GiveUp(w, tab[w].amount)
  /\ UNCHANGED <<chain, deposits, rows, app, tagTotal, shown, faults, resends>>

\* The rows cover the amount: nothing is left but the refresh.
Covered(w) ==
  /\ At(w, "consume")
  /\ tab[w].amount = 0
  /\ Refresh(w)
  /\ UNCHANGED <<chain, deposits, rows, app, tagTotal, shown, missed, faults, resends>>

\* refresh_app_tag
SumTag(w) ==
  /\ At(w, "sumTag")
  /\ tab' = [tab EXCEPT ![w].pc = "saveTag",
                        ![w].stakes = SumOfRows(ActiveOn({tab[w].target}))]
  /\ UNCHANGED <<chain, deposits, rows, app, tagTotal, shown, missed, faults, resends>>

SaveTag(w) ==
  /\ At(w, "saveTag")
  /\ tagTotal' = [tagTotal EXCEPT ![tab[w].target] = tab[w].stakes]
  /\ tab' = [tab EXCEPT ![w].pc = "sumVotes", ![w].stakes = 0]
  /\ UNCHANGED <<chain, deposits, rows, app, shown, missed, faults, resends>>

\* refresh_app: three SELECTs and an UPDATE.
SumVotes(w) ==
  /\ At(w, "sumVotes")
  /\ tab' = [tab EXCEPT ![w].pc = "countVotes",
                        ![w].weight = SumOfRows(ActiveOn({VoteTarget}))]
  /\ UNCHANGED <<chain, deposits, rows, app, tagTotal, shown, missed, faults, resends>>

CountVotes(w) ==
  /\ At(w, "countVotes")
  /\ tab' = [tab EXCEPT ![w].pc = "sumStakes",
                        ![w].count = Cardinality(ActiveOn({VoteTarget}))]
  /\ UNCHANGED <<chain, deposits, rows, app, tagTotal, shown, missed, faults, resends>>

SumStakes(w) ==
  /\ At(w, "sumStakes")
  /\ tab' = [tab EXCEPT ![w].pc = "saveApp", ![w].stakes = SumOfRows(ActiveOn(Tags))]
  /\ UNCHANGED <<chain, deposits, rows, app, tagTotal, shown, missed, faults, resends>>

SaveApp(w) ==
  /\ At(w, "saveApp")
  /\ app' = [weight |-> tab[w].weight, count |-> tab[w].count, stakes |-> tab[w].stakes]
  /\ tab' = [tab EXCEPT ![w] = Idle]
  /\ UNCHANGED <<chain, deposits, rows, tagTotal, shown, missed, faults, resends>>

-----------------------------------------------------------------------------
(***************************************************************************)
(* Faults.                                                                 *)
(***************************************************************************)
\* What a request has still to take off the ledger.
Unapplied(r) ==
  IF r.pc \in {"readRow", "deactivate", "readRows", "consume"} THEN r.amount ELSE 0

unappliedOf == [w \in Tabs |-> Unapplied(tab[w])]
WithdrawingFrom(u, t) == {w \in Tabs : Me(w) = u /\ tab[w].target = t}

\* The POST is lost (tab closed, network), or a statement fails, or the connection
\* is dropped: whatever the handler did so far stays.
Abort(w) ==
  /\ ~IsIdle(w)
  /\ faults < MaxFaults
  /\ GiveUp(w, Unapplied(tab[w]))
  /\ faults' = faults + 1
  /\ UNCHANGED <<chain, deposits, rows, app, tagTotal, shown, resends>>

positionOf(T) == [ut \in Users \X T |-> chain[ut[1]][ut[2]]]
StakedOn(T) == SumFunctionOnSet(positionOf(T), Users \X T)

\* The indexer restarts: handlers die, and reconcile overwrites the cached totals
\* (not voteCount) with those of the chain.  Requests not yet served survive.
Restart ==
  LET dead == {w \in Tabs : tab[w].pc \notin {"idle", "create", "readRow", "readRows"}}
      lost(u, t) == SumFunctionOnSet(unappliedOf, dead \cap WithdrawingFrom(u, t))
  IN /\ faults < MaxFaults
     /\ tab' = [w \in Tabs |-> IF w \in dead THEN Idle ELSE tab[w]]
     /\ missed' = [u \in Users |-> [t \in Targets |-> missed[u][t] + lost(u, t)]]
     /\ app' = [app EXCEPT !.weight = StakedOn({VoteTarget}), !.stakes = StakedOn(Tags)]
     /\ tagTotal' = [t \in Tags |-> StakedOn({t})]
     /\ faults' = faults + 1
     /\ UNCHANGED <<chain, deposits, rows, shown, resends>>

Browser(w) ==
  \/ \E t \in Targets, x \in 1..MaxAmount : Stake(w, t, x)
  \/ \E s \in DOMAIN deposits : Resend(w, s)
  \/ Poll(w)
  \/ WithdrawShown(w)
  \/ \E t \in Targets, x \in 1..MaxAmount : WithdrawPart(w, t, x)

Handler(w) ==
  \/ CheckSig(w) \/ Insert(w)
  \/ ReadRow(w) \/ Deactivate(w)
  \/ ReadRows(w) \/ Consume(w) \/ RefusePart(w) \/ Covered(w)
  \/ SumTag(w) \/ SaveTag(w)
  \/ SumVotes(w) \/ CountVotes(w) \/ SumStakes(w) \/ SaveApp(w)

\* Handlers are tasks of one server: nothing keeps two of them apart.
Serving(w) == tab[w].pc \notin {"idle", "create", "readRow", "readRows"}
Overlapping == {w \in Tabs : Serving(w) /\ \E v \in Tabs \ {w} : Serving(v)}

Next ==
  /\ \/ \E w \in Tabs : Browser(w) \/ Handler(w) \/ Abort(w)
     \/ Restart
  /\ overlapped' =
       [ever |-> overlapped.ever \/ Overlapping' # {},
        now |-> Overlapping' \cup {w \in overlapped.now : Serving(w)'}]

Spec == Init /\ [][Next]_vars

-----------------------------------------------------------------------------
\* Type invariant.
TypeOK ==
  /\ chain \in [Users -> [Targets -> 0..MaxAmount]]
  /\ deposits \in Seq([user : Users, target : Targets, amount : 1..MaxAmount])
  /\ rows \in Seq([user : Users, target : Targets, amount : Int,
                   sig : 1..MaxDeposits, active : BOOLEAN])
  /\ app \in [weight : Int, count : Nat, stakes : Int]
  /\ tagTotal \in [Tags -> Int]
  /\ DOMAIN tab = Tabs /\ DOMAIN shown = Tabs
  /\ missed \in [Users -> [Targets -> Nat]]
  /\ faults \in 0..MaxFaults /\ resends \in 0..MaxResends

\* Confirmed deposits of u on t that no row records (yet).
Unrecorded(u, t) ==
  {s \in DOMAIN deposits : deposits[s].user = u /\ deposits[s].target = t /\ ~Recorded(s, t)}

depositOf == [s \in DOMAIN deposits |-> deposits[s].amount]

Ledger(u, t) ==
  SumOfRows(ActiveOf(u, t)) + SumFunctionOnSet(depositOf, Unrecorded(u, t))

Unserved(u, t) == SumFunctionOnSet(unappliedOf, WithdrawingFrom(u, t))

\* A transaction is counted once (app/api/vote/route.ts:24-27), although two handlers
\* may both have seen its signature unused before either inserts.
RecordedOnce ==
  \A i, j \in DOMAIN rows :
    rows[i].sig = rows[j].sig /\ Kind(rows[i].target) = Kind(rows[j].target) => i = j

\* The ledger follows the chain to the unit: a user's active rows plus the deposits
\* not recorded are what the program holds plus the withdrawals the ledger has not
\* seen: those under way, those whose request failed, and what a panel withdrew beyond
\* a row it knew larger.  Nothing else breaks it but handlers that overlap.
LedgerTracksChain ==
  ~ overlapped.ever =>
  \A u \in Users, t \in Targets :
    Ledger(u, t) = chain[u][t] + Unserved(u, t) + missed[u][t]

\* An active row always has something left in it: a withdrawal that uses a row up
\* deactivates it.  Two overlapping ones may leave a row at or below zero.
ActiveRowsPositive == overlapped.ever \/ \A i \in Active : rows[i].amount > 0

\* Rows are well formed and never empty (stakes.rs:203-226 deactivates what it uses up).
Inv == TypeOK /\ ActiveRowsPositive

TotalsExact(t) ==
  /\ app.weight = SumOfRows(ActiveOn({VoteTarget}))
  /\ app.count = Cardinality(ActiveOn({VoteTarget}))
  /\ app.stakes = SumOfRows(ActiveOn(Tags))
  /\ t \in Tags => tagTotal[t] = SumOfRows(ActiveOn({t}))

\* When a handler has run to its end, the totals it is responsible for (the app's,
\* and those of its tag) equal the ledger, whatever earlier requests, overlapping ones
\* too, and restarts left in them; unless another handler ran meanwhile.
CompletedHandlerLeavesTotalsExact ==
  [][\A w \in Tabs, t \in Targets :
       tab[w].target = t /\ SaveApp(w) /\ w \notin overlapped.now
         => TotalsExact(t)']_vars

\* settleEpoch.ts:87-88: the totals are "cached aggregates kept in sync after every
\* vote/stake mutation".  They are not: of two overlapping handlers, the one that read
\* first may write last.
TotalsKeptInSync ==
  (faults = 0 /\ \A w \in Tabs : IsIdle(w)) => \A t \in Targets : TotalsExact(t)

\* votes.rs:162-171: withdraw_partial consumes rows "until `amount` is covered", and
\* "the on-chain withdraw call there always withdraws this same `amount`".  Violated
\* when two of one user overlap and both count the same row as used up.
WithdrawalsCovered ==
  (faults = 0 /\ \A w \in Tabs : IsIdle(w)) =>
    \A u \in Users, t \in Targets : Ledger(u, t) = chain[u][t] + missed[u][t]
================================================================================
