------------------------------ MODULE ChainMirror ------------------------------
(***************************************************************************)
(* How the indexer follows the chain: the startup snapshot                 *)
(* (indexer/src/backfill.rs), the account subscription and its upsert      *)
(* (processors/account.rs), the pruning of reconcile.rs, and the crawler   *)
(* that logs every transaction and deletes the rows of closed positions    *)
(* (crawler.rs, processors/instruction.rs), in the order main.rs starts    *)
(* them, with RPC and database calls that fail and a process that dies.    *)
(*                                                                         *)
(* A transaction is known by its place in the history, which also serves   *)
(* as its slot and as the content it leaves in the account it writes.  The *)
(* crawler reads the history at commitment `confirmed`; the snapshot and   *)
(* the subscription name no commitment, so the node answers with what is   *)
(* finalized.                                                              *)
(***************************************************************************)
EXTENDS Integers, Sequences, FiniteSets

CONSTANTS
  Positions,   \* VotePosition and StakePosition accounts: can be closed
  Apps,        \* AppAccount, Tag and AppTagStake accounts: never closed
  PageLimit,   \* SIGNATURES_PAGE_LIMIT
  MaxTxs,      \* bound: transactions
  MaxFaults,   \* bound: calls that fail (after their retries)
  MaxCrashes   \* bound: crashes of the indexer

ASSUME AccountsFinite == IsFiniteSet(Positions) /\ IsFiniteSet(Apps)
ASSUME PositionsAreNoApps == Positions \cap Apps = {}
ASSUME PagesHoldSomething == PageLimit \in Nat \ {0}
ASSUME MirrorBounds == {MaxTxs, MaxFaults, MaxCrashes} \subseteq Nat

VARIABLES
  txs,         \* confirmed transactions to the program
  finalized,   \* how many of them are finalized
  tip,         \* each account after them: the transaction that wrote it, 0 if none
  final,       \* and at the last finalized one
  phase,       \* of main.rs: "down", "snapshot", "running"
  stamp,       \* backfill: the slot fetched before the accounts
  subscribed,  \* the account pipeline runs
  feed,        \* updates of the subscription not yet processed
  rows,        \* indexed_account
  log,         \* indexed_instruction, in insertion order
  cursor,      \* crawler_cursor: 0 before it is first saved
  crawl,       \* the crawler's locals
  lost,        \* history: updates no snapshot or subscription delivered
  skipped,     \* history: transactions whose processing failed
  faults, crashes

chainVars == <<txs, finalized, tip, final>>
crawlerVars == <<log, cursor, crawl, skipped>>
mirrorVars == <<phase, stamp, subscribed, feed, lost>>
vars == <<chainVars, mirrorVars, rows, crawlerVars, faults, crashes>>

Accounts == Positions \cup Apps
Kinds == {"write", "close", "failed"}

NoRow == [slot |-> -1, data |-> 0]
CrawlerIdle == [pc |-> "idle", until |-> 0, before |-> 0, newest |-> 0, next |-> 0]

Init ==
  /\ txs = <<>>
  /\ finalized = 0
  /\ tip = [a \in Accounts |-> 0] /\ final = [a \in Accounts |-> 0]
  /\ phase = "down" /\ stamp = 0 /\ subscribed = FALSE /\ feed = {}
  /\ rows = [a \in Accounts |-> NoRow]
  /\ log = <<>>
  /\ cursor = 0
  /\ crawl = CrawlerIdle
  /\ lost = {} /\ skipped = {}
  /\ faults = 0 /\ crashes = 0

-----------------------------------------------------------------------------
(***************************************************************************)
(* The chain.                                                              *)
(***************************************************************************)
\* What transaction i leaves in an account that held `old`.
Effect(kind, i, old) ==
  CASE kind = "write" -> i
    [] kind = "close" -> 0
    [] kind = "failed" -> old

\* Any instruction that leaves the account in place; a failed one is still listed
\* among the program's signatures.
Submit(a, kind) ==
  /\ Len(txs) < MaxTxs
  /\ kind = "close" => a \in Positions /\ tip[a] # 0
  /\ txs' = Append(txs, [account |-> a, kind |-> kind])
  /\ tip' = [tip EXCEPT ![a] = Effect(kind, Len(txs) + 1, @)]
  /\ UNCHANGED <<finalized, final, mirrorVars, rows, crawlerVars, faults, crashes>>

\* The next transaction is finalized and a subscriber is notified of the account it
\* wrote, unless it closed it: the account then is no longer the program's.
Finalize ==
  LET i == finalized + 1
  IN /\ finalized < Len(txs)
     /\ finalized' = i
     /\ final' = [final EXCEPT ![txs[i].account] = Effect(txs[i].kind, i, @)]
     /\ feed' = IF subscribed /\ txs[i].kind = "write" THEN feed \cup {i} ELSE feed
     /\ lost' = IF ~subscribed /\ txs[i].kind = "write" THEN lost \cup {i} ELSE lost
     /\ UNCHANGED <<txs, tip, phase, stamp, subscribed, rows, crawlerVars, faults, crashes>>

-----------------------------------------------------------------------------
(***************************************************************************)
(* Startup and the account mirror.                                         *)
(***************************************************************************)
\* Mutant: no `WHERE indexed_account.slot <= EXCLUDED.slot`.
AlwaysNewer(row, slot) == TRUE

NotOlder(row, slot) == row.slot <= slot

\* index_account: the row of a after an upsert of `data` at `slot`.
Upsert(row, slot, data) ==
  IF NotOlder(row, slot) THEN [slot |-> slot, data |-> data] ELSE row

\* backfill::run, get_slot.
GetSlot ==
  /\ phase = "down"
  /\ phase' = "snapshot"
  /\ stamp' = finalized
  /\ UNCHANGED <<chainVars, subscribed, feed, lost, rows, crawlerVars, faults, crashes>>

\* Mutant: the slot is fetched after the accounts, and has moved on.
StampAfterwards == Len(txs)

SnapshotStamp == stamp

\* backfill::run, get_program_accounts and the upserts, of which those of F fail;
\* then reconcile::run, which prunes what the snapshot does not hold, but only
\* among Apps.  main.rs starts the crawler next.
Snapshot(F) ==
  /\ phase = "snapshot"
  /\ phase' = "running"
  /\ faults' = faults + Cardinality(F)
  /\ faults' <= MaxFaults
  /\ rows' = [a \in Accounts |->
                IF final[a] = 0 THEN IF a \in Apps THEN NoRow ELSE rows[a]
                ELSE IF a \in F THEN rows[a]
                ELSE Upsert(rows[a], SnapshotStamp, final[a])]
  /\ lost' = {i \in lost : txs[i].account \in F}
  /\ UNCHANGED <<chainVars, stamp, subscribed, feed, crawlerVars, crashes>>

\* The pipeline connects: it is told of what is finalized from now on.
Subscribe ==
  /\ phase = "running" /\ ~subscribed
  /\ subscribed' = TRUE
  /\ UNCHANGED <<chainVars, phase, stamp, feed, lost, rows, crawlerVars, faults, crashes>>

\* AccountProcessor.process, in whatever order the updates arrive.
ProcessUpdate(i) ==
  /\ i \in feed
  /\ feed' = feed \ {i}
  /\ rows' = [rows EXCEPT ![txs[i].account] = Upsert(@, i, i)]
  /\ UNCHANGED <<chainVars, phase, stamp, subscribed, lost, crawlerVars, faults, crashes>>

\* The upsert fails: the update is reported as an error and not seen again.
UpdateFails(i) ==
  /\ i \in feed
  /\ faults < MaxFaults
  /\ feed' = feed \ {i}
  /\ lost' = lost \cup {i}
  /\ faults' = faults + 1
  /\ UNCHANGED <<chainVars, phase, stamp, subscribed, rows, crawlerVars, crashes>>

Crash ==
  /\ phase # "down"
  /\ crashes < MaxCrashes
  /\ phase' = "down"
  /\ subscribed' = FALSE
  /\ feed' = {}
  /\ lost' = lost \cup feed
  /\ crawl' = CrawlerIdle
  /\ crashes' = crashes + 1
  /\ UNCHANGED <<chainVars, stamp, rows, log, cursor, skipped, faults>>

-----------------------------------------------------------------------------
(***************************************************************************)
(* The crawler: one tick is LoadCursor, FetchPage..., Process..., Save.    *)
(***************************************************************************)
CrawlerAt(pc) == crawl.pc = pc
AfterCrawlerStep == UNCHANGED <<chainVars, mirrorVars, crashes>>

LoadCursor ==
  /\ phase = "running"
  /\ CrawlerAt("idle")
  /\ crawl' = [CrawlerIdle EXCEPT !.pc = "fetch", !.until = cursor]
  /\ UNCHANGED <<rows, log, cursor, skipped, faults>>
  /\ AfterCrawlerStep

\* getSignaturesForAddress: the newest PageLimit signatures after `until` and, if
\* set, before `before`, are those from PageFirst to PageLast.
PageLast == IF crawl.before = 0 THEN Len(txs) ELSE crawl.before - 1
PageFirst == IF PageLast - PageLimit > crawl.until THEN PageLast - PageLimit + 1
                                                   ELSE crawl.until + 1

\* Mutant: one page is enough.
NeverFull(first, last) == FALSE

FullPage(first, last) == last - first + 1 = PageLimit

\* signatures[0]: the first signature of the first page, 0 if there is none.
Newest == IF crawl.newest # 0 THEN crawl.newest
          ELSE IF PageFirst <= PageLast THEN PageLast ELSE 0

\* The loop over the signatures starts at the oldest, or the tick ends if there are
\* none.
StartProcessing(oldest) ==
  crawl' = IF Newest = 0 THEN CrawlerIdle
           ELSE [crawl EXCEPT !.pc = "process", !.newest = Newest, !.next = oldest]

FetchPage ==
  /\ CrawlerAt("fetch")
  /\ IF PageFirst > PageLast THEN StartProcessing(crawl.before)
     ELSE IF FullPage(PageFirst, PageLast)
     THEN crawl' = [crawl EXCEPT !.newest = Newest, !.before = PageFirst]
     ELSE StartProcessing(PageFirst)
  /\ UNCHANGED <<rows, log, cursor, skipped, faults>>
  /\ AfterCrawlerStep

\* A page cannot be fetched, or the cursor not be saved: the tick ends.
TickFails ==
  /\ \/ CrawlerAt("fetch")
     \/ CrawlerAt("process") /\ crawl.next > crawl.newest
  /\ faults < MaxFaults
  /\ faults' = faults + 1
  /\ crawl' = CrawlerIdle
  /\ UNCHANGED <<rows, log, cursor, skipped>>
  /\ AfterCrawlerStep

\* Mutant: no ON CONFLICT clause and no key.
NeverLogged(i) == FALSE

Logged(i) == \E k \in DOMAIN log : log[k] = i

\* index_instruction.
index_instruction(i) == log' = IF Logged(i) THEN log ELSE Append(log, i)

\* delete_account, whatever the row holds.
delete_account(a) == rows' = [rows EXCEPT ![a] = NoRow]

\* Mutant: the signatures are processed in the order they come.
NewestFirst == crawl.newest + crawl.until + 1 - crawl.next

\* The signatures are processed oldest first; `next` runs up to `newest`.
Current == crawl.next
Advance == crawl' = [crawl EXCEPT !.next = @ + 1]
Processing == CrawlerAt("process") /\ crawl.next <= crawl.newest

\* "failed transactions never touched account state".
PassOver ==
  /\ Processing
  /\ txs[Current].kind = "failed"
  /\ Advance
  /\ UNCHANGED <<rows, log, cursor, skipped, faults>>
  /\ AfterCrawlerStep

\* crawl_transaction.
ProcessTransaction ==
  /\ Processing
  /\ txs[Current].kind # "failed"
  /\ index_instruction(Current)
  /\ IF txs[Current].kind = "close" THEN delete_account(txs[Current].account)
                                    ELSE UNCHANGED rows
  /\ Advance
  /\ UNCHANGED <<cursor, skipped, faults>>
  /\ AfterCrawlerStep

\* crawl_transaction, where fetching the transaction, logging it, or deleting the
\* row fails; each failure is reported and the loop goes on.
ProcessTransactionFails ==
  /\ Processing
  /\ txs[Current].kind # "failed"
  /\ faults < MaxFaults
  /\ faults' = faults + 1
  /\ \/ UNCHANGED <<rows, log>>
     \/ index_instruction(Current) /\ UNCHANGED rows
     \/ txs[Current].kind = "close" /\ delete_account(txs[Current].account) /\ UNCHANGED log
  /\ skipped' = skipped \cup {Current}
  /\ Advance
  /\ UNCHANGED cursor
  /\ AfterCrawlerStep

SaveCursor ==
  /\ CrawlerAt("process") /\ crawl.next > crawl.newest
  /\ cursor' = crawl.newest
  /\ crawl' = CrawlerIdle
  /\ UNCHANGED <<rows, log, skipped, faults>>
  /\ AfterCrawlerStep

-----------------------------------------------------------------------------
Startup == GetSlot \/ (\E F \in SUBSET Accounts : Snapshot(F)) \/ Subscribe

Crawler ==
  \/ LoadCursor \/ FetchPage \/ PassOver \/ ProcessTransaction \/ SaveCursor

Faults ==
  \/ TickFails \/ ProcessTransactionFails
  \/ \E i \in feed : UpdateFails(i)
  \/ Crash

Next ==
  \/ \E a \in Accounts, kind \in Kinds : Submit(a, kind)
  \/ Finalize
  \/ Startup
  \/ \E i \in feed : ProcessUpdate(i)
  \/ Crawler
  \/ Faults

Spec == Init /\ [][Next]_vars

\* The indexer is restarted when it dies (render.yaml), its loops run for ever, and
\* confirmed transactions get finalized.
Fairness ==
  /\ WF_vars(Startup)
  /\ WF_vars(Crawler)
  /\ WF_vars(Finalize)
  /\ WF_vars(\E i \in feed : ProcessUpdate(i))

FairSpec == Spec /\ Fairness

-----------------------------------------------------------------------------
TxIds == 1..Len(txs)
Succeeded(i) == txs[i].kind # "failed"

Transactions == [account : Accounts, kind : Kinds]
Rows(n) == [slot : -1..n, data : 0..n]
Crawls(n) == [pc : {"idle", "fetch", "process"}, until : 0..n, before : 0..n,
              newest : 0..n, next : 0..n + 1]

\* Type invariant.
TypeOK ==
  /\ txs \in Seq(Transactions) /\ Len(txs) <= MaxTxs
  /\ finalized \in 0..Len(txs)
  /\ tip \in [Accounts -> 0..Len(txs)] /\ final \in [Accounts -> 0..finalized]
  /\ phase \in {"down", "snapshot", "running"}
  /\ stamp \in 0..finalized
  /\ subscribed \in BOOLEAN
  /\ feed \subseteq 1..finalized
  /\ rows \in [Accounts -> Rows(finalized)]
  /\ log \in Seq(TxIds)
  /\ cursor \in 0..Len(txs)
  /\ crawl \in Crawls(Len(txs))
  /\ lost \subseteq 1..finalized /\ skipped \subseteq TxIds
  /\ faults \in 0..MaxFaults /\ crashes \in 0..MaxCrashes

\* instruction.rs:25-27: the crawler re-processing a signature after a restart never
\* double-counts.
LoggedOnce == \A k, l \in DOMAIN log : log[k] = log[l] => k = l

\* crawler.rs:94-99: a restart resumes at the cursor, and a burst of more than a page
\* cannot drop the older signatures: up to the cursor every successful transaction is
\* logged, but for those whose own processing failed.
NothingDroppedUpToCursor ==
  \A i \in 1..cursor : Succeeded(i) => Logged(i) \/ i \in skipped

\* crawler.rs:194-195: transactions are processed oldest first, so the log fills in
\* chronological order, across pages, failed ticks and restarts, as long as the
\* processing of none of them failed.
LogChronological ==
  skipped = {} => \A k, l \in DOMAIN log : k < l => log[k] < log[l]

\* A row is at least as fresh as the slot it carries: no transaction up to that slot
\* wrote the account after the state the row holds (backfill.rs:22-24 fetches the
\* slot before the accounts).
RowAsFreshAsItsSlot ==
  \A a \in Accounts, i \in 1..finalized :
    /\ rows[a] # NoRow /\ i <= rows[a].slot
    /\ txs[i].account = a /\ txs[i].kind = "write"
    => i <= rows[a].data

NeverClosed(a) == \A i \in TxIds : txs[i].account = a => txs[i].kind # "close"

\* Whatever the order of updates, snapshots and restarts, once the latest state of an
\* account has been delivered its row shows that state.
LatestDeliveredStateWins ==
  \A a \in Accounts :
    NeverClosed(a) /\ phase = "running" /\ final[a] # 0 /\ final[a] \notin feed \cup lost
    => rows[a].data = final[a]

\* The mirror and the log tell the truth, as far as they tell.
Inv ==
  /\ TypeOK
  /\ LoggedOnce /\ LogChronological
  /\ RowAsFreshAsItsSlot /\ LatestDeliveredStateWins

\* A row never falls back to an older state of its account (account.rs:76-84).
RowsNeverGoBack ==
  [][\A a \in Accounts : rows'[a] # NoRow => rows'[a].data >= rows[a].data]_vars

\* Every successful transaction is logged in the end, unless its own processing failed.
EventuallyLogged ==
  \A i \in 1..MaxTxs :
    (i \in TxIds /\ Succeeded(i)) ~> (Logged(i) \/ i \in skipped)

Settled ==
  /\ subscribed /\ feed = {} /\ finalized = Len(txs)
  /\ cursor = Len(txs) /\ CrawlerAt("idle")
  /\ faults = 0

\* account.rs:90-97: a closed account's row is removed, it does not "sit in Postgres
\* forever claiming a position that no longer exists".
NoRowForClosedPosition ==
  Settled => \A a \in Positions : final[a] = 0 => rows[a] = NoRow
================================================================================
