---------------------------- MODULE Index_proofs ----------------------------
(***************************************************************************)
(* Theorems about the mirror and the crawler, for every set of accounts,   *)
(* every page size and any number of transactions, failures and crashes;   *)
(* and about the page that browses what is indexed, for every catalogue,   *)
(* number of pages and length of a visit.  The two have no variable in     *)
(* common: they share the module, not a specification.                     *)
(***************************************************************************)
EXTENDS ChainMirror, Discover, DataTheorems, SequenceTheorems, FiniteSetTheorems, TLAPS

Wrote(i, a) == txs[i].account = a /\ txs[i].kind = "write"

-----------------------------------------------------------------------------
(***************************************************************************)
(* The inductive invariant.                                                *)
(***************************************************************************)
\* What the node reports of an account is its last finalized write.
FinalIsLastWrite ==
  \A a \in Accounts :
    final[a] # 0 => /\ Wrote(final[a], a)
                    /\ \A i \in 1..finalized : Wrote(i, a) => i <= final[a]

\* Until main.rs has come to start them, no subscription and no crawler runs, and a
\* snapshot under way is stamped no earlier than any row.
StartupOrder ==
  /\ phase # "running" => ~subscribed /\ feed = {} /\ crawl = CrawlerIdle
  /\ phase = "snapshot" => \A a \in Accounts : rows[a].slot <= stamp

\* Rows hold states their accounts had.
RowsHoldWrites == \A a \in Accounts : rows[a].data # 0 => Wrote(rows[a].data, a)

\* An update still to be processed is newer than every row a snapshot wrote: newer
\* than its state, and newer than its slot.
FeedFollowsSnapshot ==
  \A i \in feed :
    /\ txs[i].kind = "write"
    /\ \A a \in Accounts :
         /\ rows[a].data > rows[a].slot => i > rows[a].data
         /\ rows[a].slot >= i => rows[a].data = rows[a].slot

Delivered ==
  \A a \in Accounts :
    NeverClosed(a) /\ final[a] # 0 /\ final[a] \notin feed \cup lost
    => rows[a].data = final[a]

\* The signatures a tick has still to fetch or process lie between the cursor it
\* started from and the newest it saw, without a gap.
CrawlIsContiguous ==
  /\ crawl.pc # "idle" => crawl.until = cursor
  /\ crawl.pc = "fetch" => \/ crawl.before = 0 /\ crawl.newest = 0
                           \/ crawl.until < crawl.before /\ crawl.before <= crawl.newest
  /\ crawl.pc = "process" =>
       /\ crawl.until < crawl.next /\ crawl.next <= crawl.newest + 1
       /\ crawl.until < crawl.newest
       /\ \A i \in (crawl.until + 1)..(crawl.next - 1) :
            Succeeded(i) => Logged(i) \/ i \in skipped

\* Without skipped transactions the log has no holes.
LogHasNoHoles ==
  skipped = {} =>
    \A k \in DOMAIN log : \A j \in 1..log[k] : Succeeded(j) => Logged(j)

MirrorInv ==
  /\ FinalIsLastWrite /\ StartupOrder /\ RowsHoldWrites /\ FeedFollowsSnapshot
  /\ RowAsFreshAsItsSlot /\ Delivered

CrawlerInv ==
  /\ CrawlIsContiguous /\ NothingDroppedUpToCursor
  /\ LoggedOnce /\ LogHasNoHoles /\ LogChronological

IInv == TypeOK /\ MirrorInv /\ CrawlerInv


-----------------------------------------------------------------------------
(***************************************************************************)
(* What each kind of step leaves in place.                                 *)
(***************************************************************************)
\* The history only grows: what a transaction was, it remains.
LEMMA SubmitExtends ==
  ASSUME TypeOK, NEW a \in Accounts, NEW kind \in Kinds, Submit(a, kind)
  PROVE  /\ txs' \in Seq(Transactions)
         /\ Len(txs) \in Nat /\ Len(txs') = Len(txs) + 1 /\ Len(txs') <= MaxTxs
         /\ \A i \in 1..Len(txs) : txs'[i] = txs[i]
         /\ TxIds' = 1..(Len(txs) + 1)
<1>1. txs \in Seq(Transactions) /\ Len(txs) \in Nat /\ MaxTxs \in Nat
  BY LenProperties, MirrorBounds DEF TypeOK, Transactions
<1>2. [account |-> a, kind |-> kind] \in Transactions
  BY DEF Transactions
<1>3. txs' = Append(txs, [account |-> a, kind |-> kind]) /\ Len(txs) < MaxTxs
  BY DEF Submit
<1>4. QED
  BY <1>1, <1>2, <1>3, AppendProperties DEF TxIds

\* The numbers a page is cut by (fetch_new_signatures).
LEMMA PageFacts ==
  ASSUME TypeOK
  PROVE  /\ PageLast \in Int /\ PageLast <= Len(txs)
         /\ PageFirst \in Nat /\ crawl.until < PageFirst
         /\ Newest \in 0..Len(txs)
         /\ PageFirst <= PageLast /\ ~FullPage(PageFirst, PageLast)
              => PageFirst = crawl.until + 1
<1>1. /\ Len(txs) \in Nat /\ PageLimit \in Nat \ {0}
      /\ crawl.until \in 0..Len(txs) /\ crawl.before \in 0..Len(txs)
      /\ crawl.newest \in 0..Len(txs)
  BY LenProperties, PagesHoldSomething DEF TypeOK, Crawls
<1>2. PageLast \in Int /\ PageLast <= Len(txs)
  BY <1>1 DEF PageLast
<1>3. PageFirst \in Nat /\ crawl.until < PageFirst
  BY <1>1, <1>2 DEF PageFirst
<1>4. Newest \in 0..Len(txs)
  BY <1>1, <1>2, <1>3 DEF Newest
<1>5. QED
  BY <1>1, <1>2, <1>3, <1>4 DEF PageFirst, FullPage

\* Logging a transaction adds it once, and to the end.
LEMMA IndexInstruction ==
  ASSUME log \in Seq(Nat), NEW i \in Nat, index_instruction(i)
  PROVE  /\ \A S : log \in Seq(S) /\ i \in S => log' \in Seq(S)
         /\ \A j : Logged(j)' <=> Logged(j) \/ j = i
         /\ LoggedOnce => LoggedOnce'
         /\ log' = log \/ (~Logged(i) /\ Len(log') = Len(log) + 1 /\ log'[Len(log) + 1] = i)
         /\ Len(log) \in Nat /\ DOMAIN log = 1..Len(log) /\ DOMAIN log' = 1..Len(log')
         /\ \A k \in DOMAIN log : k \in DOMAIN log' /\ log'[k] = log[k]
<1>1. Len(log) \in Nat /\ DOMAIN log = 1..Len(log)
  BY LenProperties
<1>2. CASE Logged(i)
  <2>1. log' = log
    BY <1>2 DEF index_instruction
  <2>2. QED
    BY <1>1, <1>2, <2>1 DEF Logged, LoggedOnce
<1>3. CASE ~Logged(i)
  <2>1. log' = Append(log, i)
    BY <1>3 DEF index_instruction
  <2>2. /\ log' \in Seq(Nat) /\ Len(log') = Len(log) + 1
        /\ \A k \in 1..Len(log) : log'[k] = log[k]
        /\ log'[Len(log) + 1] = i
    BY <2>1, AppendProperties
  <2>3. DOMAIN log' = 1..Len(log')
    BY <2>2, LenProperties
  <2>4. \A S : log \in Seq(S) /\ i \in S => log' \in Seq(S)
    BY <2>1, AppendProperties
  <2>5. \A j : Logged(j)' <=> Logged(j) \/ j = i
    BY <1>1, <2>2, <2>3 DEF Logged
  <2>6. LoggedOnce => LoggedOnce'
    BY <1>1, <1>3, <2>2, <2>3 DEF LoggedOnce, Logged
  <2>7. QED
    BY <1>1, <1>3, <2>2, <2>3, <2>4, <2>5, <2>6
<1>4. QED
  BY <1>2, <1>3

-----------------------------------------------------------------------------
(***************************************************************************)
(* Types.                                                                  *)
(***************************************************************************)
\* What an upsert leaves in a row is a row.
LEMMA UpsertType ==
  ASSUME NEW n \in Nat, NEW row \in Rows(n), NEW slot \in 0..n, NEW data \in 0..n
  PROVE  Upsert(row, slot, data) \in Rows(n)
BY DEF Upsert, Rows

\* The content a transaction leaves is that of a transaction up to it.
LEMMA EffectType ==
  ASSUME NEW i \in Nat, NEW old \in 0..i, NEW kind \in Kinds
  PROVE  Effect(kind, i, old) \in 0..i
<1>1. kind = "write" \/ kind = "close" \/ kind = "failed"
  BY DEF Kinds
<1>2. QED
  BY <1>1 DEF Effect

LEMMA CrawlerIdleType == \A n \in Nat : CrawlerIdle \in Crawls(n)
BY DEF CrawlerIdle, Crawls

LEMMA NoRowType == \A n \in Nat : NoRow \in Rows(n)
BY DEF NoRow, Rows

LEMMA TypeInit == Init => TypeOK
<1> SUFFICES ASSUME Init PROVE TypeOK
  OBVIOUS
<1>1. MaxFaults \in Nat /\ MaxCrashes \in Nat /\ MaxTxs \in Nat
  BY MirrorBounds
<1>2. Len(txs) = 0 /\ txs \in Seq(Transactions) /\ log \in Seq(TxIds)
  BY EmptySeq DEF Init
<1>3. crawl \in Crawls(Len(txs)) /\ rows \in [Accounts -> Rows(finalized)]
  BY <1>2, CrawlerIdleType, NoRowType DEF Init
<1>4. /\ Len(txs) <= MaxTxs /\ finalized \in 0..Len(txs) /\ stamp \in 0..finalized
      /\ feed \subseteq 1..finalized /\ lost \subseteq 1..finalized /\ skipped \subseteq TxIds
  <2>1. Len(txs) <= MaxTxs /\ finalized \in 0..Len(txs) /\ stamp \in 0..finalized
    <3>1. finalized = 0 /\ stamp = 0
      BY DEF Init
    <3>2. QED
      BY <1>1, <1>2, <3>1
  <2>2. feed = {} /\ lost = {} /\ skipped = {}
    BY DEF Init
  <2>3. QED
    BY <2>1, <2>2
<1>7. tip \in [Accounts -> 0..Len(txs)] /\ final \in [Accounts -> 0..finalized]
  BY <1>2 DEF Init
<1>5. /\ phase \in {"down", "snapshot", "running"} /\ subscribed \in BOOLEAN
      /\ cursor \in 0..Len(txs) /\ faults \in 0..MaxFaults /\ crashes \in 0..MaxCrashes
  <2>1. /\ phase = "down" /\ subscribed = FALSE /\ cursor = 0
        /\ faults = 0 /\ crashes = 0
    BY DEF Init
  <2>2. cursor \in 0..Len(txs) /\ faults \in 0..MaxFaults /\ crashes \in 0..MaxCrashes
    BY <1>1, <1>2, <2>1
  <2>3. QED
    BY <2>1, <2>2
<1>6. QED
  BY <1>2, <1>3, <1>4, <1>5, <1>7 DEF TypeOK

LEMMA TypeStep == TypeOK /\ CrawlIsContiguous /\ [Next]_vars => TypeOK'
<1> SUFFICES ASSUME TypeOK, CrawlIsContiguous, [Next]_vars PROVE TypeOK'
  OBVIOUS
<1>a. /\ txs \in Seq(Transactions) /\ Len(txs) \in Nat /\ Len(txs) <= MaxTxs
      /\ MaxFaults \in Nat /\ MaxCrashes \in Nat
      /\ finalized \in 0..Len(txs) /\ cursor \in 0..Len(txs)
      /\ crawl \in Crawls(Len(txs))
      /\ log \in Seq(TxIds) /\ skipped \subseteq TxIds
      /\ faults \in 0..MaxFaults /\ crashes \in 0..MaxCrashes
  BY LenProperties, MirrorBounds DEF TypeOK
<1>b. /\ stamp \in 0..finalized /\ feed \subseteq 1..finalized /\ lost \subseteq 1..finalized
      /\ phase \in {"down", "snapshot", "running"} /\ subscribed \in BOOLEAN
      /\ rows \in [Accounts -> Rows(finalized)]
      /\ tip \in [Accounts -> 0..Len(txs)] /\ final \in [Accounts -> 0..finalized]
  BY DEF TypeOK
<1>c. CrawlerIdle \in Crawls(Len(txs)) /\ NoRow \in Rows(finalized)
  BY <1>a, CrawlerIdleType, NoRowType
<1>d. /\ TxIds = 1..Len(txs)
      /\ \A i \in TxIds : txs[i].account \in Accounts /\ txs[i].kind \in Kinds
  <2>1. TxIds = 1..Len(txs)
    BY DEF TxIds
  <2>2. \A i \in 1..Len(txs) : txs[i] \in Transactions
    BY <1>a, ElementOfSeq
  <2>3. QED
    BY <2>1, <2>2 DEF Transactions
\* While the history stands still, each variable that changes must keep its own type.
<1>e. ASSUME UNCHANGED chainVars,
             phase' \in {"down", "snapshot", "running"}, stamp' \in 0..finalized,
             subscribed' \in BOOLEAN, feed' \subseteq 1..finalized,
             lost' \subseteq 1..finalized, rows' \in [Accounts -> Rows(finalized)],
             log' \in Seq(TxIds), cursor' \in 0..Len(txs), skipped' \subseteq TxIds,
             crawl' \in Crawls(Len(txs)),
             faults' \in 0..MaxFaults, crashes' \in 0..MaxCrashes
      PROVE  TypeOK'
  <2>1. TxIds' = TxIds
    BY <1>e DEF TxIds, chainVars
  <2>2. QED
    BY <1>e, <1>a, <1>b, <2>1 DEF TypeOK, chainVars
<1>1. ASSUME NEW a \in Accounts, NEW kind \in Kinds, Submit(a, kind) PROVE TypeOK'
  <2>1. /\ txs' \in Seq(Transactions) /\ Len(txs') = Len(txs) + 1 /\ Len(txs') <= MaxTxs
        /\ TxIds' = 1..(Len(txs) + 1)
    BY <1>1, SubmitExtends
  <2>2. log' \in Seq(TxIds')
    BY <1>1, <1>a, <1>d, <2>1, SeqMonotonic DEF Submit, crawlerVars
  <2>3. tip' \in [Accounts -> 0..Len(txs')]
    <3>1. Effect(kind, Len(txs) + 1, tip[a]) \in 0..(Len(txs) + 1)
      <4>1. Len(txs) + 1 \in Nat /\ tip[a] \in 0..(Len(txs) + 1)
        BY <1>a, <1>b
      <4>2. QED
        BY <4>1, EffectType
    <3>2. tip' = [tip EXCEPT ![a] = Effect(kind, Len(txs) + 1, tip[a])]
      BY <1>1 DEF Submit
    <3>3. QED
      BY <1>a, <1>b, <2>1, <3>1, <3>2
  <2>4. skipped' \subseteq TxIds' /\ cursor' \in 0..Len(txs') /\ finalized' \in 0..Len(txs')
    BY <1>1, <1>a, <1>d, <2>1 DEF Submit, crawlerVars
  <2>5. crawl' \in Crawls(Len(txs'))
    BY <1>1, <1>a, <2>1 DEF Submit, crawlerVars, Crawls
  <2>6. QED
    BY <1>1, <1>a, <1>b, <2>1, <2>2, <2>3, <2>4, <2>5
    DEF TypeOK, Submit, mirrorVars, crawlerVars
<1>2. CASE Finalize
  <2>1. /\ finalized' = finalized + 1 /\ finalized' \in 0..Len(txs) /\ finalized + 1 \in TxIds
        /\ UNCHANGED <<txs, tip, phase, stamp, subscribed, rows, crawlerVars, faults, crashes>>
    BY <1>2, <1>a, <1>d DEF Finalize
  <2>2. final' \in [Accounts -> 0..finalized']
    <3>1. txs[finalized + 1].account \in Accounts /\ txs[finalized + 1].kind \in Kinds
      BY <2>1, <1>d
    <3>2. Effect(txs[finalized + 1].kind, finalized + 1, final[txs[finalized + 1].account])
            \in 0..(finalized + 1)
      <4>1. /\ finalized + 1 \in Nat
            /\ final[txs[finalized + 1].account] \in 0..(finalized + 1)
        BY <1>a, <1>b, <3>1
      <4>2. QED
        BY <3>1, <4>1, EffectType
    <3>3. final' = [final EXCEPT ![txs[finalized + 1].account] =
                      Effect(txs[finalized + 1].kind, finalized + 1,
                             final[txs[finalized + 1].account])]
      BY <1>2 DEF Finalize
    <3>4. QED
      BY <1>a, <1>b, <2>1, <3>1, <3>2, <3>3
  <2>3. feed' \subseteq 1..finalized' /\ lost' \subseteq 1..finalized'
    BY <1>2, <1>a, <1>b, <2>1 DEF Finalize
  <2>4. rows' \in [Accounts -> Rows(finalized')]
    BY <1>a, <1>b, <2>1 DEF Rows
  <2>5. TxIds' = TxIds
    BY <2>1 DEF TxIds
  <2>6. stamp' \in 0..finalized'
    BY <1>a, <1>b, <2>1
  <2>7. QED
    BY <1>a, <1>b, <2>1, <2>2, <2>3, <2>4, <2>5, <2>6 DEF TypeOK, crawlerVars
<1>3. CASE GetSlot
  BY <1>3, <1>a, <1>b, <1>e DEF GetSlot, crawlerVars
<1>4. ASSUME NEW F \in SUBSET Accounts, Snapshot(F) PROVE TypeOK'
  <2>1. Cardinality(F) \in Nat
    <3>1. IsFiniteSet(Accounts)
      BY AccountsFinite, FS_Union DEF Accounts
    <3>2. QED
      BY <3>1, FS_Subset, FS_CardinalityType
  <2>2. faults' \in 0..MaxFaults
    BY <1>4, <1>a, <2>1 DEF Snapshot
  <2>3. rows' \in [Accounts -> Rows(finalized)]
    <3>1. ASSUME NEW a \in Accounts
          PROVE  Upsert(rows[a], stamp, final[a]) \in Rows(finalized)
      <4>1. rows[a] \in Rows(finalized) /\ final[a] \in 0..finalized /\ finalized \in Nat
        BY <1>a, <1>b
      <4>2. QED
        BY <1>b, <4>1, UpsertType
    <3>2. QED
      BY <1>4, <1>b, <1>c, <3>1 DEF Snapshot, SnapshotStamp
  <2>4. lost' \subseteq 1..finalized
    BY <1>4, <1>b DEF Snapshot
  <2>5. QED
    BY <1>4, <1>a, <1>b, <1>e, <2>2, <2>3, <2>4 DEF Snapshot, crawlerVars
<1>5. CASE Subscribe
  BY <1>5, <1>a, <1>b, <1>e DEF Subscribe, crawlerVars
<1>6. ASSUME NEW i \in feed, ProcessUpdate(i) PROVE TypeOK'
  <2>1. i \in TxIds /\ i \in 0..finalized /\ finalized \in Nat
    BY <1>a, <1>b, <1>d
  <2>2. rows' \in [Accounts -> Rows(finalized)]
    <3>1. Upsert(rows[txs[i].account], i, i) \in Rows(finalized)
      BY <1>b, <1>d, <2>1, UpsertType
    <3>2. QED
      BY <1>6, <1>b, <3>1 DEF ProcessUpdate
  <2>3. QED
    BY <1>6, <1>a, <1>b, <1>e, <2>2 DEF ProcessUpdate, crawlerVars
<1>7. ASSUME NEW i \in feed, UpdateFails(i) PROVE TypeOK'
  <2>1. faults' \in 0..MaxFaults
    BY <1>7, <1>a DEF UpdateFails
  <2>2. QED
    BY <1>7, <1>a, <1>b, <1>e, <2>1 DEF UpdateFails, crawlerVars
<1>8. CASE Crash
  <2>1. crashes' \in 0..MaxCrashes
    BY <1>8, <1>a, MirrorBounds DEF Crash
  <2>2. QED
    BY <1>8, <1>a, <1>b, <1>c, <1>e, <2>1 DEF Crash
\* A step of the crawler changes rows, log, cursor, crawl, skipped and faults only.
<1>f. ASSUME AfterCrawlerStep, rows' \in [Accounts -> Rows(finalized)],
             log' \in Seq(TxIds), cursor' \in 0..Len(txs), skipped' \subseteq TxIds,
             crawl' \in Crawls(Len(txs)), faults' \in 0..MaxFaults
      PROVE  TypeOK'
  BY <1>e, <1>f, <1>a, <1>b DEF AfterCrawlerStep, mirrorVars
<1>9. CASE LoadCursor
  <2>1. crawl' \in Crawls(Len(txs))
    <3>1. [CrawlerIdle EXCEPT !.pc = "fetch", !.until = cursor] \in Crawls(Len(txs))
      BY <1>a, <1>c DEF Crawls
    <3>2. QED
      BY <1>9, <3>1 DEF LoadCursor
  <2>2. QED
    BY <1>9, <1>a, <1>b, <1>f, <2>1 DEF LoadCursor
<1>10. CASE FetchPage
  <2>1. crawl.before \in 0..Len(txs)
    BY <1>a DEF Crawls
  <2>2. ASSUME NEW oldest \in 0..Len(txs), StartProcessing(oldest)
        PROVE  crawl' \in Crawls(Len(txs))
    <3>1. Newest \in 0..Len(txs) /\ oldest \in 0..(Len(txs) + 1)
      BY <1>a, PageFacts
    <3>2. [crawl EXCEPT !.pc = "process", !.newest = Newest, !.next = oldest]
            \in Crawls(Len(txs))
      BY <1>a, <3>1 DEF Crawls
    <3>3. QED
      BY <1>c, <2>2, <3>2 DEF StartProcessing
  <2>3. ASSUME PageFirst > PageLast PROVE crawl' \in Crawls(Len(txs))
    <3>1. StartProcessing(crawl.before)
      BY <1>10, <2>3 DEF FetchPage
    <3>2. QED
      BY <2>1, <2>2, <3>1 DEF StartProcessing
  <2>4. ASSUME PageFirst <= PageLast PROVE crawl' \in Crawls(Len(txs))
    <3>1. PageFirst \in 0..Len(txs)
      BY <1>a, <2>4, PageFacts
    <3>2. [crawl EXCEPT !.newest = Newest, !.before = PageFirst] \in Crawls(Len(txs))
      BY <1>a, <3>1, PageFacts DEF Crawls
    <3>3. QED
      <4>1. ~(PageFirst > PageLast)
        BY <2>4, PageFacts
      <4>2. \/ crawl' = [crawl EXCEPT !.newest = Newest, !.before = PageFirst]
            \/ StartProcessing(PageFirst)
        BY <1>10, <4>1 DEF FetchPage
      <4>3. QED
        BY <2>2, <3>1, <3>2, <4>2 DEF StartProcessing
  <2>5. crawl' \in Crawls(Len(txs))
    <3>1. PageFirst \in Int /\ PageLast \in Int
      BY PageFacts
    <3>2. QED
      BY <2>3, <2>4, <3>1
  <2>6. QED
    BY <1>10, <1>a, <1>b, <1>f, <2>5 DEF FetchPage
<1>11. CASE TickFails
  <2>1. faults' \in 0..MaxFaults
    BY <1>11, <1>a DEF TickFails
  <2>2. QED
    BY <1>11, <1>a, <1>b, <1>c, <1>f, <2>1 DEF TickFails
<1>g. ASSUME Processing, Advance
      PROVE  crawl.next \in TxIds /\ crawl' \in Crawls(Len(txs))
  <2>1. /\ crawl.until \in 0..Len(txs) /\ crawl.newest \in 0..Len(txs)
        /\ crawl.next \in 0..(Len(txs) + 1)
    BY <1>a DEF Crawls
  <2>2. crawl.until < crawl.next /\ crawl.next <= crawl.newest
    BY <1>g DEF Processing, CrawlerAt, CrawlIsContiguous
  <2>3. crawl.next \in TxIds /\ crawl.next + 1 \in 0..(Len(txs) + 1)
    BY <1>a, <1>d, <2>1, <2>2
  <2>4. [crawl EXCEPT !.next = crawl.next + 1] \in Crawls(Len(txs))
    BY <1>a, <2>3 DEF Crawls
  <2>5. QED
    BY <1>g, <2>3, <2>4 DEF Advance
<1>12. CASE PassOver
  BY <1>12, <1>a, <1>b, <1>f, <1>g DEF PassOver
<1>h. ASSUME index_instruction(crawl.next), crawl.next \in TxIds PROVE log' \in Seq(TxIds)
  <2>1. log \in Seq(Nat) /\ crawl.next \in Nat
    BY <1>a, <1>d, <1>h, SeqMonotonic
  <2>2. QED
    BY <1>a, <1>h, <2>1, IndexInstruction
<1>i. ASSUME NEW a, delete_account(a) PROVE rows' \in [Accounts -> Rows(finalized)]
  BY <1>b, <1>c, <1>i DEF delete_account
<1>13. CASE ProcessTransaction
  <2>1. crawl.next \in TxIds /\ crawl' \in Crawls(Len(txs)) /\ log' \in Seq(TxIds)
    BY <1>13, <1>g, <1>h DEF ProcessTransaction, Current
  <2>2. rows' \in [Accounts -> Rows(finalized)]
    BY <1>13, <1>b, <1>i DEF ProcessTransaction
  <2>3. QED
    BY <1>13, <1>a, <1>f, <2>1, <2>2 DEF ProcessTransaction
<1>14. CASE ProcessTransactionFails
  <2>1. crawl.next \in TxIds /\ crawl' \in Crawls(Len(txs))
    BY <1>14, <1>g DEF ProcessTransactionFails
  <2>2. log' \in Seq(TxIds)
    BY <1>14, <1>a, <1>h, <2>1 DEF ProcessTransactionFails, Current
  <2>3. rows' \in [Accounts -> Rows(finalized)]
    BY <1>14, <1>b, <1>i DEF ProcessTransactionFails
  <2>4. faults' \in 0..MaxFaults /\ skipped' \subseteq TxIds /\ cursor' = cursor
    BY <1>14, <1>a, <2>1 DEF ProcessTransactionFails, Current
  <2>5. QED
    BY <1>14, <1>a, <1>f, <2>1, <2>2, <2>3, <2>4 DEF ProcessTransactionFails
<1>15. CASE SaveCursor
  <2>1. cursor' \in 0..Len(txs)
    BY <1>15, <1>a DEF SaveCursor, Crawls
  <2>2. QED
    BY <1>15, <1>a, <1>b, <1>c, <1>f, <2>1 DEF SaveCursor
<1>16. CASE UNCHANGED vars
  BY <1>16, <1>a, <1>b, <1>e DEF vars, mirrorVars, crawlerVars
<1>17. QED
  BY <1>1, <1>2, <1>3, <1>4, <1>5, <1>6, <1>7, <1>8, <1>9, <1>10, <1>11, <1>12, <1>13,
     <1>14, <1>15, <1>16 DEF Next, Startup, Crawler, Faults

-----------------------------------------------------------------------------
(***************************************************************************)
(* The mirror.                                                             *)
(***************************************************************************)
LEMMA MirrorInit == Init => MirrorInv
<1> SUFFICES ASSUME Init PROVE MirrorInv
  OBVIOUS
<1>1. /\ finalized = 0 /\ feed = {} /\ phase = "down" /\ ~subscribed /\ crawl = CrawlerIdle
      /\ \A a \in Accounts : final[a] = 0 /\ rows[a] = NoRow
  BY DEF Init
<1>2. \A a \in Accounts : rows[a].data = 0 /\ rows[a].slot = -1
  BY <1>1 DEF NoRow
<1>3. 1..finalized = {}
  BY <1>1
<1>4. RowAsFreshAsItsSlot
  BY <1>3 DEF RowAsFreshAsItsSlot
<1>5. FinalIsLastWrite /\ StartupOrder /\ RowsHoldWrites /\ FeedFollowsSnapshot /\ Delivered
  BY <1>1, <1>2
  DEF FinalIsLastWrite, StartupOrder, RowsHoldWrites, FeedFollowsSnapshot, Delivered
<1>6. QED
  BY <1>4, <1>5 DEF MirrorInv

\* The values the mirror's variables take, where arithmetic is needed.
LEMMA MirrorTypes ==
  ASSUME TypeOK
  PROVE  /\ Len(txs) \in Nat /\ finalized \in Nat /\ finalized <= Len(txs)
         /\ stamp \in Nat /\ stamp <= finalized
         /\ \A i \in feed \cup lost : i \in 1..finalized
         /\ \A i \in 1..Len(txs) : txs[i].account \in Accounts /\ txs[i].kind \in Kinds
         /\ \A a \in Accounts : /\ rows[a] \in Rows(finalized)
                                /\ rows[a].slot \in -1..finalized
                                /\ rows[a].data \in 0..finalized
                                /\ final[a] \in 0..finalized
<1>1. txs \in Seq(Transactions) /\ Len(txs) \in Nat
  BY LenProperties DEF TypeOK
<1>2. \A i \in 1..Len(txs) : txs[i] \in Transactions
  BY <1>1, ElementOfSeq
<1>3. \A i \in 1..Len(txs) : txs[i].account \in Accounts /\ txs[i].kind \in Kinds
  BY <1>2 DEF Transactions
<1>4. QED
  BY <1>1, <1>3 DEF TypeOK, Rows

\* A step that leaves chain, mirror and rows alone keeps the mirror's invariant, if
\* the crawler does not run before it is started.
LEMMA MirrorStutter ==
  ASSUME MirrorInv, UNCHANGED chainVars, UNCHANGED mirrorVars, UNCHANGED rows,
         phase # "running" => crawl' = CrawlerIdle
  PROVE  MirrorInv'
BY DEF MirrorInv, FinalIsLastWrite, StartupOrder, RowsHoldWrites, FeedFollowsSnapshot,
       RowAsFreshAsItsSlot, Delivered, Wrote, NeverClosed, TxIds, chainVars, mirrorVars

\* Submitting changes nothing that is finalized.
LEMMA MirrorSubmit ==
  ASSUME TypeOK, MirrorInv, NEW a \in Accounts, NEW kind \in Kinds, Submit(a, kind)
  PROVE  MirrorInv'
<1>1. /\ Len(txs) \in Nat /\ \A i \in 1..Len(txs) : txs'[i] = txs[i]
      /\ TxIds = 1..Len(txs) /\ TxIds' = 1..(Len(txs) + 1)
  BY SubmitExtends DEF TxIds
<1>2. UNCHANGED <<finalized, final, phase, stamp, subscribed, feed, lost, rows, crawl>>
  BY DEF Submit, mirrorVars, crawlerVars
<1>3. \A i \in 1..finalized : txs'[i] = txs[i]
  BY <1>1, MirrorTypes
<1>4. \A b \in Accounts : NeverClosed(b)' => NeverClosed(b)
  BY <1>1 DEF NeverClosed
<1>5. FinalIsLastWrite' /\ RowsHoldWrites'
  <2>1. \A i \in 1..finalized, b \in Accounts : Wrote(i, b)' <=> Wrote(i, b)
    BY <1>3 DEF Wrote
  <2>2. \A b \in Accounts : /\ final[b] # 0 => final[b] \in 1..finalized
                            /\ rows[b].data # 0 => rows[b].data \in 1..finalized
    BY MirrorTypes
  <2>3. FinalIsLastWrite'
    BY <1>2, <2>1, <2>2 DEF MirrorInv, FinalIsLastWrite
  <2>4. RowsHoldWrites'
    BY <1>2, <2>1, <2>2 DEF MirrorInv, RowsHoldWrites
  <2>5. QED
    BY <2>3, <2>4
<1>6. StartupOrder'
  BY <1>2 DEF MirrorInv, StartupOrder
<1>7. FeedFollowsSnapshot' /\ RowAsFreshAsItsSlot'
  BY <1>2, <1>3, MirrorTypes DEF MirrorInv, FeedFollowsSnapshot, RowAsFreshAsItsSlot
<1>8. Delivered'
  BY <1>2, <1>4 DEF MirrorInv, Delivered
<1>9. QED
  BY <1>5, <1>6, <1>7, <1>8 DEF MirrorInv

\* Finalizing makes the transaction the last of its account, and puts it among the
\* updates to come or the missed ones.
LEMMA MirrorFinalize ==
  ASSUME TypeOK, MirrorInv, Finalize
  PROVE  MirrorInv'
<1> DEFINE i == finalized + 1
           b == txs[i].account
<1>1. /\ i \in 1..Len(txs) /\ finalized' = i /\ b \in Accounts /\ txs[i].kind \in Kinds
      /\ final' = [final EXCEPT ![b] = Effect(txs[i].kind, i, final[b])]
      /\ UNCHANGED <<txs, phase, stamp, subscribed, rows, crawl>>
  BY MirrorTypes DEF Finalize, crawlerVars
<1>2. /\ feed' = IF subscribed /\ txs[i].kind = "write" THEN feed \cup {i} ELSE feed
      /\ lost' = IF ~subscribed /\ txs[i].kind = "write" THEN lost \cup {i} ELSE lost
  BY DEF Finalize
<1>3. /\ \A a \in Accounts : a # b => final'[a] = final[a]
      /\ final'[b] = IF txs[i].kind = "write" THEN i
                     ELSE IF txs[i].kind = "close" THEN 0 ELSE final[b]
  BY <1>1, MirrorTypes DEF Effect, Kinds, TypeOK
<1>4. FinalIsLastWrite'
  BY <1>1, <1>3, MirrorTypes DEF MirrorInv, FinalIsLastWrite, Wrote
<1>5. StartupOrder'
  BY <1>1, <1>2 DEF MirrorInv, StartupOrder
<1>6. RowsHoldWrites' /\ RowAsFreshAsItsSlot'
  BY <1>1, MirrorTypes DEF MirrorInv, RowsHoldWrites, RowAsFreshAsItsSlot, Wrote
<1>7. FeedFollowsSnapshot'
  BY <1>1, <1>2, MirrorTypes DEF MirrorInv, FeedFollowsSnapshot
<1>8. Delivered'
  <2> SUFFICES ASSUME NEW a \in Accounts, NeverClosed(a)', final'[a] # 0,
                      final'[a] \notin feed' \cup lost'
               PROVE  rows'[a].data = final'[a]
    BY DEF Delivered
  <2>1. NeverClosed(a) /\ (a = b => txs[i].kind # "close")
    BY <1>1 DEF NeverClosed, TxIds
  <2>2. ~(a = b /\ txs[i].kind = "write")
    BY <1>2, <1>3
  <2>3. final'[a] = final[a]
    BY <1>3, <2>1, <2>2
  <2>4. QED
    BY <1>1, <1>2, <2>1, <2>3 DEF MirrorInv, Delivered
<1>9. QED
  BY <1>4, <1>5, <1>6, <1>7, <1>8 DEF MirrorInv

\* The backfill fetches its slot: no row carries a later one.
LEMMA MirrorGetSlot ==
  ASSUME TypeOK, MirrorInv, GetSlot
  PROVE  MirrorInv'
<1>1. /\ phase = "down" /\ phase' = "snapshot" /\ stamp' = finalized
      /\ UNCHANGED <<chainVars, subscribed, feed, lost, rows, crawl>>
  BY DEF GetSlot, crawlerVars
<1>2. StartupOrder'
  BY <1>1, MirrorTypes DEF MirrorInv, StartupOrder
<1>3. QED
  BY <1>1, <1>2
  DEF MirrorInv, FinalIsLastWrite, RowsHoldWrites, FeedFollowsSnapshot,
      RowAsFreshAsItsSlot, Delivered, Wrote, NeverClosed, TxIds, chainVars

\* What a snapshot leaves in the row of an account.
LEMMA SnapshotRow ==
  ASSUME TypeOK, MirrorInv, NEW F \in SUBSET Accounts, Snapshot(F), NEW a \in Accounts
  PROVE  \/ rows'[a] = NoRow
         \/ rows'[a] = rows[a] /\ (final[a] = 0 \/ a \in F)
         \/ final[a] # 0 /\ rows'[a] = [slot |-> stamp, data |-> final[a]]
<1>1. rows[a].slot <= stamp
  BY DEF Snapshot, MirrorInv, StartupOrder
<1>2. Upsert(rows[a], SnapshotStamp, final[a]) = [slot |-> stamp, data |-> final[a]]
  BY <1>1 DEF Upsert, NotOlder, SnapshotStamp
<1>3. QED
  BY <1>2 DEF Snapshot

\* The snapshot is at least as fresh as every row, and delivers what was missed but
\* for the accounts whose upsert failed.
LEMMA MirrorSnapshot ==
  ASSUME TypeOK, MirrorInv, NEW F \in SUBSET Accounts, Snapshot(F)
  PROVE  MirrorInv'
<1>1. /\ phase = "snapshot" /\ phase' = "running"
      /\ lost' = {i \in lost : txs[i].account \in F}
      /\ UNCHANGED <<chainVars, txs, finalized, final, stamp, subscribed, feed, crawl>>
  BY DEF Snapshot, crawlerVars, chainVars
<1>2. feed = {}
  BY <1>1 DEF MirrorInv, StartupOrder
<1>3. FinalIsLastWrite' /\ StartupOrder' /\ FeedFollowsSnapshot'
  BY <1>1, <1>2 DEF MirrorInv, FinalIsLastWrite, StartupOrder, FeedFollowsSnapshot, Wrote
<1>4. RowsHoldWrites'
  <2> SUFFICES ASSUME NEW a \in Accounts, rows'[a].data # 0 PROVE Wrote(rows'[a].data, a)
    BY <1>1 DEF RowsHoldWrites, Wrote
  <2>1. \/ rows'[a].data = rows[a].data
        \/ final[a] # 0 /\ rows'[a].data = final[a]
    <3>1. CASE rows'[a] = NoRow
      <4>1. rows'[a].data = 0
        BY <3>1 DEF NoRow
      <4>2. QED
        BY <4>1
    <3>2. CASE rows'[a] = rows[a]
      BY <3>2
    <3>3. CASE final[a] # 0 /\ rows'[a] = [slot |-> stamp, data |-> final[a]]
      BY <3>3
    <3>4. QED
      BY <3>1, <3>2, <3>3, SnapshotRow
  <2>2. QED
    BY <2>1 DEF MirrorInv, RowsHoldWrites, FinalIsLastWrite
<1>5. RowAsFreshAsItsSlot'
  <2> SUFFICES ASSUME NEW a \in Accounts, NEW i \in 1..finalized, rows'[a] # NoRow,
                      i <= rows'[a].slot, Wrote(i, a)
               PROVE  i <= rows'[a].data
    BY <1>1 DEF RowAsFreshAsItsSlot, Wrote
  <2>1. CASE rows'[a] = rows[a]
    BY <2>1 DEF MirrorInv, RowAsFreshAsItsSlot, Wrote
  <2>2. CASE final[a] # 0 /\ rows'[a] = [slot |-> stamp, data |-> final[a]]
    BY <2>2 DEF MirrorInv, FinalIsLastWrite
  <2>3. QED
    BY <2>1, <2>2, SnapshotRow
<1>6. Delivered'
  <2> SUFFICES ASSUME NEW a \in Accounts, NeverClosed(a), final[a] # 0,
                      final[a] \notin feed' \cup lost'
               PROVE  rows'[a].data = final[a]
    BY <1>1 DEF Delivered, NeverClosed, TxIds
  <2>1. CASE a \in F
    <3>1. txs[final[a]].account = a
      BY DEF MirrorInv, FinalIsLastWrite, Wrote
    <3>2. final[a] \notin feed \cup lost
      BY <1>1, <1>2, <2>1, <3>1
    <3>3. rows[a].data = final[a]
      BY <3>2 DEF MirrorInv, Delivered
    <3>4. rows'[a] = rows[a]
      BY <2>1 DEF Snapshot
    <3>5. QED
      BY <3>3, <3>4
  <2>2. CASE a \notin F
    <3>1. rows'[a] = Upsert(rows[a], SnapshotStamp, final[a])
      BY <2>2 DEF Snapshot
    <3>2. rows[a].slot <= stamp
      BY <1>1 DEF MirrorInv, StartupOrder
    <3>3. QED
      BY <3>1, <3>2 DEF Upsert, NotOlder, SnapshotStamp
  <2>3. QED
    BY <2>1, <2>2
<1>7. QED
  BY <1>3, <1>4, <1>5, <1>6 DEF MirrorInv

\* The pipeline connects only once main.rs has run the startup.
LEMMA MirrorSubscribe ==
  ASSUME TypeOK, MirrorInv, Subscribe
  PROVE  MirrorInv'
<1>1. /\ phase = "running"
      /\ UNCHANGED <<chainVars, phase, stamp, feed, lost, rows, crawl>>
  BY DEF Subscribe, crawlerVars
<1>2. StartupOrder'
  BY <1>1 DEF StartupOrder
<1>3. QED
  BY <1>1, <1>2
  DEF MirrorInv, FinalIsLastWrite, RowsHoldWrites, FeedFollowsSnapshot,
      RowAsFreshAsItsSlot, Delivered, Wrote, NeverClosed, TxIds, chainVars

\* An update that is not processed is missed.
LEMMA MirrorUpdateFails ==
  ASSUME TypeOK, MirrorInv, NEW i \in feed, UpdateFails(i)
  PROVE  MirrorInv'
<1>1. /\ feed' = feed \ {i} /\ lost' = lost \cup {i}
      /\ UNCHANGED <<chainVars, phase, stamp, subscribed, rows, crawl>>
  BY DEF UpdateFails, crawlerVars
<1>2. feed' \subseteq feed /\ feed' \cup lost' = feed \cup lost
  BY <1>1
<1>3. StartupOrder'
  BY <1>1 DEF MirrorInv, StartupOrder
<1>4. FeedFollowsSnapshot'
  BY <1>1, <1>2 DEF MirrorInv, FeedFollowsSnapshot, chainVars
<1>5. Delivered'
  BY <1>1, <1>2 DEF MirrorInv, Delivered, NeverClosed, TxIds, chainVars
<1>6. QED
  BY <1>1, <1>3, <1>4, <1>5
  DEF MirrorInv, FinalIsLastWrite, RowsHoldWrites, RowAsFreshAsItsSlot, Wrote, chainVars

\* The updates in flight are missed when the process dies.
LEMMA MirrorCrash ==
  ASSUME TypeOK, MirrorInv, Crash
  PROVE  MirrorInv'
<1>1. /\ feed' = {} /\ lost' = lost \cup feed /\ phase' = "down" /\ subscribed' = FALSE
      /\ crawl' = CrawlerIdle
      /\ UNCHANGED <<chainVars, stamp, rows>>
  BY DEF Crash
<1>2. feed' \cup lost' = feed \cup lost
  BY <1>1
<1>3. StartupOrder' /\ FeedFollowsSnapshot'
  BY <1>1 DEF StartupOrder, FeedFollowsSnapshot
<1>4. Delivered'
  BY <1>1, <1>2 DEF MirrorInv, Delivered, NeverClosed, TxIds, chainVars
<1>5. QED
  BY <1>1, <1>3, <1>4
  DEF MirrorInv, FinalIsLastWrite, RowsHoldWrites, RowAsFreshAsItsSlot, Wrote, chainVars

\* What processing an update leaves in the rows.
LEMMA UpdateRow ==
  ASSUME TypeOK, MirrorInv, NEW i \in feed, ProcessUpdate(i)
  PROVE  /\ i \in 1..finalized /\ txs[i].account \in Accounts /\ Wrote(i, txs[i].account)
         /\ \A b \in Accounts : b # txs[i].account => rows'[b] = rows[b]
         /\ \/ /\ rows[txs[i].account].slot <= i
               /\ rows'[txs[i].account] = [slot |-> i, data |-> i]
               /\ rows[txs[i].account].data <= i
            \/ /\ rows[txs[i].account].slot > i
               /\ rows'[txs[i].account] = rows[txs[i].account]
               /\ rows[txs[i].account].data = rows[txs[i].account].slot
<1> DEFINE a == txs[i].account
<1>1. /\ i \in 1..finalized /\ a \in Accounts /\ Wrote(i, a)
      /\ rows[a].slot \in -1..finalized /\ rows[a].data \in 0..finalized
      /\ finalized \in Nat
  <2>1. i \in 1..finalized /\ i \in 1..Len(txs) /\ finalized \in Nat
    BY MirrorTypes
  <2>2. a \in Accounts
    BY <2>1, MirrorTypes
  <2>3. QED
    BY <2>1, <2>2, MirrorTypes DEF MirrorInv, FeedFollowsSnapshot, Wrote
<1>2. rows' = [rows EXCEPT ![a] = Upsert(rows[a], i, i)]
  BY DEF ProcessUpdate
<1>3. rows'[a] = Upsert(rows[a], i, i) /\ \A b \in Accounts : b # a => rows'[b] = rows[b]
  BY <1>1, <1>2 DEF TypeOK
<1>4. /\ rows[a].data > rows[a].slot => i > rows[a].data
      /\ rows[a].slot >= i => rows[a].data = rows[a].slot
  BY <1>1 DEF MirrorInv, FeedFollowsSnapshot
<1>5. CASE rows[a].slot <= i
  <2>1. rows'[a] = [slot |-> i, data |-> i]
    BY <1>3, <1>5 DEF Upsert, NotOlder
  <2>2. rows[a].data <= i
    BY <1>1, <1>4, <1>5
  <2>3. QED
    BY <1>1, <1>3, <1>5, <2>1, <2>2
<1>6. CASE rows[a].slot > i
  <2>1. rows'[a] = rows[a]
    BY <1>1, <1>3, <1>6 DEF Upsert, NotOlder
  <2>2. rows[a].data = rows[a].slot
    BY <1>1, <1>4, <1>6
  <2>3. QED
    BY <1>1, <1>3, <1>6, <2>1, <2>2
<1>7. QED
  BY <1>1, <1>5, <1>6

\* An update changes its row unless the row is newer; the last state of an account
\* finds no newer row, and an older one does not displace it.
LEMMA MirrorUpdate ==
  ASSUME TypeOK, MirrorInv, NEW i \in feed, ProcessUpdate(i)
  PROVE  MirrorInv'
<1> DEFINE a == txs[i].account
<1>1. /\ feed' = feed \ {i}
      /\ UNCHANGED <<chainVars, txs, finalized, final, phase, stamp, subscribed, lost, crawl>>
  BY DEF ProcessUpdate, crawlerVars, chainVars
<1>2. /\ i \in 1..finalized /\ a \in Accounts /\ Wrote(i, a)
      /\ \A b \in Accounts : b # a => rows'[b] = rows[b]
      /\ \/ rows[a].slot <= i /\ rows'[a] = [slot |-> i, data |-> i] /\ rows[a].data <= i
         \/ rows[a].slot > i /\ rows'[a] = rows[a] /\ rows[a].data = rows[a].slot
  BY UpdateRow
<1>3. \A b \in Accounts : rows'[b] = rows[b] \/ (b = a /\ rows'[b] = [slot |-> i, data |-> i])
  BY <1>2
<1>4. FinalIsLastWrite' /\ StartupOrder'
  BY <1>1 DEF MirrorInv, FinalIsLastWrite, StartupOrder, Wrote
<1>5. RowsHoldWrites'
  BY <1>1, <1>2, <1>3 DEF MirrorInv, RowsHoldWrites, Wrote
<1>6. FeedFollowsSnapshot'
  <2>1. \A j \in feed' : j \in feed /\ txs'[j].kind = "write"
    BY <1>1 DEF MirrorInv, FeedFollowsSnapshot
  <2>2. ASSUME NEW j \in feed', NEW b \in Accounts
        PROVE  /\ rows'[b].data > rows'[b].slot => j > rows'[b].data
               /\ rows'[b].slot >= j => rows'[b].data = rows'[b].slot
    <3>1. CASE rows'[b] = rows[b]
      BY <2>1, <3>1 DEF MirrorInv, FeedFollowsSnapshot
    <3>2. CASE rows'[b] = [slot |-> i, data |-> i]
      BY <1>2, <3>2
    <3>3. QED
      BY <1>3, <3>1, <3>2
  <2>3. QED
    BY <2>1, <2>2 DEF FeedFollowsSnapshot
<1>7. RowAsFreshAsItsSlot'
  BY <1>1, <1>3 DEF MirrorInv, RowAsFreshAsItsSlot
<1>8. Delivered'
  <2> SUFFICES ASSUME NEW b \in Accounts, NeverClosed(b), final[b] # 0,
                      final[b] \notin feed' \cup lost
               PROVE  rows'[b].data = final[b]
    BY <1>1 DEF Delivered, NeverClosed, TxIds
  <2>1. final[b] # i => rows[b].data = final[b]
    BY <1>1 DEF MirrorInv, Delivered
  <2>2. /\ Wrote(final[b], b) /\ final[b] \in 1..finalized
        /\ \A j \in 1..finalized : Wrote(j, b) => j <= final[b]
    BY MirrorTypes DEF MirrorInv, FinalIsLastWrite
  <2>3. CASE b # a
    <3>1. final[b] # i
      BY <2>2, <2>3 DEF Wrote
    <3>2. QED
      BY <1>2, <2>1, <2>3, <3>1
  <2>4. CASE b = a /\ final[b] = i
    <3>1. rows[a].data # 0 => rows[a].data \in 1..finalized /\ Wrote(rows[a].data, a)
      BY <1>2, MirrorTypes DEF MirrorInv, RowsHoldWrites
    <3>2. rows[a].data <= i
      BY <1>2, <2>2, <2>4, <3>1
    <3>3. ~(rows[a].slot > i /\ rows[a].data = rows[a].slot)
      BY <1>2, <3>2, MirrorTypes
    <3>4. QED
      BY <1>2, <2>4, <3>3
  <2>5. CASE b = a /\ final[b] # i
    <3>1. i < final[b]
      BY <1>2, <2>2, <2>5
    <3>2. rows[a].data = final[b] /\ rows[a].data > i
      BY <2>1, <2>5, <3>1
    <3>3. rows'[a] = rows[a]
      BY <1>2, <3>2, MirrorTypes
    <3>4. QED
      BY <2>5, <3>2, <3>3
  <2>6. QED
    BY <2>3, <2>4, <2>5
<1>9. QED
  BY <1>4, <1>5, <1>6, <1>7, <1>8 DEF MirrorInv

\* The crawler deletes rows of accounts that were closed only.
LEMMA MirrorDelete ==
  ASSUME TypeOK, MirrorInv, UNCHANGED chainVars, UNCHANGED mirrorVars, phase = "running",
         NEW i \in TxIds, txs[i].kind = "close", delete_account(txs[i].account)
  PROVE  MirrorInv'
<1> DEFINE a == txs[i].account
<1>1. UNCHANGED <<txs, finalized, final, phase, stamp, subscribed, feed, lost>>
  BY DEF chainVars, mirrorVars
<1>2. /\ a \in Accounts /\ rows'[a] = NoRow
      /\ \A b \in Accounts : b # a => rows'[b] = rows[b]
  BY MirrorTypes DEF TypeOK, delete_account, TxIds
<1>3. FinalIsLastWrite' /\ StartupOrder'
  BY <1>1 DEF MirrorInv, FinalIsLastWrite, StartupOrder, Wrote
<1>4. \A b \in Accounts : rows'[b] = rows[b] \/ (rows'[b] = NoRow /\ rows'[b].data = 0
                                                 /\ rows'[b].slot = -1)
  BY <1>2 DEF NoRow
<1>5. RowsHoldWrites' /\ RowAsFreshAsItsSlot'
  BY <1>1, <1>4 DEF MirrorInv, RowsHoldWrites, RowAsFreshAsItsSlot, Wrote
<1>6. FeedFollowsSnapshot'
  <2>1. \A j \in feed : j > 0 /\ j \in Nat
    BY MirrorTypes
  <2>2. QED
    BY <1>1, <1>4, <2>1 DEF MirrorInv, FeedFollowsSnapshot
<1>7. Delivered'
  BY <1>1, <1>2 DEF MirrorInv, Delivered, NeverClosed, TxIds
<1>8. QED
  BY <1>3, <1>5, <1>6, <1>7 DEF MirrorInv

LEMMA MirrorStep == TypeOK /\ MirrorInv /\ CrawlIsContiguous /\ [Next]_vars => MirrorInv'
<1> SUFFICES ASSUME TypeOK, MirrorInv, CrawlIsContiguous, [Next]_vars PROVE MirrorInv'
  OBVIOUS
\* A step of a running crawler that leaves the rows alone.
<1>a. ASSUME AfterCrawlerStep, UNCHANGED rows, phase = "running" PROVE MirrorInv'
  BY <1>a, MirrorStutter DEF AfterCrawlerStep
<1>b. crawl.pc # "idle" => phase = "running"
  BY DEF MirrorInv, StartupOrder, CrawlerIdle
\* A step that processes the transaction `next`, and may delete what it closed.
<1>c. ASSUME Processing, AfterCrawlerStep,
             \/ UNCHANGED rows
             \/ txs[Current].kind = "close" /\ delete_account(txs[Current].account)
      PROVE  MirrorInv'
  <2>1. phase = "running"
    BY <1>b, <1>c DEF Processing, CrawlerAt
  <2>2. Current \in TxIds
    <3>1. crawl.until < crawl.next /\ crawl.next <= crawl.newest
      BY <1>c DEF Processing, CrawlerAt, CrawlIsContiguous
    <3>2. /\ crawl.until \in 0..Len(txs) /\ crawl.newest \in 0..Len(txs)
          /\ crawl.next \in 0..(Len(txs) + 1) /\ Len(txs) \in Nat
      BY MirrorTypes DEF TypeOK, Crawls
    <3>3. QED
      BY <3>1, <3>2 DEF Current, TxIds
  <2>3. UNCHANGED chainVars /\ UNCHANGED mirrorVars
    BY <1>c DEF AfterCrawlerStep
  <2>4. QED
    BY <1>a, <1>c, <2>1, <2>2, <2>3, MirrorDelete
<1>1. ASSUME NEW a \in Accounts, NEW kind \in Kinds, Submit(a, kind) PROVE MirrorInv'
  BY <1>1, MirrorSubmit
<1>2. CASE Finalize
  BY <1>2, MirrorFinalize
<1>3. CASE GetSlot
  BY <1>3, MirrorGetSlot
<1>4. ASSUME NEW F \in SUBSET Accounts, Snapshot(F) PROVE MirrorInv'
  BY <1>4, MirrorSnapshot
<1>5. CASE Subscribe
  BY <1>5, MirrorSubscribe
<1>6. ASSUME NEW i \in feed, ProcessUpdate(i) PROVE MirrorInv'
  BY <1>6, MirrorUpdate
<1>7. ASSUME NEW i \in feed, UpdateFails(i) PROVE MirrorInv'
  BY <1>7, MirrorUpdateFails
<1>8. CASE Crash
  BY <1>8, MirrorCrash
<1>9. CASE LoadCursor
  BY <1>9, <1>a DEF LoadCursor
<1>10. CASE FetchPage
  BY <1>10, <1>a, <1>b DEF FetchPage, CrawlerAt
<1>11. CASE TickFails
  BY <1>11, <1>a, <1>b DEF TickFails, CrawlerAt
<1>12. CASE PassOver
  BY <1>12, <1>c DEF PassOver
<1>13. CASE ProcessTransaction
  BY <1>13, <1>c DEF ProcessTransaction
<1>14. CASE ProcessTransactionFails
  BY <1>14, <1>c DEF ProcessTransactionFails
<1>15. CASE SaveCursor
  BY <1>15, <1>a, <1>b DEF SaveCursor, CrawlerAt
<1>16. CASE UNCHANGED vars
  <2>1. phase # "running" => crawl' = CrawlerIdle
    BY <1>16 DEF vars, crawlerVars, MirrorInv, StartupOrder
  <2>2. QED
    BY <1>16, <2>1, MirrorStutter DEF vars
<1>17. QED
  BY <1>1, <1>2, <1>3, <1>4, <1>5, <1>6, <1>7, <1>8, <1>9, <1>10, <1>11, <1>12, <1>13,
     <1>14, <1>15, <1>16 DEF Next, Startup, Crawler, Faults

-----------------------------------------------------------------------------
(***************************************************************************)
(* The crawler.                                                            *)
(***************************************************************************)
LEMMA CrawlerInit == Init => CrawlerInv
<1> SUFFICES ASSUME Init PROVE CrawlerInv
  OBVIOUS
<1>1. /\ log = <<>> /\ DOMAIN log = {} /\ cursor = 0 /\ crawl.pc = "idle"
  BY DEF Init, CrawlerIdle
<1>2. 1..cursor = {}
  BY <1>1
<1>3. QED
  BY <1>1, <1>2
  DEF CrawlerInv, CrawlIsContiguous, NothingDroppedUpToCursor, LoggedOnce, LogHasNoHoles,
      LogChronological

\* The values the crawler's variables take, where arithmetic is needed.
LEMMA CrawlerTypes ==
  ASSUME TypeOK
  PROVE  /\ Len(txs) \in Nat /\ TxIds = 1..Len(txs) /\ cursor \in 0..Len(txs)
         /\ crawl.until \in 0..Len(txs) /\ crawl.before \in 0..Len(txs)
         /\ crawl.newest \in 0..Len(txs) /\ crawl.next \in 0..(Len(txs) + 1)
         /\ log \in Seq(Nat)
         /\ \A k \in DOMAIN log : log[k] \in TxIds
<1>1. Len(txs) \in Nat /\ TxIds = 1..Len(txs)
  BY LenProperties DEF TypeOK, TxIds
<1>2. log \in Seq(TxIds) /\ cursor \in 0..Len(txs) /\ crawl \in Crawls(Len(txs))
  BY DEF TypeOK
<1>3. log \in Seq(Nat)
  BY <1>1, <1>2, SeqMonotonic
<1>4. \A k \in DOMAIN log : log[k] \in TxIds
  BY <1>2, ElementOfSeq, LenProperties
<1>5. QED
  BY <1>1, <1>2, <1>3, <1>4 DEF Crawls

\* While log, cursor and skipped stand still, the history may grow: what the crawler
\* claims of it, it claims of transactions that are already there.
LEMMA CrawlerStutter ==
  ASSUME TypeOK, CrawlerInv, UNCHANGED <<log, cursor, skipped>>,
         \A i \in 1..Len(txs) : txs'[i] = txs[i], CrawlIsContiguous'
  PROVE  CrawlerInv'
<1>1. \A i \in 1..Len(txs) : Succeeded(i)' <=> Succeeded(i)
  BY DEF Succeeded
<1>2. NothingDroppedUpToCursor'
  <2> SUFFICES ASSUME NEW i \in 1..cursor', Succeeded(i)'
               PROVE  Logged(i)' \/ i \in skipped'
    BY DEF NothingDroppedUpToCursor
  <2>1. i \in 1..cursor /\ cursor \in 0..Len(txs) /\ Len(txs) \in Nat
    BY CrawlerTypes
  <2>2. i \in 1..Len(txs)
    BY <2>1
  <2>3. Succeeded(i)
    BY <1>1, <2>2
  <2>4. Logged(i) \/ i \in skipped
    BY <2>1, <2>3 DEF CrawlerInv, NothingDroppedUpToCursor
  <2>5. QED
    BY <2>4 DEF Logged
<1>3. LogHasNoHoles'
  <2> SUFFICES ASSUME skipped = {}, NEW k \in DOMAIN log, NEW j \in 1..log[k], Succeeded(j)'
               PROVE  Logged(j)
    BY DEF LogHasNoHoles, Logged
  <2>1. log[k] \in 1..Len(txs) /\ Len(txs) \in Nat
    BY CrawlerTypes
  <2>2. j \in 1..Len(txs)
    BY <2>1
  <2>3. QED
    BY <1>1, <2>2 DEF CrawlerInv, LogHasNoHoles
<1>4. LoggedOnce' /\ LogChronological'
  BY DEF CrawlerInv, LoggedOnce, LogChronological
<1>5. QED
  BY <1>2, <1>3, <1>4 DEF CrawlerInv

\* A tick that ends, by whatever cause, leaves nothing to be claimed of it.
LEMMA CrawlerIdles ==
  ASSUME crawl' = CrawlerIdle
  PROVE  CrawlIsContiguous'
BY DEF CrawlIsContiguous, CrawlerIdle

\* A growing history keeps the crawler's invariant.
LEMMA CrawlerSubmit ==
  ASSUME TypeOK, CrawlerInv, NEW a \in Accounts, NEW kind \in Kinds, Submit(a, kind)
  PROVE  CrawlerInv'
<1>1. UNCHANGED <<log, cursor, skipped, crawl>> /\ \A i \in 1..Len(txs) : txs'[i] = txs[i]
  BY SubmitExtends DEF Submit, crawlerVars
<1>2. ASSUME crawl.pc = "process", NEW i \in (crawl.until + 1)..(crawl.next - 1)
      PROVE  Succeeded(i)' <=> Succeeded(i)
  <2>1. crawl.next <= crawl.newest + 1
    BY <1>2 DEF CrawlerInv, CrawlIsContiguous
  <2>2. i \in 1..Len(txs)
    BY <2>1, CrawlerTypes
  <2>3. QED
    BY <1>1, <2>2 DEF Succeeded
<1>3. CrawlIsContiguous'
  BY <1>1, <1>2 DEF CrawlerInv, CrawlIsContiguous, Logged
<1>4. QED
  BY <1>1, <1>3, CrawlerStutter

\* Nothing but the crawler and Submit touches what the crawler's invariant is about.
LEMMA CrawlerUnmoved ==
  ASSUME TypeOK, CrawlerInv, UNCHANGED <<txs, crawlerVars>>
  PROVE  CrawlerInv'
BY DEF CrawlerInv, CrawlIsContiguous, NothingDroppedUpToCursor, LoggedOnce, LogHasNoHoles,
       LogChronological, Logged, Succeeded, crawlerVars

\* The loop starts right after the cursor: the last page fetched reaches down to it.
LEMMA StartsAtCursor ==
  ASSUME TypeOK, CrawlIsContiguous, CrawlerAt("fetch"), UNCHANGED <<txs, log, cursor, skipped>>,
         NEW oldest \in Nat, oldest = crawl.until + 1, Newest # 0 => oldest <= Newest,
         StartProcessing(oldest)
  PROVE  CrawlIsContiguous'
<1>1. CASE Newest = 0
  BY <1>1, CrawlerIdles DEF StartProcessing
<1>2. CASE Newest # 0
  <2>1. crawl' = [crawl EXCEPT !.pc = "process", !.newest = Newest, !.next = oldest]
    BY <1>2 DEF StartProcessing
  <2>2. /\ crawl'.pc = "process" /\ crawl'.newest = Newest /\ crawl'.next = oldest
        /\ crawl'.until = crawl.until /\ crawl'.until = cursor'
    <3>1. crawl \in Crawls(Len(txs))
      BY DEF TypeOK
    <3>2. crawl.until = cursor
      BY DEF CrawlIsContiguous, CrawlerAt
    <3>3. QED
      BY <2>1, <3>1, <3>2 DEF Crawls
  <2>3. /\ crawl.until < oldest /\ oldest <= Newest + 1 /\ crawl.until < Newest
        /\ (crawl.until + 1)..(oldest - 1) = {}
    <3>1. crawl.until \in Nat /\ Newest \in Nat
      BY CrawlerTypes, PageFacts
    <3>2. QED
      BY <1>2, <3>1
  <2>4. QED
    BY <2>2, <2>3 DEF CrawlIsContiguous
<1>3. QED
  BY <1>1, <1>2

\* A full page leads to the next one, any other ends the listing.
LEMMA CrawlerFetchPage ==
  ASSUME TypeOK, CrawlerInv, FetchPage
  PROVE  CrawlIsContiguous'
<1>1. /\ CrawlerAt("fetch") /\ UNCHANGED <<txs, log, cursor, skipped>>
      /\ CrawlIsContiguous /\ crawl.pc = "fetch" /\ crawl.until = cursor
      /\ \/ crawl.before = 0 /\ crawl.newest = 0
         \/ crawl.until < crawl.before /\ crawl.before <= crawl.newest
  BY DEF FetchPage, AfterCrawlerStep, chainVars, CrawlerInv, CrawlIsContiguous, CrawlerAt
<1>2. /\ PageLimit \in Nat /\ PageLimit > 0 /\ PageLast \in Int /\ PageFirst \in Nat
      /\ crawl.until < PageFirst /\ Newest \in 0..Len(txs)
      /\ PageLast = IF crawl.before = 0 THEN Len(txs) ELSE crawl.before - 1
      /\ PageFirst = IF PageLast - PageLimit > crawl.until THEN PageLast - PageLimit + 1
                                                           ELSE crawl.until + 1
      /\ Newest = IF crawl.newest # 0 THEN crawl.newest
                  ELSE IF PageFirst <= PageLast THEN PageLast ELSE 0
  BY PageFacts, PagesHoldSomething DEF PageLast, PageFirst, Newest
\* What each way of ending the listing needs, as arithmetic.
<1>a. /\ PageFirst > PageLast /\ Newest # 0
           => crawl.before = crawl.until + 1 /\ crawl.before <= Newest
      /\ ~(PageFirst > PageLast) => PageFirst <= Newest
  <2>1. /\ crawl.until \in Nat /\ crawl.before \in Nat /\ crawl.newest \in Nat
        /\ Len(txs) \in Nat
    BY CrawlerTypes
  <2>2. CASE crawl.before = 0 /\ crawl.newest = 0
    BY <1>2, <2>1, <2>2
  <2>3. CASE crawl.until < crawl.before /\ crawl.before <= crawl.newest
    <3>1. PageLast = crawl.before - 1 /\ Newest = crawl.newest
      BY <1>2, <2>1, <2>3
    <3>2. ASSUME PageFirst > PageLast PROVE crawl.before = crawl.until + 1
      <4>1. ~(PageLast - PageLimit > crawl.until)
        BY <1>2, <2>1, <3>2
      <4>2. PageFirst = crawl.until + 1
        BY <1>2, <4>1
      <4>3. QED
        BY <2>1, <2>3, <3>1, <3>2, <4>2
    <3>3. ~(PageFirst > PageLast) => PageFirst <= Newest
      <4>1. PageFirst \in Nat
        BY <1>2
      <4>2. QED
        BY <2>1, <2>3, <3>1, <4>1
    <3>4. QED
      BY <2>3, <3>1, <3>2, <3>3
  <2>4. QED
    BY <1>1, <2>2, <2>3
<1>3. CASE PageFirst > PageLast
  <2>1. StartProcessing(crawl.before)
    BY <1>3 DEF FetchPage
  <2>2. Newest # 0 => crawl.before = crawl.until + 1 /\ crawl.before <= Newest
    BY <1>3, <1>a
  <2>3. CASE Newest = 0
    BY <2>1, <2>3, CrawlerIdles DEF StartProcessing
  <2>4. CASE Newest # 0
    BY <1>1, <2>1, <2>2, <2>4, CrawlerTypes, StartsAtCursor
  <2>5. QED
    BY <2>3, <2>4
<1>4. CASE ~(PageFirst > PageLast) /\ FullPage(PageFirst, PageLast)
  <2>1. crawl' = [crawl EXCEPT !.newest = Newest, !.before = PageFirst]
    BY <1>4 DEF FetchPage
  <2>2. /\ crawl'.pc = "fetch" /\ crawl'.until = crawl.until
        /\ crawl'.before = PageFirst /\ crawl'.newest = Newest
    <3>1. crawl \in Crawls(Len(txs))
      BY DEF TypeOK
    <3>2. QED
      BY <1>1, <2>1, <3>1 DEF Crawls
  <2>3. PageFirst <= Newest
    BY <1>4, <1>a
  <2>4. QED
    BY <1>1, <1>2, <2>2, <2>3 DEF CrawlIsContiguous
<1>5. CASE ~(PageFirst > PageLast) /\ ~FullPage(PageFirst, PageLast)
  <2>1. StartProcessing(PageFirst)
    BY <1>5 DEF FetchPage
  <2>2. PageFirst = crawl.until + 1
    BY <1>2, <1>5, PageFacts
  <2>3. PageFirst <= Newest
    BY <1>5, <1>a
  <2>4. QED
    BY <1>1, <1>2, <2>1, <2>2, <2>3, StartsAtCursor
<1>6. QED
  BY <1>3, <1>4, <1>5

\* The tick has worked up to the newest signature it saw: the cursor may follow.
LEMMA CrawlerSaveCursor ==
  ASSUME TypeOK, CrawlerInv, SaveCursor
  PROVE  CrawlerInv'
<1>1. /\ crawl.pc = "process" /\ crawl.next > crawl.newest /\ cursor' = crawl.newest
      /\ crawl' = CrawlerIdle /\ UNCHANGED <<txs, log, skipped>>
  BY DEF SaveCursor, AfterCrawlerStep, chainVars, CrawlerAt
<1>2. /\ crawl.until = cursor
      /\ \A i \in (crawl.until + 1)..(crawl.next - 1) :
           Succeeded(i) => Logged(i) \/ i \in skipped
  BY <1>1 DEF CrawlerInv, CrawlIsContiguous
<1>3. \A i \in 1..crawl.newest : Succeeded(i) => Logged(i) \/ i \in skipped
  <2> SUFFICES ASSUME NEW i \in 1..crawl.newest, Succeeded(i)
               PROVE  Logged(i) \/ i \in skipped
    OBVIOUS
  <2>1. i \in 1..cursor \/ i \in (crawl.until + 1)..(crawl.next - 1)
    BY <1>1, <1>2, CrawlerTypes
  <2>2. QED
    BY <1>2, <2>1 DEF CrawlerInv, NothingDroppedUpToCursor
<1>4. NothingDroppedUpToCursor'
  BY <1>1, <1>3 DEF NothingDroppedUpToCursor, Succeeded, Logged
<1>5. LoggedOnce' /\ LogHasNoHoles' /\ LogChronological'
  BY <1>1
  DEF CrawlerInv, LoggedOnce, LogHasNoHoles, LogChronological, Succeeded, Logged
<1>6. QED
  BY <1>1, <1>4, <1>5, CrawlerIdles DEF CrawlerInv

\* The transaction `next` is dealt with, in whatever way: the loop goes on to the
\* following one and forgets nothing.
LEMMA CrawlerAdvance ==
  ASSUME TypeOK, CrawlerInv, Processing, Advance, UNCHANGED <<txs, cursor>>,
         \A j : Logged(j) => Logged(j)', skipped \subseteq skipped',
         \A j : j = crawl.next /\ Succeeded(j) => Logged(j)' \/ j \in skipped'
  PROVE  CrawlIsContiguous' /\ NothingDroppedUpToCursor'
<1>1. /\ crawl.pc = "process" /\ crawl.next <= crawl.newest
      /\ crawl.until = cursor /\ crawl.until < crawl.next /\ crawl.until < crawl.newest
      /\ \A i \in (crawl.until + 1)..(crawl.next - 1) :
           Succeeded(i) => Logged(i) \/ i \in skipped
  BY DEF Processing, CrawlerAt, CrawlerInv, CrawlIsContiguous
<1>2. /\ crawl'.pc = "process" /\ crawl'.newest = crawl.newest
      /\ crawl'.until = crawl.until /\ crawl'.next = crawl.next + 1
  <2>1. crawl \in Crawls(Len(txs))
    BY DEF TypeOK
  <2>2. QED
    BY <1>1, <2>1 DEF Advance, Crawls
<1>3. \A i : Succeeded(i)' <=> Succeeded(i)
  BY DEF Succeeded
<1>4. \A i \in (crawl.until + 1)..(crawl'.next - 1) :
        Succeeded(i) => Logged(i)' \/ i \in skipped'
  <2> SUFFICES ASSUME NEW i \in (crawl.until + 1)..(crawl'.next - 1), Succeeded(i)
               PROVE  Logged(i)' \/ i \in skipped'
    OBVIOUS
  <2>1. i = crawl.next \/ i \in (crawl.until + 1)..(crawl.next - 1)
    BY <1>2, CrawlerTypes
  <2>2. CASE i = crawl.next
    BY <2>2
  <2>3. CASE i \in (crawl.until + 1)..(crawl.next - 1)
    <3>1. Logged(i) \/ i \in skipped
      BY <1>1, <2>3
    <3>2. QED
      BY <3>1
  <2>4. QED
    BY <2>1, <2>2, <2>3
<1>5. crawl.next + 1 > crawl.until /\ crawl.next + 1 <= crawl.newest + 1
  BY <1>1, CrawlerTypes
<1>6. CrawlIsContiguous'
  BY <1>1, <1>2, <1>3, <1>4, <1>5 DEF CrawlIsContiguous
<1>7. NothingDroppedUpToCursor'
  BY <1>3 DEF CrawlerInv, NothingDroppedUpToCursor
<1>8. QED
  BY <1>6, <1>7

\* A failed transaction is passed over.
LEMMA CrawlerPassOver ==
  ASSUME TypeOK, CrawlerInv, PassOver
  PROVE  CrawlerInv'
<1>1. /\ Processing /\ Advance /\ UNCHANGED <<txs, log, cursor, skipped>>
      /\ txs[crawl.next].kind = "failed"
  BY DEF PassOver, AfterCrawlerStep, chainVars, Current
<1>2. /\ ~Succeeded(crawl.next) /\ \A j : Logged(j)' <=> Logged(j)
      /\ \A j : Succeeded(j)' <=> Succeeded(j)
  BY <1>1 DEF Succeeded, Logged
<1>3. CrawlIsContiguous' /\ NothingDroppedUpToCursor'
  BY <1>1, <1>2, CrawlerAdvance
<1>4. LoggedOnce' /\ LogHasNoHoles' /\ LogChronological'
  BY <1>1, <1>2 DEF CrawlerInv, LoggedOnce, LogHasNoHoles, LogChronological
<1>5. QED
  BY <1>3, <1>4 DEF CrawlerInv

\* What has been logged is at least what came before the transaction being processed,
\* so logging it keeps the log in the order of the history and without a hole.
LEMMA CrawlerProcess ==
  ASSUME TypeOK, CrawlerInv, ProcessTransaction
  PROVE  CrawlerInv'
<1> DEFINE i == crawl.next
<1>1. /\ Processing /\ Advance /\ UNCHANGED <<txs, cursor, skipped>> /\ Succeeded(i)
      /\ index_instruction(i)
  BY DEF ProcessTransaction, AfterCrawlerStep, chainVars, Current, Succeeded
<1>2. log \in Seq(Nat) /\ i \in Nat
  BY CrawlerTypes
<1>3. /\ \A j : Logged(j)' <=> Logged(j) \/ j = i
      /\ LoggedOnce => LoggedOnce'
      /\ log' = log \/ (~Logged(i) /\ Len(log') = Len(log) + 1 /\ log'[Len(log) + 1] = i)
      /\ Len(log) \in Nat /\ DOMAIN log = 1..Len(log) /\ DOMAIN log' = 1..Len(log')
      /\ \A k \in DOMAIN log : k \in DOMAIN log' /\ log'[k] = log[k]
  BY <1>1, <1>2, IndexInstruction
<1>4. CrawlIsContiguous' /\ NothingDroppedUpToCursor'
  <2>1. \A j : Logged(j) => Logged(j)'
    BY <1>3
  <2>2. skipped \subseteq skipped' /\ \A j : j = crawl.next => Logged(j)'
    BY <1>1, <1>3
  <2>3. QED
    BY <1>1, <2>1, <2>2, CrawlerAdvance
<1>5. \A j : Succeeded(j)' <=> Succeeded(j)
  BY <1>1 DEF Succeeded
<1>6. ASSUME skipped = {}, NEW j \in 1..(i - 1), Succeeded(j) PROVE Logged(j)
  <2>1. crawl.pc = "process"
    BY <1>1 DEF Processing, CrawlerAt
  <2>2. crawl.until = cursor
    BY <2>1 DEF CrawlerInv, CrawlIsContiguous
  <2>3. j \in 1..cursor \/ j \in (crawl.until + 1)..(crawl.next - 1)
    BY <2>2, CrawlerTypes
  <2>4. QED
    BY <1>6, <2>1, <2>3 DEF CrawlerInv, CrawlIsContiguous, NothingDroppedUpToCursor
\* The log as it was, and what may have been appended.
<1>b. /\ \A k \in DOMAIN log' :
           \/ k \in DOMAIN log /\ log'[k] = log[k]
           \/ k = Len(log) + 1 /\ log'[k] = i /\ ~Logged(i)
      /\ \A k, l \in DOMAIN log' : k < l /\ l \in DOMAIN log => k \in DOMAIN log
      /\ \A k \in DOMAIN log' : k < Len(log) + 1 => k \in DOMAIN log
  <2>1. CASE log' = log
    BY <1>3, <2>1
  <2>2. CASE log' # log
    <3>1. /\ ~Logged(i) /\ DOMAIN log' = 1..(Len(log) + 1) /\ log'[Len(log) + 1] = i
          /\ DOMAIN log = 1..Len(log) /\ Len(log) \in Nat
          /\ \A k \in DOMAIN log : log'[k] = log[k]
      BY <1>3, <2>2
    <3>2. QED
      BY <3>1
  <2>3. QED
    BY <2>1, <2>2
<1>7. LogHasNoHoles'
  <2> SUFFICES ASSUME skipped = {}, NEW k \in DOMAIN log', NEW j \in 1..log'[k], Succeeded(j)
               PROVE  Logged(j)'
    BY <1>1, <1>5 DEF LogHasNoHoles
  <2>1. CASE k \in DOMAIN log
    <3>1. j \in 1..log[k]
      BY <1>3, <2>1
    <3>2. QED
      BY <1>3, <2>1, <3>1 DEF CrawlerInv, LogHasNoHoles
  <2>2. CASE k \notin DOMAIN log
    <3>1. log'[k] = i
      BY <1>b, <2>2
    <3>2. j = i \/ j \in 1..(i - 1)
      BY <1>2, <3>1
    <3>3. QED
      BY <1>3, <1>6, <3>2
  <2>3. QED
    BY <2>1, <2>2
<1>8. LogChronological'
  <2> SUFFICES ASSUME skipped = {}, NEW k \in DOMAIN log', NEW l \in DOMAIN log', k < l
               PROVE  log'[k] < log'[l]
    BY <1>1 DEF LogChronological
  <2>1. CASE l \in DOMAIN log
    <3>1. k \in DOMAIN log /\ log[k] < log[l]
      BY <1>b, <2>1 DEF CrawlerInv, LogChronological
    <3>2. QED
      BY <1>3, <2>1, <3>1
  <2>2. CASE l \notin DOMAIN log
    <3>1. k \in DOMAIN log /\ log'[l] = i /\ ~Logged(i)
      <4>1. l = Len(log) + 1 /\ log'[l] = i /\ ~Logged(i)
        BY <1>b, <2>2
      <4>2. QED
        BY <1>b, <4>1
    <3>2. log[k] \in Nat /\ log[k] # i
      BY <1>2, <3>1, CrawlerTypes DEF Logged
    <3>3. ASSUME log[k] > i PROVE FALSE
      <4>1. i \in 1..log[k]
        <5>1. i > 0
          BY <1>1, CrawlerTypes DEF Processing, CrawlerAt, CrawlerInv, CrawlIsContiguous
        <5>2. QED
          BY <1>2, <3>2, <3>3, <5>1
      <4>2. Logged(i)
        BY <1>1, <3>1, <4>1 DEF CrawlerInv, LogHasNoHoles
      <4>3. QED
        BY <3>1, <4>2
    <3>4. log[k] < i
      BY <1>2, <3>2, <3>3
    <3>5. QED
      BY <1>3, <3>1, <3>4
  <2>3. QED
    BY <2>1, <2>2
<1>9. QED
  BY <1>3, <1>4, <1>7, <1>8 DEF CrawlerInv

\* A transaction whose processing failed is at least known to have been skipped.
LEMMA CrawlerProcessFails ==
  ASSUME TypeOK, CrawlerInv, ProcessTransactionFails
  PROVE  CrawlerInv'
<1> DEFINE i == crawl.next
<1>1. /\ Processing /\ Advance /\ UNCHANGED <<txs, cursor>>
      /\ skipped' = skipped \cup {i} /\ (log' = log \/ index_instruction(i))
  BY DEF ProcessTransactionFails, AfterCrawlerStep, chainVars, Current
<1>2. (\A j : Logged(j) => Logged(j)') /\ LoggedOnce'
  <2>1. CASE log' = log
    BY <2>1 DEF Logged, CrawlerInv, LoggedOnce
  <2>2. CASE index_instruction(i)
    <3>1. log \in Seq(Nat) /\ i \in Nat
      BY CrawlerTypes
    <3>2. QED
      BY <2>2, <3>1, IndexInstruction DEF CrawlerInv
  <2>3. QED
    BY <1>1, <2>1, <2>2
<1>3. CrawlIsContiguous' /\ NothingDroppedUpToCursor'
  BY <1>1, <1>2, CrawlerAdvance
<1>4. skipped' # {}
  BY <1>1
<1>5. LogHasNoHoles' /\ LogChronological'
  BY <1>4 DEF LogHasNoHoles, LogChronological
<1>6. QED
  BY <1>2, <1>3, <1>5 DEF CrawlerInv

LEMMA CrawlerStep == TypeOK /\ CrawlerInv /\ [Next]_vars => CrawlerInv'
<1> SUFFICES ASSUME TypeOK, CrawlerInv, [Next]_vars PROVE CrawlerInv'
  OBVIOUS
<1>a. ASSUME UNCHANGED <<txs, log, cursor, skipped>>, CrawlIsContiguous' PROVE CrawlerInv'
  BY <1>a, CrawlerStutter
<1>1. ASSUME NEW a \in Accounts, NEW kind \in Kinds, Submit(a, kind) PROVE CrawlerInv'
  BY <1>1, CrawlerSubmit
<1>2. CASE Finalize
  BY <1>2, CrawlerUnmoved DEF Finalize
<1>3. CASE GetSlot
  BY <1>3, CrawlerUnmoved DEF GetSlot, chainVars
<1>4. ASSUME NEW F \in SUBSET Accounts, Snapshot(F) PROVE CrawlerInv'
  BY <1>4, CrawlerUnmoved DEF Snapshot, chainVars
<1>5. CASE Subscribe
  BY <1>5, CrawlerUnmoved DEF Subscribe, chainVars
<1>6. ASSUME NEW i \in feed, ProcessUpdate(i) PROVE CrawlerInv'
  BY <1>6, CrawlerUnmoved DEF ProcessUpdate, chainVars
<1>7. ASSUME NEW i \in feed, UpdateFails(i) PROVE CrawlerInv'
  BY <1>7, CrawlerUnmoved DEF UpdateFails, chainVars
<1>8. CASE Crash
  BY <1>8, <1>a, CrawlerIdles DEF Crash, chainVars
<1>9. CASE LoadCursor
  <2>1. crawl' = [CrawlerIdle EXCEPT !.pc = "fetch", !.until = cursor]
        /\ UNCHANGED <<txs, log, cursor, skipped>>
    BY <1>9 DEF LoadCursor, AfterCrawlerStep, chainVars
  <2>2. /\ crawl'.pc = "fetch" /\ crawl'.until = cursor'
        /\ crawl'.before = 0 /\ crawl'.newest = 0
    BY <2>1 DEF CrawlerIdle
  <2>3. CrawlIsContiguous'
    BY <2>2 DEF CrawlIsContiguous
  <2>4. QED
    BY <1>a, <2>1, <2>3
<1>10. CASE FetchPage
  BY <1>10, <1>a, CrawlerFetchPage DEF FetchPage, AfterCrawlerStep, chainVars
<1>11. CASE TickFails
  BY <1>11, <1>a, CrawlerIdles DEF TickFails, AfterCrawlerStep, chainVars
<1>12. CASE PassOver
  BY <1>12, CrawlerPassOver
<1>13. CASE ProcessTransaction
  BY <1>13, CrawlerProcess
<1>14. CASE ProcessTransactionFails
  BY <1>14, CrawlerProcessFails
<1>15. CASE SaveCursor
  BY <1>15, CrawlerSaveCursor
<1>16. CASE UNCHANGED vars
  BY <1>16, CrawlerUnmoved DEF vars, chainVars
<1>17. QED
  BY <1>1, <1>2, <1>3, <1>4, <1>5, <1>6, <1>7, <1>8, <1>9, <1>10, <1>11, <1>12, <1>13,
     <1>14, <1>15, <1>16 DEF Next, Startup, Crawler, Faults

-----------------------------------------------------------------------------
(***************************************************************************)
(* The theorems.                                                           *)
(***************************************************************************)
\* The invariant is inductive.
LEMMA IInvHolds == Spec => []IInv
<1>1. Init => IInv
  BY TypeInit, MirrorInit, CrawlerInit DEF IInv
<1>2. IInv /\ [Next]_vars => IInv'
  BY TypeStep, MirrorStep, CrawlerStep DEF IInv, CrawlerInv
<1>3. QED
  BY <1>1, <1>2, PTL DEF Spec

\* Every variable keeps its type (the state of ChainMirror).
THEOREM MirrorTypeCorrect == Spec => []TypeOK
<1>1. IInv => TypeOK
  BY DEF IInv
<1>2. QED
  BY <1>1, IInvHolds, PTL

\* No transaction is logged twice, whatever is fetched again after a crash or a
\* failed tick (instruction.rs:25-27).
THEOREM NeverLoggedTwice == Spec => []LoggedOnce
<1>1. IInv => LoggedOnce
  BY DEF IInv, CrawlerInv
<1>2. QED
  BY <1>1, IInvHolds, PTL

\* For every page size and any burst of transactions, the crawler's cursor passes over
\* no successful transaction that is not logged, but for those whose own processing
\* failed (crawler.rs:94-99).
THEOREM CrawlerDropsNothing == Spec => []NothingDroppedUpToCursor
<1>1. IInv => NothingDroppedUpToCursor
  BY DEF IInv, CrawlerInv
<1>2. QED
  BY <1>1, IInvHolds, PTL

\* The log fills in chronological order as long as no transaction's processing failed
\* (crawler.rs:194-195).
THEOREM LogInOrder == Spec => []LogChronological
<1>1. IInv => LogChronological
  BY DEF IInv, CrawlerInv
<1>2. QED
  BY <1>1, IInvHolds, PTL

\* No transaction up to the slot a row carries wrote the account after the state the
\* row holds (backfill.rs:22-24).
THEOREM RowsFresh == Spec => []RowAsFreshAsItsSlot
<1>1. IInv => RowAsFreshAsItsSlot
  BY DEF IInv, MirrorInv
<1>2. QED
  BY <1>1, IInvHolds, PTL

\* However updates, snapshots, failures and restarts interleave, a row shows the latest
\* state of its account once that has been delivered (account.rs:76-84).
THEOREM LatestStateWins == Spec => []LatestDeliveredStateWins
<1>1. IInv => LatestDeliveredStateWins
  BY DEF IInv, MirrorInv, Delivered, LatestDeliveredStateWins
<1>2. QED
  BY <1>1, IInvHolds, PTL

\* No step replaces a row by an older state of its account (account.rs:76-84).
THEOREM NoRowGoesBack == Spec => RowsNeverGoBack
<1> DEFINE Forward == \A a \in Accounts : rows'[a] # NoRow => rows'[a].data >= rows[a].data
<1>1. IInv /\ [Next]_vars => [Forward]_vars
  <2> SUFFICES ASSUME IInv, Next PROVE Forward
    OBVIOUS
  <2>0. /\ TypeOK /\ MirrorInv
        /\ \A a \in Accounts : rows[a].data \in 0..finalized /\ final[a] \in 0..finalized
    BY MirrorTypes DEF IInv
  <2>1. ASSUME UNCHANGED rows PROVE Forward
    BY <2>0, <2>1
  <2>2. ASSUME NEW a, delete_account(a) PROVE Forward
    <3>1. \A b \in Accounts : rows'[b] = NoRow \/ rows'[b] = rows[b]
      BY <2>0, <2>2 DEF delete_account, TypeOK
    <3>2. QED
      BY <2>0, <3>1
  <2>3. ASSUME NEW F \in SUBSET Accounts, Snapshot(F) PROVE Forward
    <3> SUFFICES ASSUME NEW a \in Accounts, rows'[a] # NoRow
                 PROVE  rows'[a].data >= rows[a].data
      OBVIOUS
    <3>1. CASE rows'[a] = rows[a]
      BY <2>0, <3>1
    <3>2. CASE final[a] # 0 /\ rows'[a] = [slot |-> stamp, data |-> final[a]]
      <4>1. rows[a].data # 0 => rows[a].data <= final[a]
        BY <2>0, <3>2, MirrorTypes DEF MirrorInv, RowsHoldWrites, FinalIsLastWrite
      <4>2. QED
        BY <2>0, <3>2, <4>1
    <3>3. QED
      BY <2>0, <2>3, <3>1, <3>2, SnapshotRow
  <2>4. ASSUME NEW i \in feed, ProcessUpdate(i) PROVE Forward
    <3> SUFFICES ASSUME NEW b \in Accounts PROVE rows'[b].data >= rows[b].data
      OBVIOUS
    <3>1. \/ rows'[b] = rows[b]
          \/ rows'[b] = [slot |-> i, data |-> i] /\ rows[b].data <= i
      BY <2>0, <2>4, UpdateRow
    <3>2. QED
      BY <2>0, <3>1
  <2>5. CASE Crawler
    BY <2>1, <2>2, <2>5
    DEF Crawler, LoadCursor, FetchPage, PassOver, ProcessTransaction, SaveCursor
  <2>6. CASE Faults
    BY <2>1, <2>2, <2>6 DEF Faults, TickFails, ProcessTransactionFails, UpdateFails, Crash
  <2>7. CASE Startup
    BY <2>1, <2>3, <2>7 DEF Startup, GetSlot, Subscribe
  <2>8. QED
    BY <2>1, <2>4, <2>5, <2>6, <2>7 DEF Next, Submit, Finalize
<1>2. QED
  BY <1>1, IInvHolds, PTL DEF Spec, RowsNeverGoBack

\* However fetches, updates, failures and restarts interleave, nothing is logged twice
\* or out of order, and no row claims to be newer than it is or misses the latest state
\* it was sent.
THEOREM MirrorSound == Spec => []Inv
<1>1. /\ TypeOK /\ LoggedOnce /\ LogChronological
      /\ RowAsFreshAsItsSlot /\ LatestDeliveredStateWins
      => Inv
  BY DEF Inv
<1>2. QED
  BY <1>1, MirrorTypeCorrect, NeverLoggedTwice, LogInOrder, RowsFresh, LatestStateWins, PTL

-----------------------------------------------------------------------------
(***************************************************************************)
(* The browse page, and the form over it.                                  *)
(***************************************************************************)
Values == Words \cup {Blank}
Timers == [key : Boxes, url : Urls]
Answers == [url : Urls, page : Nat, version : Nat]
Fetches == [first : BOOLEAN, answer : Answers \cup {None}]
FewTags(tags) == IsInjective(tags) /\ Len(tags) <= MAX_TAGS
Forms ==
  [url : Sites \cup {Blank}, og : Sites \cup {None}, asked : Sites \cup {None},
   tags : Seq(Tags), leaving : SUBSET Tags, busy : BOOLEAN]
Steps == {"build", "prompt", "poll"}
Creations == {a \in App : FewTags(a.tags)}

\* Where the visitor is, was, and what is in the boxes.
PlacesSound ==
  /\ location \in Urls \cup {AppPage} /\ past \in Seq(Urls \cup {AppPage})
  /\ boxes \in [Boxes -> Values]
  /\ timers \in Seq(Timers)
  /\ aside \subseteq {"back", "clear"}
  /\ catalogue \in Nat

\* The URL bs will be in once the timers ts have run: that of the last one.
BoxesLag(loc, bs, ts, as) ==
  loc # AppPage /\ "back" \notin as =>
    LET last == IF ts = <<>> THEN loc.boxes ELSE Last(ts).url.boxes
    IN  last["q"] = bs["q"] /\ ("clear" \notin as => last = bs)

BoxesFollow == BoxesLag(location, boxes, timers, aside)

\* The results pages, at the URL loc: every answer under way that counts is for loc.
ListIs(loc, fs, m, pages, strad, fail) ==
  /\ fs \subseteq Fetches /\ m \in Answers \cup {None} /\ pages \in Seq(Answers)
  /\ {strad, fail} \subseteq BOOLEAN
  /\ loc = AppPage => fs = {} /\ m = None /\ pages = <<>>
  /\ loc # AppPage =>
       /\ pages # <<>>
       /\ \A f \in fs : f.answer # None => f.answer.url = loc /\ f.answer.page = 1
       /\ (\E f \in fs : f.first) \/ fail \/ pages[1].url = loc
  /\ Len(pages) <= Pages + 1
  /\ m # None => Len(pages) <= Pages
  /\ ~strad => /\ \A i \in DOMAIN pages : pages[i].page = i /\ pages[i].url = pages[1].url
               /\ m # None => m.page = Len(pages) + 1 /\ m.url = pages[1].url

ListSound == ListIs(location, fetches, more, apps, straddled, failed)

FormIs(f) ==
  /\ f \in Forms
  /\ FewTags(f.tags) /\ f.leaving \subseteq ToSet(f.tags)
  /\ f.asked # None => f.asked = f.url
  /\ f.asked = None => f.og \in {None, f.url}

FormSound == form = None \/ FormIs(form)

\* A submission has what it will send until it is sent.
JobIs(j) ==
  /\ j.attempts \in 0..(Attempts - 1)
  /\ \/ j.step \in {"build", "prompt"} /\ j \in [step : Steps, attempts : Nat, here : BOOLEAN, app : Creations]
     \/ j.step = "poll" /\ j \in [step : Steps, attempts : Nat, here : BOOLEAN, app : Nat]

JobSound == job = None \/ JobIs(job)

ChainSound == chain \in Seq(Creations) /\ indexed \in Nat /\ indexed <= Len(chain)

PageSound == PlacesSound /\ BoxesFollow /\ ListSound /\ FormSound
BrowseSound == PageSound /\ JobSound /\ ChainSound

-----------------------------------------------------------------------------
(***************************************************************************)
(* The results.                                                            *)
(***************************************************************************)
LEMMA PageOne ==
  ASSUME catalogue \in Nat, NEW url \in Urls
  PROVE  /\ \A n \in Nat : /\ searchApps(url, n) \in Answers
                           /\ searchApps(url, n).url = url /\ searchApps(url, n).page = n
         /\ fetchPage1(url, TRUE) \in Fetches /\ fetchPage1(url, FALSE) \in Fetches
         /\ fetchPage1(url, TRUE).answer = searchApps(url, 1)
         /\ fetchPage1(url, FALSE).answer = searchApps(url, 1)
         /\ fetchPage1(url, TRUE).first
<1>1. \A n \in Nat : /\ searchApps(url, n) \in Answers
                     /\ searchApps(url, n).url = url /\ searchApps(url, n).page = n
  BY DEF searchApps, Answers
<1>2. searchApps(url, 1) \in Answers
  BY <1>1
<1>3. QED
  BY <1>1, <1>2 DEF fetchPage1, Fetches

\* A new URL: what is shown stays until its answer comes.
LEMMA ListRefetched ==
  ASSUME catalogue \in Nat, NEW url \in Urls,
         NEW loc, NEW fs, NEW m, NEW pages, NEW strad, NEW fail,
         ListIs(loc, fs, m, pages, strad, fail), loc # AppPage
  PROVE  ListIs(url, {fetchPage1(url, TRUE)}, m, pages, strad, FALSE)
<1> DEFINE f == fetchPage1(url, TRUE)
<1>1. f \in Fetches /\ f.answer.url = url /\ f.answer.page = 1 /\ f.first
  <2>1. /\ searchApps(url, 1) \in Answers
        /\ searchApps(url, 1).url = url /\ searchApps(url, 1).page = 1
    BY PageOne
  <2>2. f \in Fetches /\ f.answer = searchApps(url, 1) /\ f.first
    BY PageOne
  <2>3. QED
    BY <2>1, <2>2
<1>2. url # AppPage
  BY Others
<1> HIDE DEF f
<1>3. \E g \in {f} : g.first
  BY <1>1
<1>4. QED
  BY <1>1, <1>2, <1>3 DEF ListIs, f

LEMMA RefetchSound ==
  ASSUME catalogue \in Nat, NEW url \in Urls, Refetch(url), location' = url, location # AppPage,
         ListIs(location, fetches, more, apps, straddled, failed)
  PROVE  ListSound'
<1>1. fetches' = {fetchPage1(url, TRUE)} /\ failed' = FALSE /\ UNCHANGED <<more, apps, straddled>>
  BY DEF Refetch, Cancelled
<1>2. ListIs(url, {fetchPage1(url, TRUE)}, more, apps, straddled, FALSE)
  BY ListRefetched
<1>3. QED
  BY <1>1, <1>2 DEF ListSound

LEMMA ListMounted ==
  ASSUME catalogue \in Nat, NEW url \in Urls
  PROVE  ListIs(url, {fetchPage1(url, TRUE)}, None, <<searchApps(url, 1)>>, FALSE, FALSE)
<1> DEFINE f == fetchPage1(url, TRUE)
           a == searchApps(url, 1)
<1>1. /\ f \in Fetches /\ f.answer.url = url /\ f.answer.page = 1 /\ f.first
      /\ a \in Answers /\ a.url = url /\ a.page = 1
  <2>1. /\ searchApps(url, 1) \in Answers
        /\ searchApps(url, 1).url = url /\ searchApps(url, 1).page = 1
    BY PageOne
  <2>2. f \in Fetches /\ f.answer = searchApps(url, 1) /\ f.first
    BY PageOne
  <2>3. QED
    BY <2>1, <2>2
<1>2. url # AppPage /\ Pages \in Nat \ {0}
  BY Others, Bounds
<1> HIDE DEF f, a
<1> DEFINE one == <<a>>
<1>3. one \in Seq(Answers) /\ Len(one) = 1 /\ DOMAIN one = {1} /\ one[1] = a /\ one # <<>>
  BY <1>1
<1>4. 1 <= Pages + 1
  BY <1>2
<1> HIDE DEF one
<1>5. {f} \subseteq Fetches /\ \E g \in {f} : g.first
  BY <1>1
<1>6. ListIs(url, {f}, None, one, FALSE, FALSE)
  BY <1>1, <1>2, <1>3, <1>4, <1>5 DEF ListIs
<1>7. QED
  BY <1>6 DEF f, a, one

LEMMA ListGone == ListIs(AppPage, {}, None, <<>>, FALSE, FALSE)
  BY Bounds DEF ListIs

-----------------------------------------------------------------------------
(***************************************************************************)
(* The URL and the boxes.                                                  *)
(***************************************************************************)
LEMMA Shown ==
  ASSUME PageSound, NEW url \in Urls \cup {AppPage}, Show(url),
         timers' \in Seq(Timers), UNCHANGED catalogue,
         away \/ BoxesLag(url, boxes, timers', aside)
  PROVE  /\ location' = url /\ boxes' \in [Boxes -> Values] /\ aside' \subseteq {"back", "clear"}
         /\ BoxesFollow' /\ ListSound' /\ FormSound'
<1>0. location' = url
  BY DEF Show
<1>1. /\ boxes \in [Boxes -> Values] /\ aside \subseteq {"back", "clear"} /\ catalogue \in Nat
      /\ ListIs(location, fetches, more, apps, straddled, failed) /\ FormSound
      /\ BoxesLag(location, boxes, timers, aside)
  BY DEF PageSound, PlacesSound, ListSound, BoxesFollow
<1>2. CASE url = location
  <2>1. UNCHANGED <<boxes, form, list, aside>>
    BY <1>2 DEF Show
  <2>2. BoxesLag(url, boxes, timers', aside)
    BY <1>2 DEF away, BoxesLag
  <2>3. QED
    BY <1>0, <1>1, <1>2, <2>1, <2>2 DEF BoxesFollow, ListSound, FormSound, FormIs, list
<1>3. CASE url # location /\ url = AppPage
  <2>1. Unmount
    BY <1>3 DEF Show
  <2>2. boxes' \in [Boxes -> Values] /\ aside' = {} /\ form' = None
    BY <2>1 DEF Unmount, Values
  <2>3. ListSound'
    BY <1>0, <1>3, <2>1, ListGone DEF Unmount, NoResults, ListSound
  <2>4. BoxesFollow'
    BY <1>0, <1>3 DEF BoxesFollow, BoxesLag
  <2>5. QED
    BY <1>0, <2>2, <2>3, <2>4 DEF FormSound
<1>4. CASE url # location /\ url # AppPage /\ away
  <2>1. Mount(url) /\ url \in Urls
    BY <1>4 DEF Show
  <2>2. boxes' = url.boxes /\ form' = None /\ aside' = IF timers' = <<>> THEN {} ELSE {"back"}
    BY <2>1 DEF Mount
  <2>3. url.boxes \in [Boxes -> Values]
    BY <2>1 DEF Urls, Values
  <2>4. ListSound'
    BY <1>0, <1>1, <2>1, ListMounted DEF Mount, ListSound
  <2>5. BoxesFollow'
    BY <1>0, <2>2 DEF BoxesFollow, BoxesLag
  <2>6. QED
    BY <1>0, <2>2, <2>3, <2>4, <2>5 DEF FormSound
<1>5. CASE url # location /\ url # AppPage /\ ~ away
  <2>1. Refetch(url) /\ url \in Urls /\ UNCHANGED <<boxes, form, aside>>
    BY <1>5 DEF Show
  <2>2. ListSound'
    BY <1>0, <1>1, <1>5, <2>1, RefetchSound DEF away
  <2>3. BoxesFollow'
    BY <1>0, <1>5, <2>1 DEF BoxesFollow
  <2>4. QED
    BY <1>0, <1>1, <2>1, <2>2, <2>3 DEF FormSound, FormIs
<1>6. QED
  BY <1>2, <1>3, <1>4, <1>5

LEMMA Pushed ==
  ASSUME PageSound, NEW url \in Urls \cup {AppPage}, push(url),
         timers' \in Seq(Timers), UNCHANGED catalogue,
         away \/ BoxesLag(url, boxes, timers', aside)
  PROVE  PageSound'
<1>1. Show(url)
  BY DEF push
<1>2. past' \in Seq(Urls \cup {AppPage})
  BY DEF push, PageSound, PlacesSound
<1>3. QED
  BY <1>1, <1>2, Shown DEF PageSound, PlacesSound

LEMMA TimersLeft ==
  ASSUME NEW ts \in Seq(Timers), ts # <<>>
  PROVE  /\ Head(ts) \in Timers /\ Tail(ts) \in Seq(Timers)
         /\ Last(ts) = IF Tail(ts) = <<>> THEN Head(ts) ELSE Last(Tail(ts))
<1> DEFINE u == Tail(ts)
<1>1. /\ Head(ts) \in Timers /\ u \in Seq(Timers) /\ Len(ts) \in Nat \ {0} /\ Head(ts) = ts[1]
      /\ Len(u) = Len(ts) - 1 /\ \A i \in 1..(Len(ts) - 1) : u[i] = ts[i + 1]
  OBVIOUS
<1> HIDE DEF u
<1>2. u = <<>> <=> Len(u) = 0
  BY <1>1
<1>3. CASE Len(ts) = 1
  <2>1. u = <<>> /\ Last(ts) = Head(ts)
    BY <1>1, <1>2, <1>3 DEF Last
  <2>2. QED
    BY <1>1, <2>1 DEF u
<1>4. CASE Len(ts) # 1
  <2>1. Len(u) # 0 /\ Len(u) \in 1..(Len(ts) - 1) /\ Len(u) + 1 = Len(ts)
    BY <1>1, <1>4
  <2>2. u[Len(u)] = ts[Len(ts)]
    BY <1>1, <2>1
  <2>3. QED
    BY <1>1, <1>2, <2>1, <2>2 DEF Last, u
<1>5. QED
  BY <1>3, <1>4

LEMMA Typed ==
  ASSUME NEW b \in [Boxes -> Values], NEW tags \in SUBSET Tags, NEW sort \in Sorts
  PROVE  buildParams(b, tags, sort) \in Urls /\ buildParams(b, tags, sort).boxes = b
  BY DEF buildParams, Urls, Values

\* The last URL of the timers is the one that was put off last.
LEMMA TypeSound ==
  ASSUME PageSound, NEW key \in Boxes, NEW value \in Values, Type(key, value)
  PROVE  PageSound'
<1> DEFINE b == [boxes EXCEPT ![key] = value]
           url == buildParams(b, location.tags, location.sort)
           K == {i \in DOMAIN timers : timers[i].key # key}
           ts == Keep(timers, K)
           timer == [key |-> key, url |-> url]
<1>1. /\ boxes \in [Boxes -> Values] /\ location \in Urls /\ timers \in Seq(Timers)
      /\ ~ away
  BY DEF PageSound, PlacesSound, Type, away
<1>2. b \in [Boxes -> Values]
  BY <1>1
<1>3. location.tags \in SUBSET Tags /\ location.sort \in Sorts
  BY <1>1 DEF Urls
<1>4. boxes' = b /\ UNCHANGED <<location, past, list, form, catalogue, aside>>
  BY DEF Type, creation
<1>5. timers' = Append(ts, timer)
  BY <1>4 DEF Type, debounce
<1> HIDE DEF b
<1>6. url \in Urls /\ url.boxes = b
  BY <1>2, <1>3, Typed
<1> HIDE DEF url
<1>7. ts \in Seq(Timers)
  <2>1. K \subseteq DOMAIN timers
    OBVIOUS
  <2> HIDE DEF K
  <2>2. QED
    BY <1>1, <2>1, KeepIsList
<1>8. timer \in Timers /\ timer.url = url
  BY <1>6 DEF Timers
<1> HIDE DEF ts, timer
<1>9. /\ timers' \in Seq(Timers) /\ timers' # <<>> /\ Last(timers') = timer
  BY <1>5, <1>7, <1>8 DEF Last
<1>10. BoxesLag(location, b, timers', aside)
  BY <1>6, <1>8, <1>9 DEF BoxesLag
<1>11. PlacesSound' /\ BoxesFollow'
  BY <1>2, <1>4, <1>9, <1>10 DEF PageSound, PlacesSound, BoxesFollow
<1>12. QED
  BY <1>4, <1>11 DEF PageSound, ListSound, FormSound, FormIs, list

LEMMA FireSound ==
  ASSUME PageSound, Fire
  PROVE  PageSound'
<1> DEFINE url == Head(timers).url
<1>1. timers \in Seq(Timers) /\ timers # <<>> /\ timers' = Tail(timers) /\ push(url)
      /\ UNCHANGED catalogue
  BY DEF PageSound, PlacesSound, Fire
<1>2. /\ Head(timers) \in Timers /\ Tail(timers) \in Seq(Timers)
      /\ Last(timers) = IF Tail(timers) = <<>> THEN Head(timers) ELSE Last(Tail(timers))
  BY <1>1, TimersLeft
<1>3. url \in Urls
  BY <1>2 DEF Timers
<1>4. away \/ BoxesLag(url, boxes, timers', aside)
  BY <1>1, <1>2 DEF PageSound, BoxesFollow, BoxesLag, away
<1> HIDE DEF url
<1>5. QED
  BY <1>1, <1>2, <1>3, <1>4, Pushed

\* A click pushes what is in the boxes, and so do the timers after it.
LEMMA PushesSound ==
  ASSUME PageSound, NEW tags \in SUBSET Tags, NEW sort \in Sorts, Pushes(tags, sort)
  PROVE  PageSound'
<1> DEFINE url == buildParams(boxes, tags, sort)
<1>1. /\ boxes \in [Boxes -> Values] /\ timers \in Seq(Timers) /\ ~ away
      /\ push(url) /\ UNCHANGED <<timers, catalogue>>
  BY DEF PageSound, PlacesSound, Pushes
<1>2. url \in Urls /\ url.boxes = boxes
  BY <1>1, Typed
<1> HIDE DEF url
<1>3. BoxesLag(url, boxes, timers', aside)
  BY <1>1, <1>2 DEF PageSound, BoxesFollow, BoxesLag, away
<1>4. QED
  BY <1>1, <1>2, <1>3, Pushed

LEMMA VisitAppSound ==
  ASSUME PageSound, VisitApp
  PROVE  PageSound'
<1>1. timers \in Seq(Timers) /\ push(AppPage) /\ UNCHANGED <<timers, catalogue>>
  BY DEF PageSound, PlacesSound, VisitApp
<1>2. BoxesLag(AppPage, boxes, timers', aside)
  BY DEF BoxesLag
<1>3. QED
  BY <1>1, <1>2, Pushed

\* Clear empties boxes whose timers may still run; never the query.
LEMMA ClearSound ==
  ASSUME PageSound, clearFilters
  PROVE  PageSound'
<1> DEFINE b == [x \in Boxes |-> IF x \in Filters THEN Blank ELSE boxes[x]]
           url == buildParams(b, {}, location.sort)
           as == IF timers = <<>> THEN aside ELSE aside \cup {"clear"}
<1>1. /\ boxes \in [Boxes -> Values] /\ location \in Urls /\ location # AppPage
      /\ aside \subseteq {"back", "clear"} /\ catalogue \in Nat
      /\ past \in Seq(Urls \cup {AppPage}) /\ timers \in Seq(Timers)
      /\ ListIs(location, fetches, more, apps, straddled, failed)
      /\ BoxesLag(location, boxes, timers, aside)
  BY DEF PageSound, PlacesSound, ListSound, BoxesFollow, clearFilters, away
<1>2. b \in [Boxes -> Values] /\ b["q"] = boxes["q"]
  BY <1>1, Starts DEF Boxes, Values
<1>3. /\ boxes' = b /\ location' = url /\ aside' = as
      /\ IF url = location THEN UNCHANGED <<past, list>>
         ELSE past' = Append(past, location) /\ Refetch(url)
      /\ UNCHANGED <<timers, form, catalogue>>
  BY DEF clearFilters, creation
<1> HIDE DEF b
<1>4. url \in Urls /\ url.boxes = b
  <2>1. location.sort \in Sorts
    BY <1>1 DEF Urls
  <2>2. QED
    BY <1>2, <2>1, Typed
<1> HIDE DEF url
<1>5. ListSound'
  <2>1. CASE url = location
    BY <1>1, <1>3, <2>1 DEF ListSound, list
  <2>2. CASE url # location
    BY <1>1, <1>3, <1>4, <2>2, RefetchSound
  <2>3. QED
    BY <2>1, <2>2
<1>6. BoxesLag(url, b, timers, as)
  BY <1>1, <1>2, <1>4 DEF BoxesLag
<1>7. as \subseteq {"back", "clear"}
  BY <1>1
<1>8. past' \in Seq(Urls \cup {AppPage})
  <2> DEFINE Places == Urls \cup {AppPage}
  <2>1. past \in Seq(Places) /\ location \in Places
    BY <1>1
  <2> HIDE DEF Places
  <2>2. Append(past, location) \in Seq(Places)
    BY <2>1, AppendProperties
  <2>3. past' = past \/ past' = Append(past, location)
    BY <1>3
  <2>4. past' \in Seq(Places)
    BY <2>1, <2>2, <2>3
  <2>5. QED
    BY <2>4 DEF Places
<1> HIDE DEF as
<1>9. QED
  BY <1>1, <1>2, <1>3, <1>4, <1>5, <1>6, <1>7, <1>8
     DEF PageSound, PlacesSound, BoxesFollow, FormSound, FormIs

\* After Back the boxes are no longer those of the URL, and say so.
LEMMA BackSound ==
  ASSUME PageSound, Back
  PROVE  PageSound'
<1> DEFINE url == Last(past)
<1>1. /\ boxes \in [Boxes -> Values] /\ location \in Urls \cup {AppPage}
      /\ aside \subseteq {"back", "clear"} /\ catalogue \in Nat
      /\ past \in Seq(Urls \cup {AppPage}) /\ timers \in Seq(Timers)
      /\ ListIs(location, fetches, more, apps, straddled, failed) /\ FormSound
  BY DEF PageSound, PlacesSound, ListSound
<1>2. /\ past # <<>> /\ past' = Front(past) /\ location' = url /\ UNCHANGED <<timers, catalogue>>
      /\ IF url = AppPage THEN Unmount
         ELSE IF away THEN Mount(url)
         ELSE Refetch(url) /\ aside' = aside \cup {"back"} /\ UNCHANGED <<boxes, form>>
  BY DEF Back
<1>3. url \in Urls \cup {AppPage} /\ past' \in Seq(Urls \cup {AppPage})
  BY <1>1, <1>2 DEF Last, Front
<1> HIDE DEF url
<1>4. /\ boxes' \in [Boxes -> Values] /\ aside' \subseteq {"back", "clear"}
      /\ BoxesFollow' /\ ListSound' /\ FormSound'
  <2>1. CASE url = AppPage
    <3>1. boxes' \in [Boxes -> Values] /\ aside' = {} /\ form' = None
      BY <1>2, <2>1 DEF Unmount, Values
    <3>2. ListSound'
      BY <1>2, <2>1, ListGone DEF Unmount, NoResults, ListSound
    <3>3. BoxesFollow'
      BY <1>2, <2>1 DEF BoxesFollow, BoxesLag
    <3>4. QED
      BY <3>1, <3>2, <3>3 DEF FormSound
  <2>2. CASE url # AppPage /\ away
    <3>1. boxes' = url.boxes /\ form' = None /\ aside' = IF timers' = <<>> THEN {} ELSE {"back"}
      BY <1>2, <2>2 DEF Mount
    <3>2. url \in Urls /\ url.boxes \in [Boxes -> Values]
      BY <1>3, <2>2 DEF Urls, Values
    <3>3. ListSound'
      BY <1>1, <1>2, <2>2, <3>2, ListMounted DEF Mount, ListSound
    <3>4. BoxesFollow'
      BY <1>2, <3>1 DEF BoxesFollow, BoxesLag
    <3>5. QED
      BY <3>1, <3>2, <3>3, <3>4 DEF FormSound
  <2>3. CASE url # AppPage /\ ~ away
    <3>1. Refetch(url) /\ aside' = aside \cup {"back"} /\ UNCHANGED <<boxes, form>> /\ url \in Urls
      BY <1>2, <1>3, <2>3
    <3>2. ListSound'
      BY <1>1, <1>2, <2>3, <3>1, RefetchSound DEF away
    <3>3. BoxesFollow'
      BY <3>1 DEF BoxesFollow, BoxesLag
    <3>4. QED
      BY <1>1, <3>1, <3>2, <3>3 DEF FormSound, FormIs
  <2>4. QED
    BY <2>1, <2>2, <2>3
<1>5. QED
  BY <1>1, <1>2, <1>3, <1>4 DEF PageSound, PlacesSound

-----------------------------------------------------------------------------
(***************************************************************************)
(* Answers and polls, at a URL that stays.                                 *)
(***************************************************************************)
ListMoves == UNCHANGED <<location, past, boxes, timers, form, catalogue, aside>>

LEMMA ListMovesSound ==
  ASSUME PageSound, ListMoves, ListSound'
  PROVE  PageSound'
  BY DEF PageSound, ListMoves, PlacesSound, BoxesFollow, FormSound, FormIs

LEMMA ListTypes ==
  ASSUME PageSound
  PROVE  /\ ListIs(location, fetches, more, apps, straddled, failed)
         /\ catalogue \in Nat
         /\ ~ away => location \in Urls
         /\ Pages \in Nat \ {0}
  BY Bounds DEF PageSound, ListSound, PlacesSound, away

LEMMA ReceivePage1Sound ==
  ASSUME PageSound, ReceivePage1
  PROVE  PageSound'
<1>1. ListIs(location, fetches, more, apps, straddled, failed) /\ Pages \in Nat \ {0}
  BY ListTypes
<1>2. PICK f \in fetches :
        /\ fetches' = fetches \ {f}
        /\ IF f.answer = None
           THEN failed' = (failed \/ f.first) /\ UNCHANGED <<apps, straddled>>
           ELSE apps' = <<f.answer>> /\ straddled' = (more # None) /\ failed' = FALSE
        /\ ListMoves /\ UNCHANGED more
  BY DEF ReceivePage1, ListMoves, creation
<1>3. f \in Fetches /\ location # AppPage
  BY <1>1 DEF ListIs
<1>4. f.first \in BOOLEAN /\ f.answer \in Answers \cup {None}
  BY <1>3 DEF Fetches
<1>5. ListSound'
  <2>1. CASE f.answer = None
    <3> DEFINE fail == failed \/ f.first
    <3>1. (\E g \in fetches \ {f} : g.first) \/ fail \/ apps[1].url = location
      BY <1>1, <1>3 DEF ListIs
    <3>2. fail \in BOOLEAN
      OBVIOUS
    <3> HIDE DEF fail
    <3>3. ListIs(location, fetches \ {f}, more, apps, straddled, fail)
      BY <1>1, <1>3, <3>1, <3>2 DEF ListIs
    <3>4. QED
      BY <1>2, <2>1, <3>3 DEF ListSound, ListMoves, fail
  <2>2. CASE f.answer # None
    <3> DEFINE one == <<f.answer>>
               strad == more # None
    <3>1. f.answer.url = location /\ f.answer.page = 1 /\ f.answer \in Answers
      BY <1>1, <1>3, <1>4, <2>2 DEF ListIs
    <3>2. one \in Seq(Answers) /\ Len(one) = 1 /\ DOMAIN one = {1} /\ one[1] = f.answer
          /\ one # <<>>
      BY <3>1
    <3>3. 1 <= Pages + 1 /\ 1 <= Pages
      BY <1>1
    <3>4. strad \in BOOLEAN /\ (~strad => more = None)
      OBVIOUS
    <3> HIDE DEF one, strad
    <3>5. ListIs(location, fetches \ {f}, more, one, strad, FALSE)
      BY <1>1, <1>3, <3>1, <3>2, <3>3, <3>4 DEF ListIs
    <3>6. QED
      BY <1>2, <2>2, <3>5 DEF ListSound, ListMoves, one, strad
  <2>3. QED
    BY <2>1, <2>2
<1>6. QED
  BY <1>2, <1>5, ListMovesSound

LEMMA LosePage1Sound ==
  ASSUME PageSound, LosePage1
  PROVE  PageSound'
<1>1. ListIs(location, fetches, more, apps, straddled, failed)
  BY ListTypes
<1>2. PICK f \in fetches : fetches' = (fetches \ {f}) \cup {[f EXCEPT !.answer = None]}
  BY DEF LosePage1
<1>3. ListMoves /\ UNCHANGED <<more, apps, straddled, failed>>
  BY DEF LosePage1, ListMoves, creation
<1> DEFINE g == [f EXCEPT !.answer = None]
           fs == (fetches \ {f}) \cup {g}
<1>4. f \in Fetches /\ location # AppPage
  BY <1>1 DEF ListIs
<1>5. g \in Fetches /\ g.answer = None /\ g.first = f.first
  BY <1>4 DEF Fetches
<1> HIDE DEF g
<1>6. (\E h \in fetches : h.first) => \E h \in fs : h.first
  BY <1>5
<1>7. fs \subseteq Fetches /\ \A h \in fs : h.answer # None => h \in fetches
  BY <1>1, <1>5 DEF ListIs
<1> HIDE DEF fs
<1>8. ListIs(location, fs, more, apps, straddled, failed)
  BY <1>1, <1>4, <1>6, <1>7 DEF ListIs
<1>9. ListSound'
  BY <1>2, <1>3, <1>8 DEF ListSound, ListMoves, fs, g
<1>10. QED
  BY <1>3, <1>9, ListMovesSound

LEMMA PollSound ==
  ASSUME PageSound, pollIfAtRest
  PROVE  PageSound'
<1> DEFINE f == fetchPage1(location, FALSE)
           fs == fetches \cup {f}
<1>1. ListIs(location, fetches, more, apps, straddled, failed)
  BY ListTypes
<1>2. /\ location # AppPage /\ fetches' = fs
      /\ ListMoves /\ UNCHANGED <<more, apps, straddled, failed>>
  BY DEF pollIfAtRest, ListMoves, creation, away
<1>3. f \in Fetches /\ f.answer.url = location /\ f.answer.page = 1
  <2>1. location \in Urls /\ catalogue \in Nat
    BY <1>2, ListTypes DEF away
  <2>2. /\ searchApps(location, 1).url = location /\ searchApps(location, 1).page = 1
        /\ f \in Fetches /\ f.answer = searchApps(location, 1)
    BY <2>1, PageOne
  <2>3. QED
    BY <2>2
<1> HIDE DEF f
<1>4. ListIs(location, fs, more, apps, straddled, failed)
  <2>1. (\E h \in fetches : h.first) => \E h \in fs : h.first
    OBVIOUS
  <2>2. fs \subseteq Fetches /\ \A h \in fs : h = f \/ h \in fetches
    BY <1>1, <1>3 DEF ListIs
  <2> HIDE DEF fs
  <2>3. QED
    BY <1>1, <1>2, <1>3, <2>1, <2>2 DEF ListIs
<1>5. ListSound'
  BY <1>2, <1>4 DEF ListSound, ListMoves
<1>6. QED
  BY <1>2, <1>5, ListMovesSound

\* The next page is asked for at the URL of the first, or its answer is known not to fit.
LEMMA LoadMoreSound ==
  ASSUME PageSound, loadMore
  PROVE  PageSound'
<1> DEFINE m == searchApps(location, Len(apps) + 1)
           strad == straddled \/ apps[1].url # location
<1>1. ListIs(location, fetches, more, apps, straddled, failed) /\ Pages \in Nat
  BY ListTypes
<1>2. /\ location # AppPage /\ Len(apps) < Pages /\ more' = m /\ straddled' = strad
      /\ ListMoves /\ UNCHANGED <<fetches, apps, failed>>
  BY DEF loadMore, ListMoves, creation, away, hasMore, loadedPage
<1>3. apps \in Seq(Answers) /\ Len(apps) \in Nat
  BY <1>1 DEF ListIs
<1>4. m \in Answers /\ m.url = location /\ m.page = Len(apps) + 1
  <2>1. location \in Urls /\ catalogue \in Nat /\ Len(apps) + 1 \in Nat
    BY <1>2, <1>3, ListTypes DEF away
  <2>2. QED
    BY <2>1, PageOne
<1>5. strad \in BOOLEAN /\ (~strad => ~straddled /\ apps[1].url = location)
  OBVIOUS
<1>6. Len(apps) <= Pages
  BY <1>1, <1>2, <1>3
<1> HIDE DEF m, strad
<1>7. ListIs(location, fetches, m, apps, strad, failed)
  BY <1>1, <1>2, <1>4, <1>5, <1>6 DEF ListIs
<1>8. ListSound'
  BY <1>2, <1>7 DEF ListSound, ListMoves
<1>9. QED
  BY <1>2, <1>8, ListMovesSound

LEMMA ReceiveMoreSound ==
  ASSUME PageSound, ReceiveMore
  PROVE  PageSound'
<1> DEFINE pages == Append(apps, more)
           N == Len(apps)
<1>1. ListIs(location, fetches, more, apps, straddled, failed) /\ Pages \in Nat
  BY ListTypes
<1>2. /\ more # None /\ more' = None /\ apps' \in {pages, apps}
      /\ ListMoves /\ UNCHANGED <<fetches, straddled, failed>>
  BY DEF ReceiveMore, ListMoves, creation
<1>3. apps \in Seq(Answers) /\ more \in Answers /\ location # AppPage /\ apps # <<>>
  BY <1>1, <1>2 DEF ListIs
<1>4. /\ pages \in Seq(Answers) /\ N \in Nat \ {0} /\ Len(pages) = N + 1
      /\ DOMAIN apps = 1..N /\ DOMAIN pages = 1..(N + 1) /\ pages # <<>>
      /\ pages[N + 1] = more /\ \A i \in 1..N : pages[i] = apps[i]
  BY <1>3
<1>5. N <= Pages /\ N + 1 <= Pages + 1
  <2>1. N <= Pages
    BY <1>1, <1>2 DEF ListIs
  <2>2. QED
    BY <1>1, <1>4, <2>1
<1>6. \A i \in DOMAIN pages : i \in 1..N \/ i = N + 1
  BY <1>4
<1> HIDE DEF pages
<1>7. pages[1] = apps[1]
  BY <1>4
<1>8. ~straddled => \A i \in DOMAIN pages : pages[i].page = i /\ pages[i].url = pages[1].url
  <2> SUFFICES ASSUME ~straddled, NEW i \in DOMAIN pages
               PROVE  pages[i].page = i /\ pages[i].url = pages[1].url
    OBVIOUS
  <2>1. more.page = N + 1 /\ more.url = apps[1].url
    BY <1>1, <1>2 DEF ListIs
  <2>2. \A j \in 1..N : apps[j].page = j /\ apps[j].url = apps[1].url
    BY <1>1, <1>4 DEF ListIs
  <2> HIDE DEF N
  <2>3. QED
    BY <1>4, <1>6, <1>7, <2>1, <2>2
<1>9. ListIs(location, fetches, None, pages, straddled, failed)
  BY <1>1, <1>3, <1>4, <1>5, <1>7, <1>8 DEF ListIs
<1>10. ListIs(location, fetches, None, apps, straddled, failed)
  BY <1>1, <1>3 DEF ListIs
<1>11. ListSound'
  BY <1>2, <1>9, <1>10 DEF ListSound, ListMoves
<1>12. QED
  BY <1>2, <1>11, ListMovesSound

-----------------------------------------------------------------------------
(***************************************************************************)
(* The form.                                                               *)
(***************************************************************************)
LEMMA IdleSound ==
  ASSUME PageSound, Idle, FormSound'
  PROVE  PageSound'
  BY DEF PageSound, Idle, PlacesSound, BoxesFollow, ListSound, list

LEMMA NewFormSound == FormIs(NewForm)
<1> DEFINE none == <<>>
<1>1. none \in Seq(Tags) /\ FewTags(none)
  BY Bounds DEF FewTags, IsInjective
<1> HIDE DEF none
<1>2. QED
  BY <1>1, Others DEF NewForm, FormIs, Forms, none

LEMMA EditUrlSound ==
  ASSUME FormSound, NEW url \in Sites \cup {Blank}, EditUrl(url)
  PROVE  FormSound'
<1>1. FormIs(form) /\ form # None
  BY DEF FormSound, EditUrl
<1>2. CASE url = Blank
  <2> DEFINE f == [[[form EXCEPT !.url = url] EXCEPT !.og = None] EXCEPT !.asked = None]
  <2>1. form' = f
    BY <1>2 DEF EditUrl
  <2>2. FormIs(f)
    BY <1>1 DEF FormIs, Forms
  <2>3. QED
    BY <2>1, <2>2 DEF FormSound
<1>3. CASE url # Blank
  <2> DEFINE f == [[form EXCEPT !.url = url] EXCEPT !.asked = url]
  <2>1. form' = f
    BY <1>3 DEF EditUrl
  <2>2. url # None
    BY Others
  <2>3. FormIs(f)
    BY <1>1, <1>3, <2>2 DEF FormIs, Forms
  <2>4. QED
    BY <2>1, <2>3 DEF FormSound
<1>4. QED
  BY <1>2, <1>3

LEMMA ReceiveOgSound ==
  ASSUME FormSound, ReceiveOg
  PROVE  FormSound'
<1>1. FormIs(form) /\ form # None /\ form.asked # None
  BY DEF FormSound, ReceiveOg
<1>2. PICK og \in {form.asked, None} : form' = [[form EXCEPT !.og = og] EXCEPT !.asked = None]
  BY DEF ReceiveOg
<1> DEFINE f == [[form EXCEPT !.og = og] EXCEPT !.asked = None]
<1>3. og \in Sites \cup {None} /\ og \in {None, form.url}
  BY <1>1 DEF FormIs, Forms
<1>4. FormIs(f)
  BY <1>1, <1>3 DEF FormIs, Forms
<1>5. QED
  BY <1>2, <1>4 DEF FormSound

LEMMA AddTagSound ==
  ASSUME FormSound, NEW t \in Tags, addTag(t)
  PROVE  FormSound'
<1> DEFINE s == form.tags
           u == Append(s, t)
           f == [form EXCEPT !.tags = u]
           N == Len(s)
<1>1. FormIs(form) /\ N < MAX_TAGS /\ t \notin ToSet(s) /\ form' = f
  BY DEF FormSound, addTag
<1>2. s \in Seq(Tags) /\ FewTags(s) /\ form.leaving \subseteq ToSet(s) /\ form \in Forms
  BY <1>1 DEF FormIs, Forms
<1>3. /\ u \in Seq(Tags) /\ N \in Nat /\ Len(u) = N + 1
      /\ DOMAIN s = 1..N /\ DOMAIN u = 1..(N + 1) /\ u[N + 1] = t
      /\ \A i \in 1..N : u[i] = s[i] /\ i \in DOMAIN u
  BY <1>2
<1>4. \A i \in DOMAIN u : i \in 1..N \/ i = N + 1
  BY <1>3
<1>5. \A i \in 1..N : s[i] # t
  BY <1>1, <1>3 DEF ToSet
<1>6. \A i, j \in 1..N : s[i] = s[j] => i = j
  BY <1>2, <1>3 DEF FewTags, IsInjective
<1> HIDE DEF u, N, s
<1>7. IsInjective(u)
  BY <1>3, <1>4, <1>5, <1>6 DEF IsInjective
<1>8. Len(u) <= MAX_TAGS
  BY <1>1, <1>3, Bounds
<1>9. ToSet(s) \subseteq ToSet(u)
  BY <1>3 DEF ToSet
<1>10. FormIs(f)
  BY <1>1, <1>2, <1>3, <1>7, <1>8, <1>9 DEF FormIs, Forms, FewTags
<1>11. QED
  BY <1>1, <1>10 DEF FormSound

LEMMA RemoveTagSound ==
  ASSUME FormSound, NEW t \in Tags, removeTag(t)
  PROVE  FormSound'
<1> DEFINE f == [form EXCEPT !.leaving = @ \cup {t}]
<1>1. FormIs(form) /\ t \in ToSet(form.tags) /\ form' = f
  BY DEF FormSound, removeTag
<1>2. FormIs(f)
  BY <1>1 DEF FormIs, Forms
<1>3. QED
  BY <1>1, <1>2 DEF FormSound

\* Only the tag that faded goes, and only it.
LEMMA TagGoneSound ==
  ASSUME FormSound, TagGone
  PROVE  FormSound'
<1>1. FormIs(form)
  BY DEF FormSound, TagGone
<1>2. PICK t \in form.leaving :
        form' = [[form EXCEPT !.tags = Keep(form.tags, {i \in DOMAIN form.tags : form.tags[i] # t})]
                   EXCEPT !.leaving = @ \ {t}]
  BY DEF TagGone
<1> DEFINE s == form.tags
           K == {i \in DOMAIN s : s[i] # t}
           u == Keep(s, K)
           N == Len(s)
           C == Cardinality(K)
           f == [[form EXCEPT !.tags = u] EXCEPT !.leaving = @ \ {t}]
<1>3. s \in Seq(Tags) /\ FewTags(s) /\ form.leaving \subseteq ToSet(s) /\ form \in Forms
  BY <1>1 DEF FormIs, Forms
<1>4. N \in Nat /\ DOMAIN s = 1..N /\ K \subseteq 1..N /\ K \subseteq DOMAIN s
  BY <1>3
<1>5. form' = f
  BY <1>2
<1>6. \A k \in K : s[k] # t
  OBVIOUS
<1>7. \A i \in 1..N : i \in K \/ s[i] = t
  BY <1>4
<1>8. N <= MAX_TAGS /\ \A i, j \in 1..N : s[i] = s[j] => i = j
  BY <1>3, <1>4 DEF FewTags, IsInjective
<1> HIDE DEF s, K, N
<1>9. u \in Seq(Tags)
  BY <1>3, <1>4, KeepIsList
<1>10. PICK e : PlacesOf(e, s, K)
  BY <1>4, KeepIsInOrder
<1>11. C \in 0..N
  BY <1>4, KeepIsInOrder
<1>12. DOMAIN u = 1..C /\ \A n \in 1..C : u[n] = s[e[n]] /\ e[n] \in K
  BY <1>10 DEF PlacesOf
<1>13. C \in Nat /\ Len(u) = C /\ C <= MAX_TAGS
  <2>1. C \in Nat /\ C <= N
    BY <1>4, <1>11
  <2>2. Len(u) = C
    BY <1>9, <1>12, <2>1
  <2> HIDE DEF C
  <2>3. QED
    BY <1>4, <1>8, <2>1, <2>2, Bounds
<1>14. \A m, n \in 1..C : e[m] = e[n] => m = n
  <2> SUFFICES ASSUME NEW m \in 1..C, NEW n \in 1..C, m # n
               PROVE  e[m] # e[n]
    OBVIOUS
  <2>1. \A i \in 1..N : i \in Nat
    BY <1>4
  <2>2. e[m] \in K /\ e[n] \in K
    BY <1>12
  <2>3. e[m] \in Nat /\ e[n] \in Nat
    BY <1>4, <2>1, <2>2
  <2>4. m < n \/ n < m
    BY <1>13
  <2>5. e[m] < e[n] \/ e[n] < e[m]
    BY <1>10, <2>4 DEF PlacesOf
  <2>6. QED
    BY <2>3, <2>5
<1>15. \A k \in K : \E n \in 1..C : e[n] = k
  BY <1>10 DEF PlacesOf
<1> HIDE DEF u, C
<1>16. IsInjective(u)
  <2> SUFFICES ASSUME NEW m \in 1..C, NEW n \in 1..C, u[m] = u[n]
               PROVE  m = n
    BY <1>12 DEF IsInjective
  <2>1. e[m] \in 1..N /\ e[n] \in 1..N /\ s[e[m]] = s[e[n]]
    BY <1>4, <1>12
  <2>2. e[m] = e[n]
    BY <1>8, <2>1
  <2>3. QED
    BY <1>14, <2>2
<1>17. form.leaving \ {t} \subseteq ToSet(u)
  <2> SUFFICES ASSUME NEW x \in form.leaving, x # t
               PROVE  x \in ToSet(u)
    OBVIOUS
  <2>1. PICK i \in 1..N : s[i] = x
    BY <1>3, <1>4 DEF ToSet
  <2>2. i \in K
    BY <1>7, <2>1
  <2>3. PICK n \in 1..C : e[n] = i
    BY <1>15, <2>2
  <2>4. u[n] = x /\ n \in DOMAIN u
    BY <1>12, <2>1, <2>3
  <2>5. QED
    BY <2>4 DEF ToSet
<1>18. FormIs(f)
  BY <1>1, <1>3, <1>9, <1>13, <1>16, <1>17 DEF FormIs, Forms, FewTags
<1>19. QED
  BY <1>5, <1>18 DEF FormSound

LEMMA FormStepsSound ==
  ASSUME PageSound, FormSteps
  PROVE  PageSound'
<1>1. FormSound
  BY DEF PageSound
<1>2. CASE OpenForm
  <2>1. form' = NewForm /\ Idle
    BY <1>2 DEF OpenForm, FormOnly
  <2>2. FormSound'
    BY <2>1, NewFormSound DEF FormSound
  <2>3. QED
    BY <2>1, <2>2, IdleSound
<1>3. CASE CloseForm
  <2>1. form' = None /\ Idle
    BY <1>3 DEF CloseForm, FormOnly
  <2>2. QED
    BY <2>1, IdleSound DEF FormSound
<1>4. CASE handleSubmit
  <2> DEFINE f == [form EXCEPT !.busy = TRUE]
  <2>1. FormIs(form) /\ form' = f /\ Idle
    BY <1>1, <1>4 DEF FormSound, handleSubmit, canSubmit
  <2>2. FormIs(f)
    BY <2>1 DEF FormIs, Forms
  <2>3. QED
    BY <2>1, <2>2, IdleSound DEF FormSound
<1>5. ASSUME NEW url \in Sites \cup {Blank}, EditUrl(url)
      PROVE  PageSound'
  <2>1. Idle
    BY <1>5 DEF EditUrl, FormOnly
  <2>2. QED
    BY <1>1, <1>5, <2>1, EditUrlSound, IdleSound
<1>6. ASSUME NEW t \in Tags, addTag(t)
      PROVE  PageSound'
  <2>1. Idle
    BY <1>6 DEF addTag, FormOnly
  <2>2. QED
    BY <1>1, <1>6, <2>1, AddTagSound, IdleSound
<1>7. ASSUME NEW t \in Tags, removeTag(t)
      PROVE  PageSound'
  <2>1. Idle
    BY <1>7 DEF removeTag, FormOnly
  <2>2. QED
    BY <1>1, <1>7, <2>1, RemoveTagSound, IdleSound
<1>8. CASE ReceiveOg
  <2>1. Idle
    BY <1>8 DEF ReceiveOg, FormOnly
  <2>2. QED
    BY <1>1, <1>8, <2>1, ReceiveOgSound, IdleSound
<1>9. CASE TagGone
  <2>1. Idle
    BY <1>9 DEF TagGone, FormOnly
  <2>2. QED
    BY <1>1, <1>9, <2>1, TagGoneSound, IdleSound
<1>10. QED
  BY <1>2, <1>3, <1>4, <1>5, <1>6, <1>7, <1>8, <1>9 DEF FormSteps

-----------------------------------------------------------------------------
(***************************************************************************)
(* A submission.                                                           *)
(***************************************************************************)
\* What it sends is read from the form, and so is the list of tags.
LEMMA SubmitSound ==
  ASSUME FormSound, handleSubmit
  PROVE  JobSound'
<1> DEFINE app == [url |-> form.url, og |-> form.og, tags |-> form.tags]
           j == [step |-> "build", attempts |-> 0, here |-> TRUE, app |-> app]
<1>1. FormIs(form) /\ form.url # Blank /\ job' = j
  BY DEF FormSound, handleSubmit, canSubmit
<1>2. app \in Creations
  BY <1>1 DEF FormIs, Forms, Creations, App
<1>3. 0 \in 0..(Attempts - 1)
  BY Bounds
<1> HIDE DEF app
<1>4. /\ j \in [step : Steps, attempts : Nat, here : BOOLEAN, app : Creations]
      /\ j.step = "build" /\ j.attempts = 0
  BY <1>2 DEF Steps
<1> HIDE DEF j
<1>5. JobIs(j)
  BY <1>3, <1>4 DEF JobIs
<1>6. QED
  BY <1>1, <1>5 DEF JobSound

LEMMA FailsSound ==
  ASSUME FormSound, Fails
  PROVE  FormSound' /\ JobSound'
<1> DEFINE f == [form EXCEPT !.busy = FALSE]
<1>1. job' = None /\ form' = IF form = None THEN None ELSE f
  BY DEF Fails
<1>2. form # None => FormIs(f)
  BY DEF FormSound, FormIs, Forms
<1>3. QED
  BY <1>1, <1>2 DEF FormSound, JobSound

LEMMA CreateAppSound ==
  ASSUME PageSound, JobSound, ChainSound, createApp
  PROVE  (PageSound /\ JobSound /\ ChainSound)'
<1>1. FormSound /\ Idle /\ UNCHANGED <<chain, indexed>>
  BY DEF PageSound, createApp
<1>2. FormSound' /\ JobSound'
  <2>1. CASE job' = [job EXCEPT !.step = "prompt"] /\ UNCHANGED form
    <3> DEFINE j == [job EXCEPT !.step = "prompt"]
    <3>1. /\ job \in [step : Steps, attempts : Nat, here : BOOLEAN, app : Creations]
          /\ job.attempts \in 0..(Attempts - 1)
      BY DEF JobSound, JobIs, createApp
    <3>2. /\ j \in [step : Steps, attempts : Nat, here : BOOLEAN, app : Creations]
          /\ j.step = "prompt" /\ j.attempts = job.attempts
      BY <3>1 DEF Steps
    <3> HIDE DEF j
    <3>3. JobIs(j)
      BY <3>1, <3>2 DEF JobIs
    <3>4. QED
      BY <1>1, <2>1, <3>3 DEF j, JobSound, FormSound, FormIs
  <2>2. CASE Fails
    BY <1>1, <2>2, FailsSound
  <2>3. QED
    BY <2>1, <2>2 DEF createApp
<1>3. QED
  BY <1>1, <1>2, IdleSound DEF ChainSound

LEMMA SignSound ==
  ASSUME PageSound, JobSound, ChainSound, signAndSubmit
  PROVE  (PageSound /\ JobSound /\ ChainSound)'
<1> DEFINE sent == Append(chain, job.app)
<1>1. FormSound /\ Idle /\ UNCHANGED indexed
  BY DEF PageSound, signAndSubmit
<1>2. JobIs(job) /\ job.step = "prompt"
  BY DEF JobSound, signAndSubmit
<1>3. job.app \in Creations /\ job \in [step : Steps, attempts : Nat, here : BOOLEAN, app : Creations]
  BY <1>2 DEF JobIs
<1>4. chain \in Seq(Creations) /\ indexed \in Nat /\ indexed <= Len(chain) /\ Len(chain) \in Nat
  BY DEF ChainSound
<1>5. sent \in Seq(Creations) /\ Len(sent) = Len(chain) + 1
  BY <1>3, <1>4
<1>6. indexed <= Len(sent) /\ Len(sent) \in Nat
  BY <1>4, <1>5
<1> HIDE DEF sent
<1>7. FormSound' /\ JobSound' /\ chain' \in {chain, sent}
  <2>1. CASE /\ chain' = sent /\ UNCHANGED form
             /\ job' = [job EXCEPT !.step = "poll", !.app = Len(chain')]
    <3> DEFINE n == Len(sent)
               j == [[job EXCEPT !.step = "poll"] EXCEPT !.app = n]
    <3>1. job' = j
      BY <2>1
    <3>2. n \in Nat
      BY <1>6
    <3> HIDE DEF n
    <3>3. /\ j \in [step : Steps, attempts : Nat, here : BOOLEAN, app : Nat]
          /\ j.step = "poll" /\ j.attempts = job.attempts
      <4> DEFINE k == [job EXCEPT !.step = "poll"]
      <4>1. k \in [step : Steps, attempts : Nat, here : BOOLEAN, app : Creations] /\ k.step = "poll"
            /\ k.attempts = job.attempts
        BY <1>3 DEF Steps
      <4> HIDE DEF k
      <4>2. [k EXCEPT !.app = n] \in [step : Steps, attempts : Nat, here : BOOLEAN, app : Nat]
        BY <3>2, <4>1
      <4>3. QED
        BY <4>1, <4>2 DEF k
    <3> HIDE DEF j
    <3>4. JobIs(j)
      BY <1>2, <3>3 DEF JobIs
    <3>5. QED
      BY <1>1, <2>1, <3>1, <3>4 DEF JobSound, FormSound, FormIs
  <2>2. CASE Fails /\ chain' \in {chain, sent}
    BY <1>1, <2>2, FailsSound
  <2>3. QED
    BY <2>1, <2>2 DEF signAndSubmit, sent
<1>8. ChainSound'
  BY <1>1, <1>4, <1>5, <1>6, <1>7 DEF ChainSound
<1>9. QED
  BY <1>1, <1>7, <1>8, IdleSound

\* An app that is indexed is visited; one that is not leaves the page to its list.
LEMMA PollsSound ==
  ASSUME PageSound, JobSound, ChainSound, pollUntilIndexed
  PROVE  (PageSound /\ JobSound /\ ChainSound)'
<1>1. timers \in Seq(Timers) /\ UNCHANGED <<timers, chain, indexed, catalogue>>
  BY DEF PageSound, PlacesSound, pollUntilIndexed
<1>2. ChainSound'
  BY <1>1 DEF ChainSound
<1>3. CASE Succeeds(TRUE)
  <2>1. push(AppPage) /\ job' = None
    BY <1>3 DEF Succeeds
  <2>2. BoxesLag(AppPage, boxes, timers', aside)
    BY DEF BoxesLag
  <2>3. PageSound'
    BY <1>1, <2>1, <2>2, Pushed
  <2>4. QED
    BY <1>2, <2>1, <2>3 DEF JobSound
<1>4. CASE Succeeds(FALSE)
  <2>1. /\ job' = None /\ UNCHANGED <<location, past, boxes, aside>>
        /\ \/ UNCHANGED <<form, list>>
           \/ ~away /\ form' = None /\ Refetch(location)
    BY <1>4 DEF Succeeds
  <2>2. ListIs(location, fetches, more, apps, straddled, failed) /\ catalogue \in Nat
    BY ListTypes
  <2>3. ListSound'
    <3>1. CASE UNCHANGED list
      BY <2>1, <2>2, <3>1 DEF ListSound, list
    <3>2. CASE ~away /\ Refetch(location)
      <4>1. location \in Urls /\ location' = location /\ location # AppPage /\ Refetch(location)
        BY <2>1, <3>2, ListTypes DEF away
      <4>2. QED
        BY <2>2, <4>1, RefetchSound
    <3>3. QED
      BY <2>1, <3>1, <3>2
  <2>4. PageSound'
    BY <1>1, <2>1, <2>3 DEF PageSound, PlacesSound, BoxesFollow, FormSound, FormIs
  <2>5. QED
    BY <1>2, <2>1, <2>4 DEF JobSound
<1>5. CASE /\ job.attempts + 1 < Attempts
           /\ job' = [job EXCEPT !.attempts = @ + 1]
           /\ UNCHANGED <<location, past, boxes, form, list, aside>>
  <2> DEFINE n == job.attempts + 1
             j == [job EXCEPT !.attempts = n]
  <2>1. JobIs(job) /\ job.step = "poll" /\ job \in [step : Steps, attempts : Nat, here : BOOLEAN, app : Nat]
    BY DEF JobSound, JobIs, pollUntilIndexed
  <2>2. n \in 0..(Attempts - 1) /\ n \in Nat
    BY <1>5, <2>1, Bounds
  <2> HIDE DEF n
  <2>3. JobIs(j)
    BY <2>1, <2>2 DEF JobIs
  <2>4. JobSound'
    BY <1>5, <2>3 DEF JobSound, n
  <2>5. PageSound'
    BY <1>1, <1>5 DEF PageSound, PlacesSound, BoxesFollow, ListSound, FormSound, FormIs, list
  <2>6. QED
    BY <1>2, <2>4, <2>5
<1>6. QED
  BY <1>3, <1>4, <1>5 DEF pollUntilIndexed

-----------------------------------------------------------------------------
(***************************************************************************)
(* All of it.                                                              *)
(***************************************************************************)
LEMMA BrowseStarts ==
  ASSUME BrowseInit
  PROVE  BrowseSound
<1>1. location \in Urls /\ catalogue \in Nat /\ location # AppPage
  BY Starts, Others DEF BrowseInit
<1>2. ListSound
  BY <1>1, ListMounted DEF BrowseInit, ListSound
<1>3. boxes \in [Boxes -> Values] /\ boxes = location.boxes /\ timers = <<>>
  BY <1>1 DEF BrowseInit, Urls, Values
<1>4. PlacesSound
  BY <1>1, <1>3 DEF BrowseInit, PlacesSound
<1>5. BoxesFollow
  BY <1>3 DEF BoxesFollow, BoxesLag
<1>6. FormSound
  BY NewFormSound DEF BrowseInit, FormSound
<1>7. JobSound /\ ChainSound
  BY DEF BrowseInit, JobSound, ChainSound
<1>8. QED
  BY <1>2, <1>4, <1>5, <1>6, <1>7 DEF BrowseSound, PageSound

LEMMA ElsewhereSound ==
  ASSUME BrowseSound, UNCHANGED <<job, chain, indexed>>, PageSound'
  PROVE  BrowseSound'
  BY DEF BrowseSound, JobSound, JobIs, ChainSound

\* A submission keeps what it has when its page is left.
LEMMA LeavingSound ==
  ASSUME BrowseSound, NEW url, job' = JobAt(url), UNCHANGED <<chain, indexed>>, PageSound'
  PROVE  BrowseSound'
<1> DEFINE j == [job EXCEPT !.here = FALSE]
<1>1. JobSound /\ ChainSound /\ (job' = job \/ (job # None /\ job' = j))
  BY DEF BrowseSound, JobAt
<1>2. job # None => JobIs(j)
  <2> SUFFICES ASSUME job # None
               PROVE  JobIs(j)
    OBVIOUS
  <2>1. JobIs(job)
    BY <1>1 DEF JobSound
  <2>2. CASE /\ job \in [step : Steps, attempts : Nat, here : BOOLEAN, app : Creations]
             /\ job.step \in {"build", "prompt"}
    <3>1. /\ j \in [step : Steps, attempts : Nat, here : BOOLEAN, app : Creations]
          /\ j.step = job.step /\ j.attempts = job.attempts
      BY <2>2
    <3> HIDE DEF j
    <3>2. QED
      BY <2>1, <2>2, <3>1 DEF JobIs
  <2>3. CASE /\ job \in [step : Steps, attempts : Nat, here : BOOLEAN, app : Nat]
             /\ job.step = "poll"
    <3>1. /\ j \in [step : Steps, attempts : Nat, here : BOOLEAN, app : Nat]
          /\ j.step = job.step /\ j.attempts = job.attempts
      BY <2>3
    <3> HIDE DEF j
    <3>2. QED
      BY <2>1, <2>3, <3>1 DEF JobIs
  <2>4. QED
    BY <2>1, <2>2, <2>3 DEF JobIs
<1> HIDE DEF j
<1>3. JobSound'
  BY <1>1, <1>2 DEF JobSound, JobIs
<1>4. QED
  BY <1>1, <1>3 DEF BrowseSound, ChainSound

LEMMA ControlsSound ==
  ASSUME BrowseSound, Controls
  PROVE  BrowseSound'
<1>0. PageSound
  BY DEF BrowseSound
<1>1. ASSUME NEW key \in Boxes, NEW value \in Words \cup {Blank}, Type(key, value)
      PROVE  BrowseSound'
  <2>1. value \in Values /\ UNCHANGED <<job, chain, indexed>>
    BY <1>1 DEF Values, Type, creation
  <2>2. QED
    BY <1>0, <1>1, <2>1, TypeSound, ElsewhereSound
<1>2. ASSUME NEW tags \in SUBSET Tags, NEW sort \in Sorts, Pushes(tags, sort)
      PROVE  BrowseSound'
  <2>1. UNCHANGED <<job, chain, indexed>>
    BY <1>2 DEF Pushes
  <2>2. QED
    BY <1>0, <1>2, <2>1, PushesSound, ElsewhereSound
<1>3. ~away => location.tags \in SUBSET Tags /\ location.sort \in Sorts
  BY <1>0, ListTypes DEF Urls
<1>4. ASSUME ~away, NEW t \in Tags, toggleTag(t)
      PROVE  BrowseSound'
  <2> DEFINE tags == IF t \in location.tags THEN location.tags \ {t} ELSE location.tags \cup {t}
  <2>1. tags \in SUBSET Tags /\ location.sort \in Sorts
    BY <1>3, <1>4
  <2>2. Pushes(tags, location.sort)
    BY <1>4 DEF toggleTag
  <2> HIDE DEF tags
  <2>3. QED
    BY <1>2, <2>1, <2>2
<1>5. ASSUME ~away, NEW s \in Sorts, SortBy(s)
      PROVE  BrowseSound'
  BY <1>2, <1>3, <1>5 DEF SortBy
<1>6. CASE clearFilters
  <2>1. UNCHANGED <<job, chain, indexed>>
    BY <1>6 DEF clearFilters, creation
  <2>2. QED
    BY <1>0, <1>6, <2>1, ClearSound, ElsewhereSound
<1>7. CASE Back
  <2>1. job' = JobAt(Last(past)) /\ UNCHANGED <<chain, indexed>>
    BY <1>7 DEF Back
  <2>2. QED
    BY <1>0, <1>7, <2>1, BackSound, LeavingSound
<1>8. CASE VisitApp
  <2>1. job' = JobAt(AppPage) /\ UNCHANGED <<chain, indexed>>
    BY <1>8 DEF VisitApp
  <2>2. QED
    BY <1>0, <1>8, <2>1, VisitAppSound, LeavingSound
<1>9. CASE loadMore
  <2>1. UNCHANGED <<job, chain, indexed>>
    BY <1>9 DEF loadMore, creation
  <2>2. QED
    BY <1>0, <1>9, <2>1, LoadMoreSound, ElsewhereSound
<1>10. QED
  BY <1>1, <1>4, <1>5, <1>6, <1>7, <1>8, <1>9 DEF Controls

LEMMA FormStepsKeep ==
  ASSUME BrowseSound, FormSteps
  PROVE  BrowseSound'
<1>1. PageSound' /\ FormSound
  BY FormStepsSound DEF BrowseSound, PageSound
<1>2. UNCHANGED <<chain, indexed>>
  BY DEF FormSteps, FormOnly, OpenForm, CloseForm, handleSubmit, EditUrl, addTag, removeTag,
         ReceiveOg, TagGone
<1>3. CASE handleSubmit
  BY <1>1, <1>2, <1>3, SubmitSound DEF BrowseSound, ChainSound
<1>4. CASE ~handleSubmit
  <2>1. UNCHANGED job
    BY <1>4 DEF FormSteps, FormOnly, OpenForm, CloseForm, EditUrl, addTag, removeTag,
                ReceiveOg, TagGone
  <2>2. QED
    BY <1>1, <1>2, <2>1, ElsewhereSound
<1>5. QED
  BY <1>3, <1>4

LEMMA BrowseStaysSound ==
  ASSUME BrowseSound, [BrowseNext]_browseVars
  PROVE  BrowseSound'
<1>0. PageSound /\ JobSound /\ ChainSound
  BY DEF BrowseSound
<1>1. CASE Controls
  BY <1>1, ControlsSound
<1>2. CASE Fire
  <2>1. UNCHANGED <<job, chain, indexed>>
    BY <1>2 DEF Fire
  <2>2. QED
    BY <1>0, <1>2, <2>1, FireSound, ElsewhereSound
<1>3. CASE FormSteps
  BY <1>3, FormStepsKeep
<1>4. CASE JobSteps
  <2>1. CASE createApp
    BY <1>0, <2>1, CreateAppSound DEF BrowseSound
  <2>2. CASE signAndSubmit
    BY <1>0, <2>2, SignSound DEF BrowseSound
  <2>3. CASE pollUntilIndexed
    BY <1>0, <2>3, PollsSound DEF BrowseSound
  <2>4. QED
    BY <1>4, <2>1, <2>2, <2>3 DEF JobSteps
<1>5. CASE ReceivePage1
  <2>1. UNCHANGED <<job, chain, indexed>>
    BY <1>5 DEF ReceivePage1, creation
  <2>2. QED
    BY <1>0, <1>5, <2>1, ReceivePage1Sound, ElsewhereSound
<1>6. CASE LosePage1
  <2>1. UNCHANGED <<job, chain, indexed>>
    BY <1>6 DEF LosePage1, creation
  <2>2. QED
    BY <1>0, <1>6, <2>1, LosePage1Sound, ElsewhereSound
<1>7. CASE pollIfAtRest
  <2>1. UNCHANGED <<job, chain, indexed>>
    BY <1>7 DEF pollIfAtRest, creation
  <2>2. QED
    BY <1>0, <1>7, <2>1, PollSound, ElsewhereSound
<1>8. CASE ReceiveMore
  <2>1. UNCHANGED <<job, chain, indexed>>
    BY <1>8 DEF ReceiveMore, creation
  <2>2. QED
    BY <1>0, <1>8, <2>1, ReceiveMoreSound, ElsewhereSound
<1>9. CASE Index
  <2>1. /\ indexed < Len(chain) /\ indexed' = indexed + 1 /\ catalogue' = catalogue + 1
        /\ UNCHANGED <<location, past, boxes, timers, list, form, job, chain, aside>>
    BY <1>9 DEF Index
  <2>2. ChainSound'
    BY <1>0, <2>1 DEF ChainSound
  <2>3. PageSound'
    BY <1>0, <2>1 DEF PageSound, PlacesSound, BoxesFollow, ListSound, FormSound, FormIs, list
  <2>4. QED
    BY <1>0, <2>1, <2>2, <2>3 DEF BrowseSound, JobSound, JobIs
<1>10. CASE News
  <2>1. /\ catalogue' = catalogue + 1
        /\ UNCHANGED <<location, past, boxes, timers, list, form, job, chain, indexed, aside>>
    BY <1>10 DEF News, creation
  <2>2. PageSound'
    BY <1>0, <2>1 DEF PageSound, PlacesSound, BoxesFollow, ListSound, FormSound, FormIs, list
  <2>3. QED
    BY <2>1, <2>2, ElsewhereSound
<1>11. CASE UNCHANGED browseVars
  <2>1. PageSound'
    BY <1>0, <1>11
       DEF browseVars, PageSound, PlacesSound, BoxesFollow, ListSound, FormSound, FormIs, list,
           creation
  <2>2. QED
    BY <1>11, <2>1, ElsewhereSound DEF browseVars, creation
<1>12. QED
  BY <1>1, <1>2, <1>3, <1>4, <1>5, <1>6, <1>7, <1>8, <1>9, <1>10, <1>11 DEF BrowseNext

LEMMA BrowseSoundIsEnough ==
  ASSUME BrowseSound
  PROVE  BrowseInv
<1>1. /\ PlacesSound /\ BoxesLag(location, boxes, timers, aside) /\ FormSound
      /\ JobSound /\ ChainSound
      /\ ListIs(location, fetches, more, apps, straddled, failed)
  BY DEF BrowseSound, PageSound, BoxesFollow, ListSound
<1>2. BoxesReachUrl
  BY <1>1 DEF BoxesLag, BoxesReachUrl, away
<1>3. IdleListIsOfUrl
  BY <1>1 DEF ListIs, IdleListIsOfUrl, loading, away
<1>4. PagesInOrder
  BY <1>1 DEF ListIs, PagesInOrder
<1>5. PreviewIsOfUrl
  BY <1>1 DEF FormSound, FormIs, PreviewIsOfUrl
<1>6. chain \in Seq(Creations) /\ \A i \in DOMAIN chain : chain[i] \in Creations
  <2>1. chain \in Seq(Creations)
    BY <1>1 DEF ChainSound
  <2>2. QED
    BY <2>1
<1>7. TagsOnce
  BY <1>1, <1>6 DEF Creations, FewTags, FormSound, FormIs, TagsOnce
<1>8. BrowseTypeOK
  <2>1. /\ location \in Urls \cup {AppPage} /\ boxes \in [Boxes -> Words \cup {Blank}]
        /\ aside \subseteq {"back", "clear"}
    BY <1>1 DEF PlacesSound, Values
  <2>2. ToSet(past) \subseteq Urls \cup {AppPage}
    <3>1. past \in Seq(Urls \cup {AppPage})
      BY <1>1 DEF PlacesSound
    <3>2. QED
      BY <3>1 DEF ToSet
  <2>3. \A i \in DOMAIN timers : timers[i].key \in Boxes /\ timers[i].url \in Urls
    <3>1. timers \in Seq(Timers)
      BY <1>1 DEF PlacesSound
    <3>2. \A i \in DOMAIN timers : timers[i] \in Timers
      BY <3>1
    <3>3. QED
      BY <3>2 DEF Timers
  <2>4. Len(apps) <= Pages + 1 /\ indexed <= Len(chain)
    BY <1>1 DEF ListIs, ChainSound
  <2>5. form # None => /\ form.url \in Sites \cup {Blank} /\ form.og \in Sites \cup {None}
                       /\ form.leaving \subseteq ToSet(form.tags)
    BY <1>1 DEF FormSound, FormIs, Forms
  <2>6. job # None => job.attempts < Attempts
    <3> SUFFICES ASSUME job # None
                 PROVE  job.attempts < Attempts
      OBVIOUS
    <3>1. job.attempts \in 0..(Attempts - 1)
      BY <1>1 DEF JobSound, JobIs
    <3>2. QED
      BY <3>1, Bounds
  <2>7. ToSet(chain) \subseteq App
    BY <1>6 DEF ToSet, Creations
  <2>8. QED
    BY <2>1, <2>2, <2>3, <2>4, <2>5, <2>6, <2>7 DEF BrowseTypeOK
<1>9. QED
  BY <1>2, <1>3, <1>4, <1>5, <1>7, <1>8 DEF BrowseInv

\* On the browse page, once the boxes' timers have run the URL says what is in them, a list
\* that is not loading is that of the URL, the pages shown are one search's in order, the
\* preview is of the site typed, and no app is sent with a tag twice or with too many
\* (Discover.tsx and CreateAppForm.tsx), for any number of filters, pages and attempts.
THEOREM BrowsePageKept == BrowseSpec => []BrowseInv
<1>1. BrowseInit => BrowseSound
  BY BrowseStarts
<1>2. BrowseSound /\ [BrowseNext]_browseVars => BrowseSound'
  BY BrowseStaysSound
<1>3. BrowseSound => BrowseInv
  BY BrowseSoundIsEnough
<1>4. QED
  BY <1>1, <1>2, <1>3, PTL DEF BrowseSpec

=============================================================================
