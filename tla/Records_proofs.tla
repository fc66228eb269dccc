----------------------------- MODULE Records_proofs -----------------------------
(***************************************************************************)
(* Theorems about the two records the API keeps on what browsers tell it:  *)
(* the stakes (StakeLedger, for any number of users, tabs, tags, deposits, *)
(* faults and resends) and the find sessions with the page that produces   *)
(* them (FindFunnel, for any facets, apps, engine, limits, navigations and *)
(* failures).                                                              *)
(*                                                                         *)
(* The ledger follows the chain only because every handler, unless it      *)
(* overlaps another, knows the rows it is about to change: the row to      *)
(* deactivate is still active, and the rows to consume hold what they held *)
(* when they were read (RowsKnown).  That in turn rests on what a request  *)
(* and a panel say of rows and deposits, however old they are              *)
(* (RequestSound, ShownSound): a row's user, target and signature never    *)
(* change, and its amount only ever shrinks.                               *)
(*                                                                         *)
(* The funnel rests on three facts about what the page holds: the answers  *)
(* never name a facet twice (Histories), a navigation under way goes to    *)
(* the answers the reducer holds (NavigationSound), and a token that would *)
(* be sent was never redeemed (TokensSound).                               *)
(***************************************************************************)
EXTENDS StakeLedger, FindFunnel, DataTheorems, SequenceTheorems

-----------------------------------------------------------------------------
(* The stake ledger.                                                       *)

PCs == {"idle", "create", "insert", "readRow", "deactivate", "readRows", "consume",
        "sumTag", "saveTag", "sumVotes", "countVotes", "sumStakes", "saveApp"}
Rows == [user : Users, target : Targets, amount : Int, sig : 1..MaxDeposits, active : BOOLEAN]
Deposits == [user : Users, target : Targets, amount : 1..MaxAmount]
Todos == UNION {[D -> Int] : D \in SUBSET DOMAIN rows}
Requests ==
  [pc : PCs, target : Targets, sig : Nat, row : Nat, amount : Nat, todo : Todos,
   weight : Int, count : Nat, stakes : Int]
ShownRows == [row : Nat, target : Targets, amount : Int]

\* Type correctness, of every part of the state.
Shapes ==
  /\ chain \in [Users -> [Targets -> 0..MaxAmount]]
  /\ deposits \in Seq(Deposits) /\ Len(deposits) <= MaxDeposits
  /\ rows \in Seq(Rows)
  /\ app \in [weight : Int, count : Nat, stakes : Int]
  /\ tagTotal \in [Tags -> Int]
  /\ tab \in [Tabs -> Requests]
  /\ shown \in [Tabs -> {None} \cup ShownRows]
  /\ missed \in [Users -> [Targets -> Nat]]
  /\ overlapped \in [ever : BOOLEAN, now : SUBSET Tabs]
  /\ faults \in 0..MaxFaults /\ resends \in 0..MaxResends

\* A row is of the user and the target its transaction was of.
RowsAreDeposits ==
  \A i \in DOMAIN rows :
    /\ rows[i].sig \in DOMAIN deposits
    /\ deposits[rows[i].sig].user = rows[i].user
    /\ deposits[rows[i].sig].target = rows[i].target

\* What was learnt of row i of w's user on t, when it held x or less.
RowSound(w, i, t, x) ==
  /\ i \in DOMAIN rows
  /\ rows[i].user = Me(w) /\ rows[i].target = t
  /\ rows[i].amount <= x

RequestSound(w, r) ==
  /\ r.pc \in {"create", "insert"} =>
       /\ r.sig \in DOMAIN deposits
       /\ deposits[r.sig] = [user |-> Me(w), target |-> r.target, amount |-> r.amount]
  /\ r.pc \in {"readRow", "deactivate"} => RowSound(w, r.row, r.target, r.amount)
  /\ r.pc = "consume" => \A i \in DOMAIN r.todo : RowSound(w, i, r.target, r.todo[i])
  /\ r.pc \in {"sumTag", "saveTag"} => r.target \in Tags

ShownSound(w) == shown[w] # None => RowSound(w, shown[w].row, shown[w].target, shown[w].amount)

\* A handler that is not noted to have overlapped another is the only one.
OverlapsNoted == Overlapping \subseteq overlapped.now /\ (overlapped.now # {} => overlapped.ever)

\* The totals the handler of w has already computed, or, of its tag, saved.
TotalsKnown(w) ==
  /\ tab[w].pc = "saveTag" => tab[w].stakes = SumOfRows(ActiveOn({tab[w].target}))
  /\ tab[w].pc \in {"sumVotes", "countVotes", "sumStakes", "saveApp"} /\ tab[w].target \in Tags =>
       tagTotal[tab[w].target] = SumOfRows(ActiveOn({tab[w].target}))
  /\ tab[w].pc \in {"countVotes", "sumStakes", "saveApp"} =>
       tab[w].weight = SumOfRows(ActiveOn({VoteTarget}))
  /\ tab[w].pc \in {"sumStakes", "saveApp"} => tab[w].count = Cardinality(ActiveOn({VoteTarget}))
  /\ tab[w].pc = "saveApp" => tab[w].stakes = SumOfRows(ActiveOn(Tags))

\* The handler of w knows the rows it is about to change.
RowsKnown(w) ==
  /\ tab[w].pc = "deactivate" => rows[tab[w].row].active
  /\ tab[w].pc = "consume" =>
       \A i \in DOMAIN tab[w].todo : rows[i].active /\ rows[i].amount = tab[w].todo[i]

Known == \A w \in Tabs \ overlapped.now : RowsKnown(w) /\ TotalsKnown(w)

Sound ==
  /\ Shapes /\ RowsAreDeposits /\ RecordedOnce
  /\ \A w \in Tabs : RequestSound(w, tab[w]) /\ ShownSound(w)

IInv == Sound /\ OverlapsNoted /\ Known /\ ActiveRowsPositive /\ LedgerTracksChain

\* Rows never lose or change user, target and signature, and their amounts only shrink;
\* deposits are final.
Grows ==
  /\ DOMAIN rows \subseteq DOMAIN rows'
  /\ \A i \in DOMAIN rows :
       /\ rows'[i].user = rows[i].user /\ rows'[i].target = rows[i].target
       /\ rows'[i].sig = rows[i].sig /\ rows'[i].amount <= rows[i].amount
  /\ DOMAIN deposits \subseteq DOMAIN deposits'
  /\ \A s \in DOMAIN deposits : deposits'[s] = deposits[s]

-----------------------------------------------------------------------------
(***************************************************************************)
(* Requests.                                                               *)
(***************************************************************************)
\* What the sequences hold.
LEMMA Contents ==
  ASSUME Shapes
  PROVE  /\ DOMAIN rows = 1..Len(rows) /\ Len(rows) \in Nat
         /\ \A i \in DOMAIN rows : rows[i] \in Rows
         /\ DOMAIN deposits = 1..Len(deposits) /\ Len(deposits) \in Nat
         /\ \A s \in DOMAIN deposits : deposits[s] \in Deposits
BY DEF Shapes

LEMMA VoteIsTarget == VoteTarget \in Targets /\ Tags \subseteq Targets /\ Targets = {VoteTarget} \cup Tags
BY DEF Targets

LEMMA NothingToDo == NoRows \in Todos /\ DOMAIN NoRows = {}
BY DEF NoRows, Todos

LEMMA IdleSound ==
  /\ Idle \in Requests /\ Idle.pc = "idle" /\ Idle.target = VoteTarget /\ Idle.amount = 0
  /\ \A w \in Tabs : RequestSound(w, Idle)
<1>1. Idle = [pc |-> "idle", target |-> VoteTarget, sig |-> 0, row |-> 0, amount |-> 0,
              todo |-> NoRows, weight |-> 0, count |-> 0, stakes |-> 0]
  BY DEF Idle
<1>2. Idle \in Requests /\ Idle.pc = "idle" /\ Idle.target = VoteTarget /\ Idle.amount = 0
  BY <1>1, NothingToDo, VoteIsTarget DEF Requests, PCs
<1>3. QED
  BY <1>2 DEF RequestSound

\* The request of a handler that has only its refresh left.
Refreshing(t) == [Idle EXCEPT !.pc = RefreshFrom(t), !.target = t]

LEMMA RefreshSound ==
  ASSUME NEW t \in Targets
  PROVE  /\ Refreshing(t) \in Requests
         /\ Refreshing(t).pc \in {"sumTag", "sumVotes"} /\ Refreshing(t).target = t
         /\ Refreshing(t).pc = "sumTag" <=> t \in Tags
         /\ \A w \in Tabs : RequestSound(w, Refreshing(t))
<1>1. RefreshFrom(t) \in {"sumTag", "sumVotes"} /\ (RefreshFrom(t) = "sumTag" <=> t \in Tags)
  BY DEF RefreshFrom
<1>2. /\ Refreshing(t) \in Requests
      /\ Refreshing(t).pc = RefreshFrom(t) /\ Refreshing(t).target = t
  BY <1>1, IdleSound DEF Refreshing, Requests, PCs
<1>3. QED
  BY <1>1, <1>2 DEF RequestSound

\* The rows withdraw_partial reads.
LEMMA TodoRead ==
  ASSUME Shapes, NEW w \in Tabs, NEW t
  PROVE  /\ RowsToConsume(Me(w), t) \in Todos
         /\ DOMAIN RowsToConsume(Me(w), t) = ActiveOf(Me(w), t)
         /\ \A i \in ActiveOf(Me(w), t) : RowsToConsume(Me(w), t)[i] = rows[i].amount
         /\ \A i \in ActiveOf(Me(w), t) : RowSound(w, i, t, rows[i].amount)
<1> DEFINE D == ActiveOf(Me(w), t)
<1>1. D \subseteq DOMAIN rows /\ \A i \in D : rows[i].user = Me(w) /\ rows[i].target = t
  BY DEF ActiveOf, Active
<1>2. \A i \in D : rows[i].amount \in Int
  BY <1>1, Contents DEF Rows
<1>3. RowsToConsume(Me(w), t) = [i \in D |-> amountOf[i]]
  BY DEF RowsToConsume, Restrict
<1>4. \A i \in D : amountOf[i] = rows[i].amount
  BY <1>1 DEF amountOf
<1> HIDE DEF D
<1>5. [i \in D |-> amountOf[i]] \in [D -> Int]
  BY <1>2, <1>4
<1>6. QED
  BY <1>1, <1>2, <1>3, <1>4, <1>5 DEF Todos, D, RowSound

\* The oldest of the rows still to consume.
LEMMA OldestIsIn ==
  ASSUME Shapes, NEW todo \in Todos, DOMAIN todo # {}
  PROVE  /\ Oldest(todo) \in DOMAIN todo /\ Oldest(todo) \in DOMAIN rows
         /\ todo[Oldest(todo)] \in Int
         /\ Restrict(todo, DOMAIN todo \ {Oldest(todo)}) \in Todos
         /\ DOMAIN Restrict(todo, DOMAIN todo \ {Oldest(todo)}) = DOMAIN todo \ {Oldest(todo)}
         /\ \A i \in DOMAIN todo \ {Oldest(todo)} :
              Restrict(todo, DOMAIN todo \ {Oldest(todo)})[i] = todo[i]
<1>1. PICK D \in SUBSET DOMAIN rows : todo \in [D -> Int]
  BY DEF Todos
<1>2. D \subseteq Nat /\ DOMAIN todo = D
  BY <1>1, Contents
<1>3. \E m \in D : \A n \in D : m <= n
  BY <1>2, LeastNatural
<1>4. Oldest(todo) \in D
  BY <1>2, <1>3 DEF Oldest, Min
<1> DEFINE E == D \ {Oldest(todo)}
<1>5. E \in SUBSET DOMAIN rows /\ E \subseteq D
  OBVIOUS
<1>6. Restrict(todo, E) = [i \in E |-> todo[i]]
  BY DEF Restrict
<1> HIDE DEF E
<1>7. Restrict(todo, E) \in [E -> Int]
  BY <1>1, <1>5, <1>6
<1>8. Restrict(todo, E) \in Todos
  BY <1>5, <1>7 DEF Todos
<1>9. QED
  BY <1>1, <1>2, <1>4, <1>6, <1>8 DEF E

\* Rows that grow leave requests well formed and sound.
LEMMA RequestsPersist ==
  ASSUME Shapes, Grows, rows' \in Seq(Rows)
  PROVE  /\ Requests \subseteq Requests'
         /\ \A w \in Tabs : \A i, t : \A x \in Int : RowSound(w, i, t, x) => RowSound(w, i, t, x)'
         /\ \A w \in Tabs, r \in Requests : RequestSound(w, r) => RequestSound(w, r)'
<1>1. Todos \subseteq Todos'
  BY DEF Todos, Grows
<1>2. Requests \subseteq Requests'
  BY <1>1 DEF Requests
<1>3. \A i \in DOMAIN rows : rows[i].amount \in Int /\ rows'[i].amount \in Int
  <2>1. \A i \in DOMAIN rows' : rows'[i] \in Rows
    OBVIOUS
  <2>2. QED
    BY <2>1, Contents DEF Grows, Rows
<1>4. ASSUME NEW w \in Tabs, NEW i, NEW t, NEW x \in Int, RowSound(w, i, t, x)
      PROVE  RowSound(w, i, t, x)'
  BY <1>3, <1>4 DEF RowSound, Grows, Me
<1>5. ASSUME NEW w \in Tabs, NEW r \in Requests, RequestSound(w, r)
      PROVE  RequestSound(w, r)'
  <2>1. r.amount \in Int /\ \A i \in DOMAIN r.todo : r.todo[i] \in Int
    BY DEF Requests, Todos
  <2>2. r.pc \in {"create", "insert"} =>
          r.sig \in DOMAIN deposits' /\ deposits'[r.sig] = deposits[r.sig]
    BY <1>5 DEF RequestSound, Grows
  <2>3. r.pc \in {"readRow", "deactivate"} => RowSound(w, r.row, r.target, r.amount)'
    BY <1>4, <1>5, <2>1 DEF RequestSound
  <2>4. r.pc = "consume" => \A i \in DOMAIN r.todo : RowSound(w, i, r.target, r.todo[i])'
    BY <1>4, <1>5, <2>1 DEF RequestSound
  <2>5. QED
    BY <1>5, <2>2, <2>3, <2>4 DEF RequestSound, Me
<1>6. QED
  BY <1>2, <1>4, <1>5

LEMMA RequestTyped ==
  ASSUME Shapes, NEW w \in Tabs
  PROVE  /\ tab[w] \in Requests /\ tab[w].pc \in PCs /\ tab[w].target \in Targets
         /\ tab[w].amount \in Nat /\ tab[w].todo \in Todos /\ tab[w].sig \in Nat
         /\ Me(w) \in Users
BY TabsHaveUsers DEF Shapes, Requests, Me

-----------------------------------------------------------------------------
(***************************************************************************)
(* Rows and deposits.                                                      *)
(***************************************************************************)
LEMMA InsertedRow ==
  ASSUME Sound, NEW w \in Tabs, Insert(w), ~ ViolatesUnique(tab[w].sig, tab[w].target)
  PROVE  /\ DOMAIN rows' = DOMAIN rows \cup {Len(rows) + 1} /\ Len(rows) + 1 \notin DOMAIN rows
         /\ \A i \in DOMAIN rows : rows'[i] = rows[i]
         /\ rows'[Len(rows) + 1] = [user |-> Me(w), target |-> tab[w].target,
                                    amount |-> tab[w].amount, sig |-> tab[w].sig, active |-> TRUE]
         /\ rows' \in Seq(Rows)
         /\ tab[w].sig \in DOMAIN deposits /\ tab[w].amount \in 1..MaxAmount
         /\ deposits[tab[w].sig] = [user |-> Me(w), target |-> tab[w].target, amount |-> tab[w].amount]
<1> DEFINE row == [user |-> Me(w), target |-> tab[w].target, amount |-> tab[w].amount,
                   sig |-> tab[w].sig, active |-> TRUE]
<1>1. rows' = Append(rows, row) /\ tab[w].pc = "insert"
  BY DEF Insert, At
<1>2. /\ tab[w].sig \in DOMAIN deposits
      /\ deposits[tab[w].sig] = [user |-> Me(w), target |-> tab[w].target, amount |-> tab[w].amount]
  BY <1>1 DEF Sound, RequestSound
<1>3. tab[w].sig \in 1..MaxDeposits
  <2>1. DOMAIN deposits = 1..Len(deposits) /\ Len(deposits) \in Nat /\ Len(deposits) <= MaxDeposits
    BY Contents DEF Sound, Shapes
  <2>2. MaxDeposits \in Nat
    BY LedgerBounds
  <2>3. QED
    BY <1>2, <2>1, <2>2
<1>4. tab[w].amount \in 1..MaxAmount
  <2>1. deposits[tab[w].sig] \in Deposits
    BY <1>2, Contents DEF Sound
  <2>2. QED
    BY <1>2, <2>1 DEF Deposits
<1>5. row \in Rows
  BY <1>3, <1>4, RequestTyped DEF Sound, Rows
<1>6. rows \in Seq(Rows)
  BY DEF Sound, Shapes
<1>7. row = [user |-> Me(w), target |-> tab[w].target,
             amount |-> tab[w].amount, sig |-> tab[w].sig, active |-> TRUE]
  OBVIOUS
<1> HIDE DEF row
<1>8. /\ rows' \in Seq(Rows) /\ Len(rows') = Len(rows) + 1
      /\ \A i \in 1..Len(rows) : rows'[i] = rows[i]
      /\ rows'[Len(rows) + 1] = row
  BY <1>1, <1>5, <1>6
<1>9. DOMAIN rows = 1..Len(rows) /\ DOMAIN rows' = 1..(Len(rows) + 1) /\ Len(rows) \in Nat
  BY <1>6, <1>8
<1>10. QED
  BY <1>2, <1>4, <1>7, <1>8, <1>9

LEMMA DeactivatedRow ==
  ASSUME Sound, NEW w \in Tabs, Deactivate(w)
  PROVE  /\ tab[w].row \in DOMAIN rows
         /\ rows[tab[w].row].user = Me(w) /\ rows[tab[w].row].target = tab[w].target
         /\ rows[tab[w].row].amount \in Int /\ rows[tab[w].row].amount <= tab[w].amount
         /\ DOMAIN rows' = DOMAIN rows /\ rows' \in Seq(Rows)
         /\ rows'[tab[w].row] = [rows[tab[w].row] EXCEPT !.active = FALSE]
         /\ \A j \in DOMAIN rows \ {tab[w].row} : rows'[j] = rows[j]
<1>1. tab[w].pc = "deactivate" /\ rows' = [rows EXCEPT ![tab[w].row].active = FALSE]
  BY DEF Deactivate, At
<1>2. RowSound(w, tab[w].row, tab[w].target, tab[w].amount)
  BY <1>1 DEF Sound, RequestSound
<1>3. /\ tab[w].row \in DOMAIN rows /\ rows \in Seq(Rows) /\ rows[tab[w].row] \in Rows
  BY <1>2, Contents DEF RowSound, Sound, Shapes
<1> DEFINE i == tab[w].row
           row == [rows[i] EXCEPT !.active = FALSE]
<1>4. row \in Rows
  BY <1>3 DEF Rows
<1>5. rows' = [rows EXCEPT ![i] = row]
  BY <1>1
<1>6. row = [rows[i] EXCEPT !.active = FALSE]
  OBVIOUS
<1>7. rows[i].amount \in Int
  BY <1>3 DEF Rows
<1> HIDE DEF i, row
<1>8. rows' \in Seq(Rows) /\ DOMAIN rows' = DOMAIN rows /\ rows'[i] = row
      /\ \A j \in DOMAIN rows \ {i} : rows'[j] = rows[j]
  BY <1>3, <1>4, <1>5 DEF i
<1>9. QED
  BY <1>2, <1>3, <1>6, <1>7, <1>8 DEF i, RowSound

\* One step through the rows: the oldest is used up or reduced.
LEMMA ConsumedRow ==
  ASSUME Sound, NEW w \in Tabs, Consume(w), NEW i, i = Oldest(tab[w].todo),
         NEW full, full = UsedUp(tab[w].todo[i], tab[w].amount)
  PROVE  /\ i \in DOMAIN tab[w].todo /\ i \in DOMAIN rows /\ tab[w].todo[i] \in Int
         /\ tab[w].amount \in Nat \ {0}
         /\ rows[i].user = Me(w) /\ rows[i].target = tab[w].target /\ rows[i].amount \in Int
         /\ DOMAIN rows' = DOMAIN rows /\ rows' \in Seq(Rows)
         /\ rows'[i] = IF full THEN [rows[i] EXCEPT !.active = FALSE]
                               ELSE [rows[i] EXCEPT !.amount = rows[i].amount - tab[w].amount]
         /\ \A j \in DOMAIN rows \ {i} : rows'[j] = rows[j]
<1>1. /\ tab[w].pc = "consume" /\ DOMAIN tab[w].todo # {} /\ tab[w].amount > 0
      /\ rows' = IF full THEN [rows EXCEPT ![i].active = FALSE]
                         ELSE [rows EXCEPT ![i].amount = @ - tab[w].amount]
  BY DEF Consume, At
<1>2. tab[w].todo \in Todos /\ tab[w].amount \in Nat
  BY RequestTyped DEF Sound
<1>3. i \in DOMAIN tab[w].todo /\ i \in DOMAIN rows /\ tab[w].todo[i] \in Int
  BY <1>1, <1>2, OldestIsIn DEF Sound
<1>4. RowSound(w, i, tab[w].target, tab[w].todo[i])
  BY <1>1, <1>3 DEF Sound, RequestSound
<1>5. rows[i] \in Rows /\ rows \in Seq(Rows) /\ rows[i].amount \in Int
  <2>1. rows[i] \in Rows /\ rows \in Seq(Rows)
    BY <1>3, Contents DEF Sound, Shapes
  <2>2. QED
    BY <2>1 DEF Rows
<1> DEFINE row == IF full THEN [rows[i] EXCEPT !.active = FALSE]
                         ELSE [rows[i] EXCEPT !.amount = rows[i].amount - tab[w].amount]
<1>6. row \in Rows
  <2>1. [rows[i] EXCEPT !.active = FALSE] \in Rows
    BY <1>5 DEF Rows
  <2>2. rows[i].amount - tab[w].amount \in Int
    BY <1>2, <1>5
  <2>3. \A x \in Int : [rows[i] EXCEPT !.amount = x] \in Rows
    BY <1>5 DEF Rows
  <2>4. QED
    BY <2>1, <2>2, <2>3
<1>7. rows' = [rows EXCEPT ![i] = row]
  BY <1>1
<1>8. row = IF full THEN [rows[i] EXCEPT !.active = FALSE]
                    ELSE [rows[i] EXCEPT !.amount = rows[i].amount - tab[w].amount]
  OBVIOUS
<1> HIDE DEF row
<1>9. rows' \in Seq(Rows) /\ DOMAIN rows' = DOMAIN rows /\ rows'[i] = row
      /\ \A j \in DOMAIN rows \ {i} : rows'[j] = rows[j]
  BY <1>3, <1>5, <1>6, <1>7
<1>10. QED
  BY <1>1, <1>2, <1>3, <1>4, <1>5, <1>8, <1>9 DEF RowSound

LEMMA StakedDeposit ==
  ASSUME Sound, NEW w \in Tabs, NEW t \in Targets, NEW x \in 1..MaxAmount, Stake(w, t, x)
  PROVE  /\ DOMAIN deposits' = DOMAIN deposits \cup {Len(deposits) + 1}
         /\ Len(deposits) + 1 \notin DOMAIN deposits
         /\ \A s \in DOMAIN deposits : deposits'[s] = deposits[s]
         /\ deposits'[Len(deposits) + 1] = [user |-> Me(w), target |-> t, amount |-> x]
         /\ deposits' \in Seq(Deposits) /\ Len(deposits') <= MaxDeposits
<1> DEFINE d == [user |-> Me(w), target |-> t, amount |-> x]
<1>1. deposits' = Append(deposits, d) /\ Len(deposits) < MaxDeposits
  BY DEF Stake
<1>2. d \in Deposits
  BY RequestTyped DEF Deposits, Sound
<1>3. deposits \in Seq(Deposits) /\ MaxDeposits \in Nat
  BY LedgerBounds DEF Sound, Shapes
<1>4. d = [user |-> Me(w), target |-> t, amount |-> x]
  OBVIOUS
<1> HIDE DEF d
<1>5. /\ deposits' \in Seq(Deposits) /\ Len(deposits') = Len(deposits) + 1
      /\ \A i \in 1..Len(deposits) : deposits'[i] = deposits[i]
      /\ deposits'[Len(deposits) + 1] = d
  BY <1>1, <1>2, <1>3
<1>6. /\ DOMAIN deposits = 1..Len(deposits) /\ DOMAIN deposits' = 1..(Len(deposits) + 1)
      /\ Len(deposits) \in Nat
  BY <1>3, <1>5
<1>7. QED
  BY <1>1, <1>3, <1>4, <1>5, <1>6

\* The actions of one tab that touch neither rows nor deposits.
RowsAlone(w) ==
  \/ \E s \in DOMAIN deposits : Resend(w, s)
  \/ Poll(w) \/ WithdrawShown(w) \/ (\E t \in Targets, x \in 1..MaxAmount : WithdrawPart(w, t, x))
  \/ CheckSig(w) \/ ReadRow(w) \/ ReadRows(w) \/ RefusePart(w) \/ Covered(w)
  \/ SumTag(w) \/ SaveTag(w) \/ SumVotes(w) \/ CountVotes(w) \/ SumStakes(w) \/ SaveApp(w)
  \/ Abort(w)

LEMMA RowsAloneUnchanged ==
  ASSUME NEW w \in Tabs, RowsAlone(w)
  PROVE  UNCHANGED <<rows, deposits>>
BY DEF RowsAlone, Resend, Poll, WithdrawShown, WithdrawPart, CheckSig, ReadRow, ReadRows, RefusePart,
       Covered, SumTag, SaveTag, SumVotes, CountVotes, SumStakes, SaveApp, Abort

LEMMA TabSteps ==
  ASSUME NEW w \in Tabs, Browser(w) \/ Handler(w) \/ Abort(w)
  PROVE  \/ RowsAlone(w)
         \/ \E t \in Targets, x \in 1..MaxAmount : Stake(w, t, x)
         \/ Insert(w) \/ Deactivate(w) \/ Consume(w)
BY DEF RowsAlone, Browser, Handler

\* Rows and deposits in every step.
LEMMA StepGrows ==
  ASSUME Sound, [Next]_vars
  PROVE  Grows /\ rows' \in Seq(Rows) /\ deposits' \in Seq(Deposits) /\ Len(deposits') <= MaxDeposits
<1>1. \A i \in DOMAIN rows : rows[i].amount \in Int
  BY Contents DEF Sound, Rows
<1>2. ASSUME UNCHANGED rows
      PROVE  /\ DOMAIN rows \subseteq DOMAIN rows' /\ rows' \in Seq(Rows)
             /\ \A i \in DOMAIN rows :
                  /\ rows'[i].user = rows[i].user /\ rows'[i].target = rows[i].target
                  /\ rows'[i].sig = rows[i].sig /\ rows'[i].amount <= rows[i].amount
  BY <1>1, <1>2 DEF Sound, Shapes
<1>3. ASSUME UNCHANGED deposits
      PROVE  /\ DOMAIN deposits \subseteq DOMAIN deposits'
             /\ \A s \in DOMAIN deposits : deposits'[s] = deposits[s]
             /\ deposits' \in Seq(Deposits) /\ Len(deposits') <= MaxDeposits
  BY <1>3 DEF Sound, Shapes
<1>4. CASE UNCHANGED <<rows, deposits>>
  BY <1>2, <1>3, <1>4 DEF Grows
<1>a. ASSUME NEW i, DOMAIN rows \subseteq DOMAIN rows',
             \A j \in DOMAIN rows \ {i} : rows'[j] = rows[j],
             i \in DOMAIN rows =>
               /\ rows'[i].user = rows[i].user /\ rows'[i].target = rows[i].target
               /\ rows'[i].sig = rows[i].sig /\ rows'[i].amount <= rows[i].amount,
             UNCHANGED deposits
      PROVE  Grows /\ deposits' \in Seq(Deposits) /\ Len(deposits') <= MaxDeposits
  <2>1. ASSUME NEW j \in DOMAIN rows
        PROVE  /\ rows'[j].user = rows[j].user /\ rows'[j].target = rows[j].target
               /\ rows'[j].sig = rows[j].sig /\ rows'[j].amount <= rows[j].amount
    <3>1. CASE j = i
      BY <1>a, <3>1
    <3>2. CASE j # i
      <4>1. rows'[j] = rows[j]
        BY <1>a, <3>2
      <4>2. rows[j].amount \in Int
        BY <1>1
      <4>3. rows[j].amount <= rows[j].amount
        BY <4>2
      <4>4. QED
        BY <4>1, <4>3
    <3>3. QED
      BY <3>1, <3>2
  <2>2. QED
    BY <1>3, <1>a, <2>1 DEF Grows
<1>5. ASSUME NEW w \in Tabs, Browser(w) \/ Handler(w) \/ Abort(w)
      PROVE  Grows /\ rows' \in Seq(Rows) /\ deposits' \in Seq(Deposits) /\ Len(deposits') <= MaxDeposits
  <2>1. CASE RowsAlone(w)
    BY <1>4, <2>1, RowsAloneUnchanged
  <2>2. ASSUME NEW t \in Targets, NEW x \in 1..MaxAmount, Stake(w, t, x)
        PROVE  Grows /\ rows' \in Seq(Rows) /\ deposits' \in Seq(Deposits) /\ Len(deposits') <= MaxDeposits
    <3>1. UNCHANGED rows
      BY <2>2 DEF Stake
    <3>2. QED
      BY <1>2, <2>2, <3>1, StakedDeposit DEF Grows
  <2>3. CASE Insert(w)
    <3>1. UNCHANGED deposits
      BY <2>3 DEF Insert
    <3>2. CASE ViolatesUnique(tab[w].sig, tab[w].target)
      BY <1>4, <2>3, <3>1, <3>2 DEF Insert
    <3>3. CASE ~ ViolatesUnique(tab[w].sig, tab[w].target)
      <4>1. /\ DOMAIN rows \subseteq DOMAIN rows' /\ rows' \in Seq(Rows)
            /\ \A i \in DOMAIN rows : rows'[i] = rows[i]
            /\ Len(rows) + 1 \notin DOMAIN rows
        BY <2>3, <3>3, InsertedRow
      <4>2. QED
        BY <1>a, <3>1, <4>1
    <3>4. QED
      BY <3>2, <3>3
  <2>4. CASE Deactivate(w)
    <3> DEFINE i == tab[w].row
    <3>1. UNCHANGED deposits
      BY <2>4 DEF Deactivate
    <3>2. /\ i \in DOMAIN rows /\ DOMAIN rows' = DOMAIN rows /\ rows' \in Seq(Rows)
          /\ rows'[i] = [rows[i] EXCEPT !.active = FALSE]
          /\ \A j \in DOMAIN rows \ {i} : rows'[j] = rows[j]
      BY <2>4, DeactivatedRow
    <3>3. rows[i] \in Rows
      BY <3>2, Contents DEF Sound
    <3> HIDE DEF i
    <3>4. /\ rows'[i].user = rows[i].user /\ rows'[i].target = rows[i].target
          /\ rows'[i].sig = rows[i].sig /\ rows'[i].amount <= rows[i].amount
      BY <1>1, <3>2, <3>3 DEF Rows
    <3>5. QED
      BY <1>a, <3>1, <3>2, <3>4
  <2>5. CASE Consume(w)
    <3>1. UNCHANGED deposits
      BY <2>5 DEF Consume
    <3>2. PICK i, full : i = Oldest(tab[w].todo) /\ full = UsedUp(tab[w].todo[i], tab[w].amount)
      OBVIOUS
    <3>3. /\ i \in DOMAIN rows /\ DOMAIN rows' = DOMAIN rows /\ rows' \in Seq(Rows)
          /\ rows'[i] = IF full THEN [rows[i] EXCEPT !.active = FALSE]
                                ELSE [rows[i] EXCEPT !.amount = rows[i].amount - tab[w].amount]
          /\ \A j \in DOMAIN rows \ {i} : rows'[j] = rows[j]
          /\ tab[w].amount \in Nat
      BY <2>5, <3>2, ConsumedRow
    <3>4. rows[i] \in Rows
      BY <3>3, Contents DEF Sound
    <3>5. /\ rows'[i].user = rows[i].user /\ rows'[i].target = rows[i].target
          /\ rows'[i].sig = rows[i].sig /\ rows'[i].amount <= rows[i].amount
      BY <1>1, <3>3, <3>4 DEF Rows
    <3>6. QED
      BY <1>a, <3>1, <3>3, <3>5
  <2>6. QED
    BY <1>5, <2>1, <2>2, <2>3, <2>4, <2>5, TabSteps
<1>6. CASE Restart \/ UNCHANGED vars
  BY <1>4, <1>6 DEF Restart, vars
<1>7. QED
  BY <1>5, <1>6 DEF Next

-----------------------------------------------------------------------------
(***************************************************************************)
(* The request a step leaves its tab with.                                 *)
(***************************************************************************)
LEMMA RowSums ==
  ASSUME Shapes, NEW R, R \subseteq DOMAIN rows
  PROVE  /\ IsFiniteSet(R) /\ Cardinality(R) \in Nat
         /\ SumOfRows(R) \in Int
         /\ \A i \in R : amountOf[i] = rows[i].amount /\ rows[i].amount \in Int
<1>1. IsFiniteSet(DOMAIN rows)
  BY Contents, FS_Interval
<1>2. IsFiniteSet(R) /\ Cardinality(R) \in Nat
  BY <1>1, FS_Subset, FS_CardinalityType
<1>3. \A i \in R : amountOf[i] = rows[i].amount /\ rows[i].amount \in Int
  BY Contents DEF amountOf, Rows
<1>4. SumFunctionOnSet(amountOf, R) \in Int
  <2> DEFINE f == amountOf
  <2>1. \A i \in R : f[i] \in Int
    BY <1>3
  <2> HIDE DEF f
  <2>2. SumFunctionOnSet(f, R) \in Int
    BY <1>2, <2>1, SumIsInt
  <2>3. QED
    BY <2>2 DEF f
<1>5. QED
  BY <1>2, <1>3, <1>4 DEF SumOfRows

LEMMA ActiveRowsAreRows ==
  /\ Active \subseteq DOMAIN rows
  /\ \A u, t : ActiveOf(u, t) \subseteq DOMAIN rows
  /\ \A T : ActiveOn(T) \subseteq DOMAIN rows
BY DEF Active, ActiveOf, ActiveOn

\* What a tab does in the browser leaves it with a sound request.
LEMMA BrowserRequest ==
  ASSUME Sound, Grows, rows' \in Seq(Rows), NEW w \in Tabs, Browser(w)
  PROVE  \E r \in Requests' : tab' = [tab EXCEPT ![w] = r] /\ RequestSound(w, r)'
<1>1. /\ tab[w] \in Requests /\ RequestSound(w, tab[w]) /\ ShownSound(w) /\ Me(w) \in Users
      /\ tab \in [Tabs -> Requests] /\ shown[w] \in {None} \cup ShownRows
  BY RequestTyped DEF Sound, Shapes
<1>3. ASSUME NEW r \in Requests, tab' = [tab EXCEPT ![w] = r], RequestSound(w, r)
      PROVE  \E q \in Requests' : tab' = [tab EXCEPT ![w] = q] /\ RequestSound(w, q)'
  BY <1>3, RequestsPersist DEF Sound
<1>4. ASSUME NEW t \in Targets, NEW x \in 1..MaxAmount, Stake(w, t, x)
      PROVE  \E r \in Requests' : tab' = [tab EXCEPT ![w] = r] /\ RequestSound(w, r)'
  <2> DEFINE r == [Idle EXCEPT !.pc = "create", !.target = t, !.amount = x,
                               !.sig = Len(deposits) + 1]
  <2>1. tab' = [tab EXCEPT ![w] = r]
    BY <1>4 DEF Stake, Send
  <2>2. Len(deposits) + 1 \in Nat /\ x \in Nat
    BY Contents, LedgerBounds DEF Sound
  <2>3. /\ r \in Requests
        /\ r.pc = "create" /\ r.sig = Len(deposits) + 1 /\ r.target = t /\ r.amount = x
    BY <2>2, IdleSound DEF Requests, PCs
  <2>4. r \in Requests
    BY <2>3
  <2>5. r \in Requests'
    BY <2>4, RequestsPersist DEF Sound
  <2>6. /\ Len(deposits) + 1 \in DOMAIN deposits'
        /\ deposits'[Len(deposits) + 1] = [user |-> Me(w), target |-> t, amount |-> x]
    BY <1>4, StakedDeposit
  <2> HIDE DEF r
  <2>8. \A q : q = r => RequestSound(w, q)'
    BY <2>3, <2>6 DEF RequestSound, Me
  <2>9. QED
    BY <2>1, <2>5, <2>8
<1>5. ASSUME NEW s \in DOMAIN deposits, Resend(w, s)
      PROVE  \E r \in Requests' : tab' = [tab EXCEPT ![w] = r] /\ RequestSound(w, r)'
  <2> DEFINE r == [Idle EXCEPT !.pc = "create", !.target = deposits[s].target,
                               !.amount = deposits[s].amount, !.sig = s]
  <2>1. tab' = [tab EXCEPT ![w] = r] /\ deposits[s].user = Me(w)
    BY <1>5 DEF Resend, Send
  <2>2. deposits[s] \in Deposits /\ s \in Nat
    BY Contents DEF Sound
  <2>3. deposits[s].target \in Targets /\ deposits[s].amount \in Nat
    BY <2>2, LedgerBounds DEF Deposits
  <2>4. /\ r \in Requests
        /\ r.pc = "create" /\ r.sig = s /\ r.target = deposits[s].target /\ r.amount = deposits[s].amount
    BY <2>2, <2>3, IdleSound DEF Requests, PCs
  <2>5. RequestSound(w, r)
    BY <2>1, <2>2, <2>4 DEF RequestSound, Deposits
  <2> HIDE DEF r
  <2>6. QED
    BY <1>3, <2>1, <2>4, <2>5
<1>6. CASE Poll(w)
  <2>1. tab' = [tab EXCEPT ![w] = tab[w]]
    BY <1>1, <1>6 DEF Poll
  <2>2. QED
    BY <1>1, <1>3, <2>1
<1>7. CASE WithdrawShown(w)
  <2> DEFINE r == [Idle EXCEPT !.pc = "readRow", !.target = shown[w].target,
                               !.row = shown[w].row, !.amount = shown[w].amount]
  <2>1. tab' = [tab EXCEPT ![w] = r] /\ shown[w] # None /\ shown[w].amount > 0
    BY <1>7 DEF WithdrawShown, Send, Unlock
  <2>2. shown[w] \in ShownRows
    BY <1>1, <2>1
  <2>4. shown[w].amount \in Nat /\ shown[w].row \in Nat /\ shown[w].target \in Targets
    BY <2>1, <2>2 DEF ShownRows
  <2>5. /\ r \in Requests
        /\ r.pc = "readRow" /\ r.target = shown[w].target /\ r.row = shown[w].row
        /\ r.amount = shown[w].amount
    BY <2>4, IdleSound DEF Requests, PCs
  <2>6. RequestSound(w, r)
    BY <1>1, <2>1, <2>5 DEF RequestSound, ShownSound
  <2> HIDE DEF r
  <2>7. QED
    BY <1>3, <2>1, <2>5, <2>6
<1>8. ASSUME NEW t \in Targets, NEW x \in 1..MaxAmount, WithdrawPart(w, t, x)
      PROVE  \E r \in Requests' : tab' = [tab EXCEPT ![w] = r] /\ RequestSound(w, r)'
  <2> DEFINE r == [Idle EXCEPT !.pc = "readRows", !.target = t, !.amount = x]
  <2>1. tab' = [tab EXCEPT ![w] = r]
    BY <1>8 DEF WithdrawPart, Send
  <2>2. x \in Nat
    BY LedgerBounds
  <2>3. r \in Requests /\ r.pc = "readRows"
    BY <2>2, IdleSound DEF Requests, PCs
  <2>4. RequestSound(w, r)
    BY <2>3 DEF RequestSound
  <2> HIDE DEF r
  <2>5. QED
    BY <1>3, <2>1, <2>3, <2>4
<1>9. QED
  BY <1>4, <1>5, <1>6, <1>7, <1>8 DEF Browser

\* So does a statement of a handler, and its failure.
LEMMA HandlerRequest ==
  ASSUME Sound, Grows, rows' \in Seq(Rows), NEW w \in Tabs, Handler(w) \/ Abort(w)
  PROVE  \E r \in Requests' : tab' = [tab EXCEPT ![w] = r] /\ RequestSound(w, r)'
<1> DEFINE q == tab[w]
<1>1. /\ q \in Requests /\ RequestSound(w, q) /\ tab \in [Tabs -> Requests]
      /\ q.target \in Targets /\ q.amount \in Nat /\ q.todo \in Todos
  BY RequestTyped DEF Sound, Shapes
<1>2. ASSUME NEW r \in Requests, tab' = [tab EXCEPT ![w] = r], RequestSound(w, r)
      PROVE  \E p \in Requests' : tab' = [tab EXCEPT ![w] = p] /\ RequestSound(w, p)'
  BY <1>2, RequestsPersist DEF Sound
<1>3. CASE tab' = [tab EXCEPT ![w] = Idle]
  BY <1>2, <1>3, IdleSound
<1>4. CASE Refresh(w)
  <2>1. tab' = [tab EXCEPT ![w] = Refreshing(q.target)]
    BY <1>4 DEF Refresh, Refreshing
  <2>2. QED
    BY <1>1, <1>2, <2>1, RefreshSound
<1>5. ASSUME NEW pc \in PCs, tab' = [tab EXCEPT ![w].pc = pc],
             RequestSound(w, [q EXCEPT !.pc = pc])
      PROVE  \E p \in Requests' : tab' = [tab EXCEPT ![w] = p] /\ RequestSound(w, p)'
  <2>1. tab' = [tab EXCEPT ![w] = [q EXCEPT !.pc = pc]]
    BY <1>1, <1>5
  <2>2. [q EXCEPT !.pc = pc] \in Requests
    BY <1>1 DEF Requests
  <2>3. QED
    BY <1>2, <1>5, <2>1, <2>2
<1>6. CASE CheckSig(w)
  <2>1. q.pc = "create" /\ (tab' = [tab EXCEPT ![w] = Idle] \/ Goto(w, "insert"))
    BY <1>6 DEF CheckSig, At
  <2>2. RequestSound(w, [q EXCEPT !.pc = "insert"])
    BY <1>1, <2>1 DEF RequestSound, Requests
  <2>3. QED
    BY <1>3, <1>5, <2>1, <2>2 DEF Goto, PCs
<1>7. CASE Insert(w)
  BY <1>3, <1>4, <1>7 DEF Insert
<1>8. CASE ReadRow(w)
  <2>1. q.pc = "readRow" /\ (tab' = [tab EXCEPT ![w] = Idle] \/ Goto(w, "deactivate"))
    BY <1>8 DEF ReadRow, At, GiveUp
  <2>2. RequestSound(w, [q EXCEPT !.pc = "deactivate"])
    BY <1>1, <2>1 DEF RequestSound, Requests
  <2>3. QED
    BY <1>3, <1>5, <2>1, <2>2 DEF Goto, PCs
<1>9. CASE Deactivate(w)
  BY <1>4, <1>9 DEF Deactivate
<1>10. CASE ReadRows(w)
  <2> DEFINE todo == RowsToConsume(Me(w), q.target)
             r == [q EXCEPT !.pc = "consume", !.todo = todo]
  <2>1. tab' = [tab EXCEPT ![w] = r]
    BY <1>1, <1>10 DEF ReadRows
  <2>2. todo \in Todos /\ \A i \in DOMAIN todo : RowSound(w, i, q.target, todo[i])
    <3>1. /\ todo \in Todos /\ DOMAIN todo = ActiveOf(Me(w), q.target)
          /\ \A i \in ActiveOf(Me(w), q.target) : todo[i] = rows[i].amount
          /\ \A i \in ActiveOf(Me(w), q.target) : RowSound(w, i, q.target, rows[i].amount)
      BY TodoRead DEF Sound
    <3> HIDE DEF todo
    <3>2. QED
      BY <3>1
  <2> HIDE DEF todo
  <2>3. r \in Requests /\ r.pc = "consume" /\ r.todo = todo /\ r.target = q.target
    BY <1>1, <2>2 DEF Requests, PCs
  <2>4. RequestSound(w, r)
    BY <2>2, <2>3 DEF RequestSound
  <2>5. QED
    BY <1>2, <2>1, <2>3, <2>4
<1>11. CASE Consume(w)
  <2>1. PICK i, full : i = Oldest(q.todo) /\ full = UsedUp(q.todo[i], q.amount)
    OBVIOUS
  <2> DEFINE todo == Restrict(q.todo, DOMAIN q.todo \ {i})
             x == IF full THEN q.amount - q.todo[i] ELSE 0
             r == [q EXCEPT !.todo = todo, !.amount = x]
  <2>2. q.pc = "consume" /\ DOMAIN q.todo # {}
        /\ tab' = [tab EXCEPT ![w].todo = todo, ![w].amount = x]
    BY <1>11, <2>1 DEF Consume, At
  <2>3. tab' = [tab EXCEPT ![w] = r]
    BY <1>1, <2>2
  <2>4. /\ q.todo[i] \in Int /\ todo \in Todos /\ DOMAIN todo = DOMAIN q.todo \ {i}
        /\ \A j \in DOMAIN q.todo \ {i} : todo[j] = q.todo[j]
    BY <1>1, <2>1, <2>2, OldestIsIn DEF Sound
  <2>5. x \in Nat
    <3>1. CASE full
      <4>1. q.todo[i] <= q.amount
        BY <2>1, <3>1 DEF UsedUp
      <4>2. q.amount - q.todo[i] \in Nat
        BY <1>1, <2>4, <4>1
      <4>3. QED
        BY <3>1, <4>2
    <3>2. CASE ~ full
      BY <3>2
    <3>3. QED
      BY <3>1, <3>2
  <2> HIDE DEF todo, x
  <2>6. r \in Requests /\ r.pc = "consume" /\ r.todo = todo /\ r.target = q.target
    BY <1>1, <2>2, <2>4, <2>5 DEF Requests
  <2>7. \A j \in DOMAIN todo : RowSound(w, j, q.target, todo[j])
    BY <1>1, <2>2, <2>4 DEF RequestSound
  <2>8. RequestSound(w, r)
    BY <2>6, <2>7 DEF RequestSound
  <2>9. QED
    BY <1>2, <2>3, <2>6, <2>8
<1>12. CASE RefusePart(w) \/ Abort(w) \/ SaveApp(w)
  BY <1>3, <1>12 DEF RefusePart, Abort, SaveApp, GiveUp
<1>13. CASE Covered(w)
  BY <1>4, <1>13 DEF Covered
<1>14. SumOfRows(ActiveOn({q.target})) \in Int /\ SumOfRows(ActiveOn({VoteTarget})) \in Int
       /\ SumOfRows(ActiveOn(Tags)) \in Int /\ Cardinality(ActiveOn({VoteTarget})) \in Nat
  BY RowSums, ActiveRowsAreRows DEF Sound
<1>15. CASE SumTag(w)
  <2> DEFINE x == SumOfRows(ActiveOn({q.target}))
             r == [q EXCEPT !.pc = "saveTag", !.stakes = x]
  <2>1. tab' = [tab EXCEPT ![w] = r] /\ q.pc = "sumTag"
    BY <1>1, <1>15 DEF SumTag, At
  <2> HIDE DEF x
  <2>2. x \in Int
    BY <1>14 DEF x
  <2>3. r \in Requests /\ r.pc = "saveTag" /\ r.target = q.target
    BY <1>1, <2>2 DEF Requests, PCs
  <2>4. RequestSound(w, r)
    BY <1>1, <2>1, <2>3 DEF RequestSound
  <2>5. QED
    BY <1>2, <2>1, <2>3, <2>4
<1>16. ASSUME NEW r \in Requests, tab' = [tab EXCEPT ![w] = r],
              r.pc \in {"sumVotes", "countVotes", "sumStakes", "saveApp"}
       PROVE  \E p \in Requests' : tab' = [tab EXCEPT ![w] = p] /\ RequestSound(w, p)'
  <2>1. RequestSound(w, r)
    BY <1>16 DEF RequestSound
  <2>2. QED
    BY <1>2, <1>16, <2>1
<1>17. CASE SaveTag(w)
  <2> DEFINE x == 0
             r == [q EXCEPT !.pc = "sumVotes", !.stakes = x]
  <2>1. tab' = [tab EXCEPT ![w] = r]
    BY <1>1, <1>17 DEF SaveTag
  <2>2. x \in Int
    OBVIOUS
  <2> HIDE DEF x
  <2>3. r \in Requests /\ r.pc = "sumVotes"
    BY <1>1, <2>2 DEF Requests, PCs
  <2>4. QED
    BY <1>16, <2>1, <2>3
<1>18. CASE SumVotes(w)
  <2> DEFINE x == SumOfRows(ActiveOn({VoteTarget}))
             r == [q EXCEPT !.pc = "countVotes", !.weight = x]
  <2>1. tab' = [tab EXCEPT ![w] = r]
    BY <1>1, <1>18 DEF SumVotes
  <2> HIDE DEF x
  <2>2. x \in Int
    BY <1>14 DEF x
  <2>3. r \in Requests /\ r.pc = "countVotes"
    BY <1>1, <2>2 DEF Requests, PCs
  <2>4. QED
    BY <1>16, <2>1, <2>3
<1>19. CASE CountVotes(w)
  <2> DEFINE x == Cardinality(ActiveOn({VoteTarget}))
             r == [q EXCEPT !.pc = "sumStakes", !.count = x]
  <2>1. tab' = [tab EXCEPT ![w] = r]
    BY <1>1, <1>19 DEF CountVotes
  <2> HIDE DEF x
  <2>2. x \in Nat
    BY <1>14 DEF x
  <2>3. r \in Requests /\ r.pc = "sumStakes"
    BY <1>1, <2>2 DEF Requests, PCs
  <2>4. QED
    BY <1>16, <2>1, <2>3
<1>20. CASE SumStakes(w)
  <2> DEFINE x == SumOfRows(ActiveOn(Tags))
             r == [q EXCEPT !.pc = "saveApp", !.stakes = x]
  <2>1. tab' = [tab EXCEPT ![w] = r]
    BY <1>1, <1>20 DEF SumStakes
  <2> HIDE DEF x
  <2>2. x \in Int
    BY <1>14 DEF x
  <2>3. r \in Requests /\ r.pc = "saveApp"
    BY <1>1, <2>2 DEF Requests, PCs
  <2>4. QED
    BY <1>16, <2>1, <2>3
<1>21. QED
  BY <1>6, <1>7, <1>8, <1>9, <1>10, <1>11, <1>12, <1>13, <1>15, <1>17, <1>18, <1>19, <1>20 DEF Handler

-----------------------------------------------------------------------------
(***************************************************************************)
(* The rest of the state.                                                  *)
(***************************************************************************)
LEMMA UnappliedIsNat ==
  ASSUME Shapes, NEW w \in Tabs
  PROVE  Unapplied(tab[w]) \in Nat /\ unappliedOf[w] = Unapplied(tab[w])
BY RequestTyped DEF Unapplied, unappliedOf

LEMMA StakedIsInt ==
  ASSUME Shapes, NEW T, T \subseteq Targets, IsFiniteSet(T)
  PROVE  StakedOn(T) \in Int
<1> DEFINE S == Users \X T
           f == positionOf(T)
<1>1. IsFiniteSet(S)
  BY FinitelyMany, FS_Product
<1>2. \A ut \in S : f[ut] \in Int
  BY LedgerBounds DEF Shapes, positionOf
<1> HIDE DEF S, f
<1>3. SumFunctionOnSet(f, S) \in Int
  BY <1>1, <1>2, SumIsInt
<1>4. QED
  BY <1>3 DEF StakedOn, S, f

\* Positions never exceed their bound nor fall below zero.
LEMMA ChainTyped ==
  ASSUME Sound, [Next]_vars
  PROVE  chain' \in [Users -> [Targets -> 0..MaxAmount]]
<1>1. chain \in [Users -> [Targets -> 0..MaxAmount]] /\ MaxAmount \in Nat
  BY LedgerBounds DEF Sound, Shapes
<1>2. ASSUME NEW w \in Tabs, NEW t \in Targets, NEW y \in 0..MaxAmount,
             chain' = [chain EXCEPT ![Me(w)][t] = y]
      PROVE  chain' \in [Users -> [Targets -> 0..MaxAmount]]
  BY <1>1, <1>2, RequestTyped DEF Sound
<1>3. ASSUME NEW w \in Tabs, NEW t \in Targets, NEW x \in Int, Unlock(w, t, x)
      PROVE  chain' \in [Users -> [Targets -> 0..MaxAmount]]
  <2>1. /\ x > 0 /\ chain[Me(w)][t] >= x
        /\ chain' = [chain EXCEPT ![Me(w)][t] = chain[Me(w)][t] - x]
    BY <1>3 DEF Unlock
  <2>2. chain[Me(w)][t] \in 0..MaxAmount
    BY <1>1, RequestTyped DEF Sound
  <2>3. chain[Me(w)][t] - x \in 0..MaxAmount
    BY <1>1, <2>1, <2>2
  <2>4. QED
    BY <1>2, <2>1, <2>3
<1>4. ASSUME NEW w \in Tabs, NEW t \in Targets, NEW x \in 1..MaxAmount, Stake(w, t, x)
      PROVE  chain' \in [Users -> [Targets -> 0..MaxAmount]]
  <2>1. chain[Me(w)][t] \in 0..MaxAmount
    BY <1>1, RequestTyped DEF Sound
  <2>2. chain[Me(w)][t] + x \in 0..MaxAmount
    BY <1>1, <1>4, <2>1 DEF Stake
  <2>3. chain' = [chain EXCEPT ![Me(w)][t] = chain[Me(w)][t] + x]
    BY <1>4 DEF Stake
  <2>4. QED
    BY <1>2, <2>2, <2>3
<1>5. ASSUME NEW w \in Tabs, WithdrawShown(w)
      PROVE  chain' \in [Users -> [Targets -> 0..MaxAmount]]
  <2>1. shown[w] # None /\ Unlock(w, shown[w].target, shown[w].amount)
    BY <1>5 DEF WithdrawShown
  <2>2. shown[w].target \in Targets /\ shown[w].amount \in Int
    BY <2>1 DEF Sound, Shapes, ShownRows
  <2>3. QED
    BY <1>3, <2>1, <2>2
<1>6. ASSUME NEW w \in Tabs, NEW t \in Targets, NEW x \in 1..MaxAmount, WithdrawPart(w, t, x)
      PROVE  chain' \in [Users -> [Targets -> 0..MaxAmount]]
  <2>1. Unlock(w, t, x) /\ x \in Int
    BY <1>6 DEF WithdrawPart
  <2>2. QED
    BY <1>3, <2>1
<1>7. CASE UNCHANGED chain
  BY <1>1, <1>7
<1>8. QED
  BY <1>4, <1>5, <1>6, <1>7
  DEF Next, vars, Browser, Handler, Restart, Resend, Poll, CheckSig, Insert, ReadRow, Deactivate,
      ReadRows, Consume, RefusePart, Covered, SumTag, SaveTag, SumVotes, CountVotes, SumStakes,
      SaveApp, Abort

\* What is missed only ever grows.
LEMMA MissedTyped ==
  ASSUME Sound, [Next]_vars
  PROVE  missed' \in [Users -> [Targets -> Nat]]
<1>1. missed \in [Users -> [Targets -> Nat]]
  BY DEF Sound, Shapes
<1>2. ASSUME NEW w \in Tabs, NEW x \in Nat,
             missed' = [missed EXCEPT ![Me(w)][tab[w].target] = missed[Me(w)][tab[w].target] + x]
      PROVE  missed' \in [Users -> [Targets -> Nat]]
  <2>1. Me(w) \in Users /\ tab[w].target \in Targets
    BY RequestTyped DEF Sound
  <2>2. missed[Me(w)][tab[w].target] + x \in Nat
    BY <1>1, <2>1
  <2>3. QED
    BY <1>1, <1>2, <2>1, <2>2
<1>3. ASSUME NEW w \in Tabs, ReadRow(w) \/ RefusePart(w) \/ Abort(w)
      PROVE  missed' \in [Users -> [Targets -> Nat]]
  <2>1. UNCHANGED missed \/ GiveUp(w, tab[w].amount) \/ GiveUp(w, Unapplied(tab[w]))
    BY <1>3 DEF ReadRow, RefusePart, Abort
  <2>2. tab[w].amount \in Nat /\ Unapplied(tab[w]) \in Nat
    BY RequestTyped, UnappliedIsNat DEF Sound
  <2>3. QED
    BY <1>1, <1>2, <2>1, <2>2 DEF GiveUp
<1>4. ASSUME NEW w \in Tabs, Deactivate(w)
      PROVE  missed' \in [Users -> [Targets -> Nat]]
  <2> DEFINE m == missed[Me(w)][tab[w].target]
             y == rows[tab[w].row].amount
  <2>1. missed' = [missed EXCEPT ![Me(w)][tab[w].target] = m + tab[w].amount - y]
    BY <1>4 DEF Deactivate
  <2>2. y \in Int /\ y <= tab[w].amount
    BY <1>4, DeactivatedRow
  <2>3. m \in Nat /\ tab[w].amount \in Nat
    BY <1>1, RequestTyped DEF Sound
  <2>4. tab[w].amount - y \in Nat /\ m + tab[w].amount - y = m + (tab[w].amount - y)
    BY <2>2, <2>3
  <2>5. QED
    BY <1>2, <2>1, <2>4
<1>5. CASE Restart
  <2> DEFINE dead == {w \in Tabs : tab[w].pc \notin {"idle", "create", "readRow", "readRows"}}
             lost(u, t) == SumFunctionOnSet(unappliedOf, dead \cap WithdrawingFrom(u, t))
             f == unappliedOf
  <2>1. missed' = [u \in Users |-> [t \in Targets |-> missed[u][t] + lost(u, t)]]
    BY <1>5 DEF Restart
  <2>2. ASSUME NEW u \in Users, NEW t \in Targets
        PROVE  lost(u, t) \in Nat
    <3> DEFINE D == dead \cap WithdrawingFrom(u, t)
    <3>1. D \subseteq Tabs
      OBVIOUS
    <3>2. IsFiniteSet(D)
      BY <3>1, FinitelyMany, FS_Subset
    <3>3. \A w \in D : f[w] \in Nat
      BY <3>1, UnappliedIsNat DEF Sound
    <3> HIDE DEF D, f
    <3>4. SumFunctionOnSet(f, D) \in Nat
      BY <3>2, <3>3, SumIsNat
    <3>5. QED
      BY <3>4 DEF D, f
  <2> HIDE DEF lost
  <2>3. \A u \in Users, t \in Targets : missed[u][t] + lost(u, t) \in Nat
    BY <1>1, <2>2
  <2>4. QED
    BY <2>1, <2>3
<1>6. CASE UNCHANGED missed
  BY <1>1, <1>6
<1>7. QED
  BY <1>3, <1>4, <1>5, <1>6, ZenonT(30)
  DEF Next, vars, Browser, Handler, Stake, WithdrawShown, WithdrawPart, Resend, Poll, CheckSig, Insert,
      ReadRows, Consume, Covered, SumTag, SaveTag, SumVotes, CountVotes, SumStakes, SaveApp

\* The cached totals and the bounds.
LEMMA CachesTyped ==
  ASSUME Sound, [Next]_vars
  PROVE  /\ app' \in [weight : Int, count : Nat, stakes : Int]
         /\ tagTotal' \in [Tags -> Int]
         /\ overlapped' \in [ever : BOOLEAN, now : SUBSET Tabs]
         /\ faults' \in 0..MaxFaults /\ resends' \in 0..MaxResends
<1>1. /\ app \in [weight : Int, count : Nat, stakes : Int]
      /\ tagTotal \in [Tags -> Int]
      /\ overlapped \in [ever : BOOLEAN, now : SUBSET Tabs]
      /\ faults \in 0..MaxFaults /\ resends \in 0..MaxResends
      /\ MaxFaults \in Nat /\ MaxResends \in Nat
  BY LedgerBounds DEF Sound, Shapes
<1>2. overlapped' \in [ever : BOOLEAN, now : SUBSET Tabs]
  <2>1. CASE UNCHANGED overlapped
    BY <1>1, <2>1
  <2>2. CASE overlapped' =
               [ever |-> overlapped.ever \/ Overlapping' # {},
                now |-> Overlapping' \cup {w \in overlapped.now : Serving(w)'}]
    <3>1. overlapped.ever \in BOOLEAN /\ overlapped.now \subseteq Tabs
      BY <1>1
    <3>2. Overlapping' \subseteq Tabs
      BY DEF Overlapping
    <3> DEFINE e == overlapped.ever \/ Overlapping' # {}
               n == Overlapping' \cup {w \in overlapped.now : Serving(w)'}
    <3>3. e \in BOOLEAN /\ n \in SUBSET Tabs
      BY <3>1, <3>2
    <3>4. overlapped' = [ever |-> e, now |-> n]
      BY <2>2
    <3> HIDE DEF e, n
    <3>5. QED
      BY <3>3, <3>4
  <2>3. QED
    BY <2>1, <2>2 DEF Next, vars
<1>3. /\ faults' \in {faults, faults + 1} /\ (faults' = faults \/ faults < MaxFaults)
      /\ resends' \in {resends, resends + 1} /\ (resends' = resends \/ resends < MaxResends)
  BY ZenonT(30) DEF Next, vars, Browser, Handler, Stake, WithdrawShown, WithdrawPart, Resend, Poll, CheckSig,
         Insert, ReadRow, Deactivate, RefusePart, ReadRows, Consume, Covered, SumTag, SaveTag, SumVotes,
         CountVotes, SumStakes, SaveApp, Abort, Restart
<1>4. faults' \in 0..MaxFaults /\ resends' \in 0..MaxResends
  BY <1>1, <1>3
<1>5. app' \in [weight : Int, count : Nat, stakes : Int] /\ tagTotal' \in [Tags -> Int]
  <2>1. ASSUME NEW w \in Tabs, SaveApp(w)
        PROVE  app' \in [weight : Int, count : Nat, stakes : Int] /\ tagTotal' = tagTotal
    <3>1. tab[w].weight \in Int /\ tab[w].count \in Nat /\ tab[w].stakes \in Int
      BY RequestTyped DEF Sound, Requests
    <3>2. QED
      BY <2>1, <3>1 DEF SaveApp
  <2>2. ASSUME NEW w \in Tabs, SaveTag(w)
        PROVE  app' = app /\ tagTotal' \in [Tags -> Int]
    <3>1. tab[w].stakes \in Int
      BY RequestTyped DEF Sound, Requests
    <3>2. QED
      BY <1>1, <2>2, <3>1 DEF SaveTag
  <2>3. CASE Restart
    <3>1. \A T \in SUBSET Targets : StakedOn(T) \in Int
      <4>1. IsFiniteSet(Targets)
        BY FinitelyMany, FS_AddElement, FS_Singleton, FS_Union DEF Targets
      <4>2. QED
        BY <4>1, FS_Subset, StakedIsInt DEF Sound
    <3>2. StakedOn({VoteTarget}) \in Int /\ StakedOn(Tags) \in Int /\ \A t \in Tags : StakedOn({t}) \in Int
      BY <3>1 DEF Targets
    <3>3. /\ app' = [app EXCEPT !.weight = StakedOn({VoteTarget}), !.stakes = StakedOn(Tags)]
          /\ tagTotal' = [t \in Tags |-> StakedOn({t})]
      BY <2>3 DEF Restart
    <3>4. QED
      BY <1>1, <3>2, <3>3
  <2>4. CASE UNCHANGED <<app, tagTotal>>
    BY <1>1, <2>4
  <2>5. QED
    BY <1>1, <2>1, <2>2, <2>3, <2>4, ZenonT(30)
    DEF Next, vars, Browser, Handler, Stake, WithdrawShown, WithdrawPart, Resend, Poll, CheckSig, Insert,
        ReadRow, Deactivate, RefusePart, ReadRows, Consume, Covered, SumTag, SumVotes, CountVotes,
        SumStakes, Abort
<1>6. QED
  BY <1>2, <1>4, <1>5

\* What the panels show.
LEMMA ShownKept ==
  ASSUME Sound, [Next]_vars, Grows, rows' \in Seq(Rows)
  PROVE  shown' \in [Tabs -> {None} \cup ShownRows] /\ \A w \in Tabs : ShownSound(w)'
<1>1. shown \in [Tabs -> {None} \cup ShownRows] /\ \A w \in Tabs : ShownSound(w)
  BY DEF Sound, Shapes
<1>2. ASSUME NEW w \in Tabs, NEW r \in {None} \cup ShownRows, shown' = [shown EXCEPT ![w] = r],
             r # None => RowSound(w, r.row, r.target, r.amount)
      PROVE  shown' \in [Tabs -> {None} \cup ShownRows] /\ \A v \in Tabs : ShownSound(v)'
  <2>1. shown' \in [Tabs -> {None} \cup ShownRows] /\ shown'[w] = r
        /\ \A v \in Tabs \ {w} : shown'[v] = shown[v]
    BY <1>1, <1>2
  <2>2. ASSUME NEW v \in Tabs, shown'[v] # None
        PROVE  RowSound(v, shown'[v].row, shown'[v].target, shown'[v].amount)
    <3>1. CASE v = w
      BY <1>2, <2>1, <2>2, <3>1
    <3>2. CASE v # w
      BY <1>1, <2>1, <2>2, <3>2 DEF ShownSound
    <3>3. QED
      BY <3>1, <3>2
  <2>3. ASSUME NEW v \in Tabs, shown'[v] # None
        PROVE  \A s : s = shown'[v] => RowSound(v, s.row, s.target, s.amount)'
    <3>1. shown'[v].amount \in Int
      BY <2>1, <2>3 DEF ShownRows
    <3>2. QED
      BY <2>2, <2>3, <3>1, RequestsPersist DEF Sound
  <2>4. QED
    BY <2>1, <2>3 DEF ShownSound, RowSound, Me
<1>3. ASSUME NEW w \in Tabs, Poll(w)
      PROVE  shown' \in [Tabs -> {None} \cup ShownRows] /\ \A v \in Tabs : ShownSound(v)'
  <2>1. PICK r \in Showable(w) : shown' = [shown EXCEPT ![w] = r]
    BY <1>3 DEF Poll
  <2>2. r \in {None} \cup ShownRows /\ (r # None => RowSound(w, r.row, r.target, r.amount))
    <3>1. CASE r = None
      BY <3>1
    <3>2. CASE r # None
      <4>1. PICK i \in Active : /\ rows[i].user = Me(w)
                                /\ r = [row |-> i, target |-> rows[i].target, amount |-> rows[i].amount]
        BY <2>1, <3>2 DEF Showable
      <4>2. i \in DOMAIN rows /\ i \in Nat /\ rows[i] \in Rows
        BY Contents, ActiveRowsAreRows DEF Sound
      <4>3. rows[i].amount \in Int /\ rows[i].target \in Targets
        BY <4>2 DEF Rows
      <4>4. QED
        BY <4>1, <4>2, <4>3 DEF ShownRows, RowSound
    <3>3. QED
      BY <3>1, <3>2
  <2>3. QED
    BY <1>2, <2>1, <2>2
<1>4. ASSUME NEW w \in Tabs, shown' = [shown EXCEPT ![w] = None]
      PROVE  shown' \in [Tabs -> {None} \cup ShownRows] /\ \A v \in Tabs : ShownSound(v)'
  BY <1>2, <1>4
<1>5. CASE UNCHANGED shown
  <2>1. ASSUME NEW v \in Tabs, shown[v] # None
        PROVE  RowSound(v, shown[v].row, shown[v].target, shown[v].amount)
               /\ shown[v].amount \in Int
    BY <1>1, <2>1 DEF ShownSound, ShownRows
  <2>2. ASSUME NEW v \in Tabs, shown[v] # None
        PROVE  \A s : s = shown[v] => RowSound(v, s.row, s.target, s.amount)'
    BY <2>1, <2>2, RequestsPersist DEF Sound
  <2>3. QED
    BY <1>1, <1>5, <2>2 DEF ShownSound, RowSound, Me
<1>6. QED
  BY <1>3, <1>4, <1>5, ZenonT(30)
  DEF Next, vars, Browser, Handler, Stake, WithdrawShown, WithdrawPart, Resend, CheckSig, Insert,
      ReadRow, Deactivate, RefusePart, ReadRows, Consume, Covered, SumTag, SaveTag, SumVotes,
      CountVotes, SumStakes, SaveApp, Abort, Restart

\* All requests stay sound.
LEMMA RequestsKept ==
  ASSUME Sound, [Next]_vars, Grows, rows' \in Seq(Rows)
  PROVE  tab' \in [Tabs -> Requests'] /\ \A w \in Tabs : RequestSound(w, tab[w])'
<1>1. tab \in [Tabs -> Requests] /\ \A w \in Tabs : RequestSound(w, tab[w])
  BY DEF Sound, Shapes
<1>2. ASSUME NEW w \in Tabs, NEW r \in Requests
      PROVE  r \in Requests' /\ (RequestSound(w, r) => RequestSound(w, r)')
  BY RequestsPersist DEF Sound
<1>3. ASSUME \A v \in Tabs : \E r \in Requests' : tab'[v] = r /\ RequestSound(v, r)'
      PROVE  \A v \in Tabs : tab'[v] \in Requests' /\ RequestSound(v, tab[v])'
  <2> SUFFICES ASSUME NEW v \in Tabs
               PROVE  tab'[v] \in Requests' /\ RequestSound(v, tab[v])'
    OBVIOUS
  <2>1. PICK r \in Requests' : tab'[v] = r /\ RequestSound(v, r)'
    BY <1>3
  <2>2. QED
    BY <2>1 DEF RequestSound, RowSound, Me
<1>4. ASSUME NEW v \in Tabs, tab'[v] = tab[v]
      PROVE  \E r \in Requests' : tab'[v] = r /\ RequestSound(v, r)'
  BY <1>1, <1>2, <1>4
<1>5. ASSUME NEW w \in Tabs, Browser(w) \/ Handler(w) \/ Abort(w)
      PROVE  tab' \in [Tabs -> Requests'] /\ \A v \in Tabs : RequestSound(v, tab[v])'
  <2>1. PICK r \in Requests' : tab' = [tab EXCEPT ![w] = r] /\ RequestSound(w, r)'
    BY <1>5, BrowserRequest, HandlerRequest
  <2>2. tab'[w] = r /\ \A v \in Tabs \ {w} : tab'[v] = tab[v]
    BY <1>1, <2>1
  <2>3. \A v \in Tabs : \E p \in Requests' : tab'[v] = p /\ RequestSound(v, p)'
    BY <1>4, <2>1, <2>2
  <2>4. tab' = [v \in Tabs |-> tab'[v]]
    BY <1>1, <2>1
  <2>5. QED
    BY <1>3, <2>3, <2>4
<1>6. CASE Restart
  <2>1. tab' = [v \in Tabs |-> IF v \in {x \in Tabs : tab[x].pc \notin {"idle", "create", "readRow", "readRows"}}
                               THEN Idle ELSE tab[v]]
    BY <1>6 DEF Restart
  <2>2. ASSUME NEW v \in Tabs, tab'[v] = Idle
        PROVE  \E r \in Requests' : tab'[v] = r /\ RequestSound(v, r)'
    BY <1>2, <2>2, IdleSound
  <2>3. \A v \in Tabs : tab'[v] = Idle \/ tab'[v] = tab[v]
    BY <2>1
  <2>4. tab' = [v \in Tabs |-> tab'[v]]
    BY <2>1
  <2>5. \A v \in Tabs : tab'[v] \in Requests' /\ RequestSound(v, tab[v])'
    BY <1>3, <1>4, <2>2, <2>3
  <2>6. QED
    BY <2>4, <2>5
<1>7. CASE UNCHANGED vars
  <2>1. tab' = tab
    BY <1>7 DEF vars
  <2>2. \A v \in Tabs : tab'[v] \in Requests' /\ RequestSound(v, tab[v])'
    BY <1>3, <1>4, <2>1
  <2>3. tab' = [v \in Tabs |-> tab'[v]]
    BY <1>1, <2>1
  <2>4. QED
    BY <2>2, <2>3
<1>8. QED
  BY <1>5, <1>6, <1>7 DEF Next

\* Only an INSERT adds a row.
LEMMA RowsAdded ==
  ASSUME Sound, [Next]_vars
  PROVE  \/ DOMAIN rows' = DOMAIN rows
         \/ \E w \in Tabs : Insert(w) /\ ~ ViolatesUnique(tab[w].sig, tab[w].target)
<1>1. ASSUME NEW w \in Tabs, Browser(w) \/ Handler(w) \/ Abort(w), DOMAIN rows' # DOMAIN rows
      PROVE  Insert(w) /\ ~ ViolatesUnique(tab[w].sig, tab[w].target)
  <2>1. ~ RowsAlone(w)
    BY <1>1, RowsAloneUnchanged
  <2>2. ~ Deactivate(w)
    BY <1>1, DeactivatedRow
  <2>3. ~ Consume(w)
    <3>1. PICK i, full : i = Oldest(tab[w].todo) /\ full = UsedUp(tab[w].todo[i], tab[w].amount)
      OBVIOUS
    <3>2. QED
      BY <1>1, <3>1, ConsumedRow
  <2>4. \A t \in Targets, x \in 1..MaxAmount : ~ Stake(w, t, x)
    BY <1>1 DEF Stake
  <2>5. Insert(w)
    BY <1>1, <2>1, <2>2, <2>3, <2>4, TabSteps
  <2>6. QED
    BY <1>1, <2>5 DEF Insert
<1>2. CASE UNCHANGED rows
  BY <1>2
<1>3. QED
  BY <1>1, <1>2 DEF Next, vars, Restart

\* The unique index keeps a transaction from being recorded twice.
LEMMA RecordsKept ==
  ASSUME Sound, [Next]_vars, Grows
  PROVE  RowsAreDeposits' /\ RecordedOnce'
<1>1. RowsAreDeposits /\ RecordedOnce
  BY DEF Sound
<1>2. CASE DOMAIN rows' = DOMAIN rows
  BY <1>1, <1>2 DEF Grows, RowsAreDeposits, RecordedOnce
<1>3. ASSUME NEW w \in Tabs, Insert(w), ~ ViolatesUnique(tab[w].sig, tab[w].target)
      PROVE  RowsAreDeposits' /\ RecordedOnce'
  <2> DEFINE n == Len(rows) + 1
  <2>1. /\ DOMAIN rows' = DOMAIN rows \cup {n} /\ n \notin DOMAIN rows
        /\ \A i \in DOMAIN rows : rows'[i] = rows[i]
        /\ rows'[n].user = Me(w) /\ rows'[n].target = tab[w].target /\ rows'[n].sig = tab[w].sig
        /\ tab[w].sig \in DOMAIN deposits
        /\ deposits[tab[w].sig].user = Me(w) /\ deposits[tab[w].sig].target = tab[w].target
    <3>1. /\ DOMAIN rows' = DOMAIN rows \cup {n} /\ n \notin DOMAIN rows
          /\ \A i \in DOMAIN rows : rows'[i] = rows[i]
          /\ rows'[n] = [user |-> Me(w), target |-> tab[w].target,
                        amount |-> tab[w].amount, sig |-> tab[w].sig, active |-> TRUE]
          /\ tab[w].sig \in DOMAIN deposits
          /\ deposits[tab[w].sig] = [user |-> Me(w), target |-> tab[w].target, amount |-> tab[w].amount]
      BY <1>3, InsertedRow
    <3> HIDE DEF n
    <3>2. QED
      BY <3>1
  <2> HIDE DEF n
  <2>2. RowsAreDeposits'
    BY <1>1, <2>1 DEF RowsAreDeposits, Grows
  <2>3. \A i \in DOMAIN rows : ~ (rows[i].sig = tab[w].sig /\ Kind(rows[i].target) = Kind(tab[w].target))
    BY <1>3 DEF ViolatesUnique, Recorded
  <2>4. RecordedOnce'
    BY <1>1, <2>1, <2>3 DEF RecordedOnce, Kind
  <2>5. QED
    BY <2>2, <2>4
<1>4. QED
  BY <1>2, <1>3, RowsAdded

LEMMA StepKeepsSound == Sound /\ [Next]_vars => Sound' /\ Grows
<1> SUFFICES ASSUME Sound, [Next]_vars
             PROVE  Sound' /\ Grows
  OBVIOUS
<1>1. Grows /\ rows' \in Seq(Rows) /\ deposits' \in Seq(Deposits) /\ Len(deposits') <= MaxDeposits
  BY StepGrows
<1>2. /\ shown' \in [Tabs -> {None} \cup ShownRows] /\ \A w \in Tabs : ShownSound(w)'
      /\ tab' \in [Tabs -> Requests'] /\ \A w \in Tabs : RequestSound(w, tab[w])'
      /\ RowsAreDeposits' /\ RecordedOnce'
  BY <1>1, ShownKept, RequestsKept, RecordsKept
<1>3. Shapes'
  BY <1>1, <1>2, ChainTyped, MissedTyped, CachesTyped DEF Shapes
<1>4. QED
  BY <1>1, <1>2, <1>3 DEF Sound

LEMMA InitEstablishesSound == Init => Sound
<1> SUFFICES ASSUME Init
             PROVE  Sound
  OBVIOUS
<1>1. rows = <<>> /\ deposits = <<>> /\ DOMAIN rows = {}
  BY DEF Init
<1>2. rows \in Seq(Rows) /\ deposits \in Seq(Deposits) /\ Len(deposits) <= MaxDeposits
  BY <1>1, LedgerBounds
<1>3. tab \in [Tabs -> Requests] /\ \A w \in Tabs : RequestSound(w, tab[w])
  BY IdleSound DEF Init
<1>4. Shapes
  BY <1>2, <1>3, LedgerBounds DEF Init, Shapes
<1>5. RowsAreDeposits /\ RecordedOnce /\ \A w \in Tabs : ShownSound(w)
  BY <1>1 DEF RowsAreDeposits, RecordedOnce, ShownSound, Init
<1>6. QED
  BY <1>3, <1>4, <1>5 DEF Sound

-----------------------------------------------------------------------------
(***************************************************************************)
(* What a handler that overlaps no other knows.                            *)
(***************************************************************************)
LEMMA OverlapsKept ==
  ASSUME OverlapsNoted, [Next]_vars
  PROVE  OverlapsNoted'
<1>1. CASE UNCHANGED vars
  BY <1>1 DEF vars, OverlapsNoted, Overlapping, Serving
<1>2. CASE overlapped' =
             [ever |-> overlapped.ever \/ Overlapping' # {},
              now |-> Overlapping' \cup {w \in overlapped.now : Serving(w)'}]
  BY <1>2 DEF OverlapsNoted
<1>3. QED
  BY <1>1, <1>2 DEF Next

LEMMA NowIsKept ==
  ASSUME [Next]_vars, NEW w \in Tabs, Serving(w)', w \notin overlapped'.now
  PROVE  w \notin overlapped.now
<1>1. CASE UNCHANGED vars
  BY <1>1 DEF vars
<1>2. CASE overlapped' =
             [ever |-> overlapped.ever \/ Overlapping' # {},
              now |-> Overlapping' \cup {v \in overlapped.now : Serving(v)'}]
  BY <1>2
<1>3. QED
  BY <1>1, <1>2 DEF Next

\* Of two handlers both are noted.
LEMMA NobodyElseServes ==
  ASSUME OverlapsNoted, NEW w \in Tabs, Serving(w), w \notin overlapped.now
  PROVE  \A v \in Tabs \ {w} : ~ Serving(v)
BY DEF OverlapsNoted, Overlapping

\* While the handler of w is the only one, another tab changes nothing that it has read.
LEMMA OthersQuiet ==
  ASSUME Sound, OverlapsNoted, [Next]_vars, NEW w \in Tabs, NEW v \in Tabs, v # w,
         Browser(v) \/ Handler(v) \/ Abort(v), Serving(w)', w \notin overlapped'.now
  PROVE  tab'[w] = tab[w] /\ UNCHANGED <<rows, tagTotal>>
<1>1. Grows /\ rows' \in Seq(Rows)
  BY StepGrows
<1>2. PICK r : tab' = [tab EXCEPT ![v] = r]
  BY <1>1, BrowserRequest, HandlerRequest
<1>3. tab \in [Tabs -> Requests]
  BY DEF Sound, Shapes
<1>4. tab'[w] = tab[w]
  BY <1>2, <1>3
<1>5. Serving(w) /\ w \notin overlapped.now
  BY <1>4, NowIsKept DEF Serving
<1>6. ~ Serving(v)
  BY <1>5, NobodyElseServes
<1>7. ~ Insert(v) /\ ~ Deactivate(v) /\ ~ Consume(v) /\ ~ SaveTag(v)
  BY <1>6 DEF Serving, Insert, Deactivate, Consume, SaveTag, At
<1>8. UNCHANGED rows
  BY <1>7, TabSteps, RowsAloneUnchanged DEF Stake
<1>9. UNCHANGED tagTotal
  BY <1>7 DEF Browser, Handler, Stake, WithdrawShown, WithdrawPart, Resend, Poll, CheckSig, Insert,
      ReadRow, Deactivate, RefusePart, ReadRows, Consume, Covered, SumTag, SumVotes,
      CountVotes, SumStakes, SaveApp, Abort
<1>10. QED
  BY <1>4, <1>8, <1>9

\* What is known of rows and totals that stay.
LEMMA SumsStay ==
  ASSUME UNCHANGED rows
  PROVE  /\ \A T : ActiveOn(T)' = ActiveOn(T)
         /\ \A T : SumOfRows(ActiveOn(T))' = SumOfRows(ActiveOn(T))
BY DEF ActiveOn, Active, SumOfRows, amountOf

\* TotalsKnown of a request that is where r is.
TotalsOf(r) ==
  /\ r.pc = "saveTag" => r.stakes = SumOfRows(ActiveOn({r.target}))
  /\ r.pc \in {"sumVotes", "countVotes", "sumStakes", "saveApp"} /\ r.target \in Tags =>
       tagTotal[r.target] = SumOfRows(ActiveOn({r.target}))
  /\ r.pc \in {"countVotes", "sumStakes", "saveApp"} =>
       r.weight = SumOfRows(ActiveOn({VoteTarget}))
  /\ r.pc \in {"sumStakes", "saveApp"} => r.count = Cardinality(ActiveOn({VoteTarget}))
  /\ r.pc = "saveApp" => r.stakes = SumOfRows(ActiveOn(Tags))

RowsOf(r) ==
  /\ r.pc = "deactivate" => rows[r.row].active
  /\ r.pc = "consume" => \A i \in DOMAIN r.todo : rows[i].active /\ rows[i].amount = r.todo[i]

LEMMA KnownOfStay ==
  ASSUME NEW r, UNCHANGED <<rows, tagTotal>>
  PROVE  (TotalsOf(r) => TotalsOf(r)') /\ (RowsOf(r) => RowsOf(r)')
<1>1. ActiveOn({VoteTarget})' = ActiveOn({VoteTarget})
  BY SumsStay
<1>2. QED
  BY <1>1, SumsStay DEF TotalsOf, RowsOf

LEMMA KnownIsKnownOf ==
  /\ \A w \in Tabs : RowsKnown(w) <=> RowsOf(tab[w])
  /\ \A w \in Tabs : TotalsKnown(w) <=> TotalsOf(tab[w])
  /\ \A w \in Tabs : \A r : tab'[w] = r /\ RowsOf(r)' => RowsKnown(w)'
  /\ \A w \in Tabs : \A r : tab'[w] = r /\ TotalsOf(r)' => TotalsKnown(w)'
BY DEF RowsKnown, RowsOf, TotalsKnown, TotalsOf

\* The sums and the writes that end a handler.
LEMMA RefreshKnows ==
  ASSUME Sound, NEW w \in Tabs, TotalsOf(tab[w]),
         SumTag(w) \/ SaveTag(w) \/ SumVotes(w) \/ CountVotes(w) \/ SumStakes(w)
  PROVE  \E r : tab'[w] = r /\ TotalsOf(r)' /\ RowsOf(r)'
<1> DEFINE q == tab[w]
<1>1. /\ q \in Requests /\ tab \in [Tabs -> Requests] /\ RequestSound(w, q)
      /\ tagTotal \in [Tags -> Int]
  BY RequestTyped DEF Sound, Shapes
<1>2. UNCHANGED rows
  BY DEF SumTag, SaveTag, SumVotes, CountVotes, SumStakes
<1>3. /\ \A T : SumOfRows(ActiveOn(T))' = SumOfRows(ActiveOn(T))
      /\ Cardinality(ActiveOn({VoteTarget}))' = Cardinality(ActiveOn({VoteTarget}))
  BY <1>2, SumsStay
<1>4. CASE SumTag(w)
  <2> DEFINE x == SumOfRows(ActiveOn({q.target}))
             r == [q EXCEPT !.pc = "saveTag", !.stakes = x]
  <2>1. tab'[w] = r
    BY <1>1, <1>4 DEF SumTag
  <2> HIDE DEF x
  <2>2. r.pc = "saveTag" /\ r.target = q.target /\ r.stakes = x
    BY <1>1 DEF Requests
  <2> HIDE DEF r
  <2>3. PICK s : s = r
    OBVIOUS
  <2>4. x = SumOfRows(ActiveOn({s.target}))'
    BY <1>3, <2>2, <2>3 DEF x
  <2>5. TotalsOf(s)' /\ RowsOf(s)'
    BY <2>2, <2>3, <2>4 DEF TotalsOf, RowsOf
  <2>6. QED
    BY <2>1, <2>3, <2>5
<1>5. CASE SaveTag(w)
  <2> DEFINE r == [q EXCEPT !.pc = "sumVotes", !.stakes = 0]
  <2>1. tab'[w] = r /\ q.pc = "saveTag" /\ tagTotal' = [tagTotal EXCEPT ![q.target] = q.stakes]
    BY <1>1, <1>5 DEF SaveTag, At
  <2>2. q.target \in Tags
    BY <1>1, <2>1 DEF RequestSound
  <2>3. tagTotal'[q.target] = q.stakes
    BY <1>1, <2>1, <2>2
  <2>4. r.pc = "sumVotes" /\ r.target = q.target
    BY <1>1 DEF Requests
  <2>5. q.stakes = SumOfRows(ActiveOn({q.target}))
    BY <2>1 DEF TotalsOf
  <2> HIDE DEF r
  <2>6. PICK s : s = r
    OBVIOUS
  <2>7. tagTotal'[s.target] = SumOfRows(ActiveOn({s.target}))'
    BY <1>3, <2>3, <2>4, <2>5, <2>6
  <2>8. TotalsOf(s)' /\ RowsOf(s)'
    BY <2>4, <2>6, <2>7 DEF TotalsOf, RowsOf
  <2>9. QED
    BY <2>1, <2>6, <2>8
<1>6. ASSUME NEW r, tab'[w] = r, UNCHANGED tagTotal, r.target = q.target,
             q.pc \in {"sumVotes", "countVotes", "sumStakes"},
             r.pc \in {"countVotes", "sumStakes", "saveApp"},
             r.weight = SumOfRows(ActiveOn({VoteTarget})),
             r.pc \in {"sumStakes", "saveApp"} => r.count = Cardinality(ActiveOn({VoteTarget})),
             r.pc = "saveApp" => r.stakes = SumOfRows(ActiveOn(Tags))
      PROVE  \E s : tab'[w] = s /\ TotalsOf(s)' /\ RowsOf(s)'
  <2>1. TotalsOf(r)
    BY <1>6 DEF TotalsOf
  <2>2. RowsOf(r)
    BY <1>6 DEF RowsOf
  <2>3. QED
    BY <1>2, <1>6, <2>1, <2>2, KnownOfStay
<1>7. CASE SumVotes(w)
  <2> DEFINE x == SumOfRows(ActiveOn({VoteTarget}))
             r == [q EXCEPT !.pc = "countVotes", !.weight = x]
  <2>1. tab'[w] = r /\ q.pc = "sumVotes" /\ UNCHANGED tagTotal
    BY <1>1, <1>7 DEF SumVotes, At
  <2> HIDE DEF x
  <2>2. r.pc = "countVotes" /\ r.target = q.target /\ r.weight = x
    BY <1>1 DEF Requests
  <2> HIDE DEF r
  <2>3. QED
    BY <1>6, <2>1, <2>2 DEF x
<1>8. CASE CountVotes(w)
  <2> DEFINE x == Cardinality(ActiveOn({VoteTarget}))
             r == [q EXCEPT !.pc = "sumStakes", !.count = x]
  <2>1. tab'[w] = r /\ q.pc = "countVotes" /\ UNCHANGED tagTotal
    BY <1>1, <1>8 DEF CountVotes, At
  <2> HIDE DEF x
  <2>2. r.pc = "sumStakes" /\ r.target = q.target /\ r.count = x /\ r.weight = q.weight
    BY <1>1 DEF Requests
  <2>3. q.weight = SumOfRows(ActiveOn({VoteTarget}))
    BY <2>1 DEF TotalsOf
  <2> HIDE DEF r
  <2>4. QED
    BY <1>6, <2>1, <2>2, <2>3 DEF x
<1>9. CASE SumStakes(w)
  <2> DEFINE x == SumOfRows(ActiveOn(Tags))
             r == [q EXCEPT !.pc = "saveApp", !.stakes = x]
  <2>1. tab'[w] = r /\ q.pc = "sumStakes" /\ UNCHANGED tagTotal
    BY <1>1, <1>9 DEF SumStakes, At
  <2> HIDE DEF x
  <2>2. /\ r.pc = "saveApp" /\ r.target = q.target /\ r.count = q.count /\ r.weight = q.weight
        /\ r.stakes = x
    BY <1>1 DEF Requests
  <2>3. /\ q.weight = SumOfRows(ActiveOn({VoteTarget}))
        /\ q.count = Cardinality(ActiveOn({VoteTarget}))
    BY <2>1 DEF TotalsOf
  <2> HIDE DEF r
  <2>4. QED
    BY <1>6, <2>1, <2>2, <2>3 DEF x
<1>10. QED
  BY <1>4, <1>5, <1>7, <1>8, <1>9

\* The other statements.
LEMMA WritesKnow ==
  ASSUME Sound, NEW w \in Tabs, Serving(w)',
         Serving(w) => RowsOf(tab[w]),
         Browser(w) \/ Handler(w) \/ Abort(w),
         ~ (SumTag(w) \/ SaveTag(w) \/ SumVotes(w) \/ CountVotes(w) \/ SumStakes(w))
  PROVE  \E r : tab'[w] = r /\ TotalsOf(r)' /\ RowsOf(r)'
<1> DEFINE q == tab[w]
<1>1. /\ q \in Requests /\ tab \in [Tabs -> Requests] /\ q.target \in Targets
      /\ Idle.pc = "idle"
  BY RequestTyped, IdleSound DEF Sound, Shapes
<1>2. tab'[w].pc \notin {"idle", "create", "readRow", "readRows"}
  BY DEF Serving
<1>3. CASE Browser(w)
  <2>1. tab'[w].pc \in {"idle", "create", "readRow", "readRows"}
    <3>1. CASE Poll(w)
      BY <1>1, <3>1 DEF Poll, IsIdle
    <3>2. ASSUME NEW t \in Targets, NEW x \in 1..MaxAmount, Stake(w, t, x)
          PROVE  tab'[w].pc = "create"
      <4> DEFINE r == [Idle EXCEPT !.pc = "create", !.target = t, !.amount = x,
                                   !.sig = Len(deposits) + 1]
      <4>1. tab'[w] = r
        BY <1>1, <3>2 DEF Stake, Send
      <4>2. r.pc = "create"
        BY DEF Idle
      <4> HIDE DEF r
      <4>3. QED
        BY <4>1, <4>2
    <3>3. ASSUME NEW s \in DOMAIN deposits, Resend(w, s)
          PROVE  tab'[w].pc = "create"
      <4> DEFINE r == [Idle EXCEPT !.pc = "create", !.target = deposits[s].target,
                                   !.amount = deposits[s].amount, !.sig = s]
      <4>1. tab'[w] = r
        BY <1>1, <3>3 DEF Resend, Send
      <4>2. r.pc = "create"
        BY DEF Idle
      <4> HIDE DEF r
      <4>3. QED
        BY <4>1, <4>2
    <3>4. CASE WithdrawShown(w)
      <4> DEFINE r == [Idle EXCEPT !.pc = "readRow", !.target = shown[w].target,
                                   !.row = shown[w].row, !.amount = shown[w].amount]
      <4>1. tab'[w] = r
        BY <1>1, <3>4 DEF WithdrawShown, Send
      <4>2. r.pc = "readRow"
        BY DEF Idle
      <4> HIDE DEF r
      <4>3. QED
        BY <4>1, <4>2
    <3>5. ASSUME NEW t \in Targets, NEW x \in 1..MaxAmount, WithdrawPart(w, t, x)
          PROVE  tab'[w].pc = "readRows"
      <4> DEFINE r == [Idle EXCEPT !.pc = "readRows", !.target = t, !.amount = x]
      <4>1. tab'[w] = r
        BY <1>1, <3>5 DEF WithdrawPart, Send
      <4>2. r.pc = "readRows"
        BY DEF Idle
      <4> HIDE DEF r
      <4>3. QED
        BY <4>1, <4>2
    <3>6. QED
      BY <1>3, <3>1, <3>2, <3>3, <3>4, <3>5 DEF Browser
  <2>2. QED
    BY <1>2, <2>1
<1>4. CASE tab' = [tab EXCEPT ![w] = Idle]
  BY <1>1, <1>2, <1>4
<1>5. CASE Refresh(w)
  <2>1. tab'[w] = Refreshing(q.target)
    BY <1>1, <1>5 DEF Refresh, Refreshing
  <2>2. PICK r : r = Refreshing(q.target)
    OBVIOUS
  <2>3. r.pc \in {"sumTag", "sumVotes"} /\ (r.pc = "sumVotes" => r.target \notin Tags)
    BY <1>1, <2>2, RefreshSound
  <2>4. TotalsOf(r)' /\ RowsOf(r)'
    BY <2>3 DEF TotalsOf, RowsOf
  <2>5. QED
    BY <2>1, <2>2, <2>4
<1>6. CASE CheckSig(w)
  <2>1. CASE Goto(w, "insert")
    <3>1. tab'[w].pc = "insert"
      BY <1>1, <2>1 DEF Goto, Requests
    <3>2. PICK r : r = tab'[w]
      OBVIOUS
    <3>3. QED
      BY <3>1, <3>2 DEF TotalsOf, RowsOf
  <2>2. QED
    BY <1>4, <1>6, <2>1 DEF CheckSig
<1>7. CASE ReadRow(w)
  <2>1. CASE rows[q.row].active /\ Goto(w, "deactivate")
    <3>1. tab'[w].pc = "deactivate" /\ tab'[w].row = q.row
      BY <1>1, <2>1 DEF Goto, Requests
    <3>2. UNCHANGED rows
      BY <1>7 DEF ReadRow
    <3>3. PICK r : r = tab'[w]
      OBVIOUS
    <3>4. QED
      BY <2>1, <3>1, <3>2, <3>3 DEF TotalsOf, RowsOf
  <2>2. QED
    BY <1>4, <1>7, <2>1 DEF ReadRow, GiveUp
<1>8. CASE ReadRows(w)
  <2> DEFINE todo == RowsToConsume(Me(w), q.target)
             r == [q EXCEPT !.pc = "consume", !.todo = todo]
  <2>1. tab'[w] = r /\ UNCHANGED rows
    BY <1>1, <1>8 DEF ReadRows
  <2>2. /\ DOMAIN todo = ActiveOf(Me(w), q.target)
        /\ \A i \in ActiveOf(Me(w), q.target) : todo[i] = rows[i].amount
    BY TodoRead DEF Sound
  <2>3. \A i \in ActiveOf(Me(w), q.target) : rows[i].active
    BY DEF ActiveOf, Active
  <2> HIDE DEF todo
  <2>4. r.pc = "consume" /\ r.todo = todo
    BY <1>1 DEF Requests
  <2> HIDE DEF r
  <2>5. PICK p : p = r
    OBVIOUS
  <2>6. TotalsOf(p)' /\ RowsOf(p)'
    BY <2>1, <2>2, <2>3, <2>4, <2>5 DEF TotalsOf, RowsOf
  <2>7. QED
    BY <2>1, <2>5, <2>6
<1>9. CASE Consume(w)
  <2>1. PICK i, full : i = Oldest(q.todo) /\ full = UsedUp(q.todo[i], q.amount)
    OBVIOUS
  <2> DEFINE todo == Restrict(q.todo, DOMAIN q.todo \ {i})
             x == IF full THEN q.amount - q.todo[i] ELSE 0
             r == [q EXCEPT !.todo = todo, !.amount = x]
  <2>2. q.pc = "consume" /\ DOMAIN q.todo # {} /\ q.todo \in Todos
        /\ tab' = [tab EXCEPT ![w].todo = todo, ![w].amount = x]
    BY <1>9, <2>1, RequestTyped DEF Consume, At, Sound
  <2>3. tab'[w] = r
    BY <1>1, <2>2
  <2>4. /\ DOMAIN todo = DOMAIN q.todo \ {i}
        /\ \A j \in DOMAIN q.todo \ {i} : todo[j] = q.todo[j]
    BY <2>1, <2>2, OldestIsIn DEF Sound
  <2>5. \A j \in DOMAIN rows \ {i} : rows'[j] = rows[j]
    BY <1>9, <2>1, ConsumedRow
  <2>6. \A j \in DOMAIN q.todo : j \in DOMAIN rows
    BY <2>2 DEF Todos
  <2>7. \A j \in DOMAIN q.todo : rows[j].active /\ rows[j].amount = q.todo[j]
    BY <2>2 DEF RowsOf, Serving
  <2> HIDE DEF todo, x
  <2>8. r.pc = "consume" /\ r.todo = todo
    BY <1>1, <2>2 DEF Requests
  <2> HIDE DEF r
  <2>9. PICK p : p = r
    OBVIOUS
  <2>10. TotalsOf(p)' /\ RowsOf(p)'
    BY <2>4, <2>5, <2>6, <2>7, <2>8, <2>9 DEF TotalsOf, RowsOf
  <2>11. QED
    BY <2>3, <2>9, <2>10
<1>10. CASE Insert(w)
  BY <1>4, <1>5, <1>10 DEF Insert
<1>11. CASE Deactivate(w) \/ Covered(w)
  BY <1>5, <1>11 DEF Deactivate, Covered
<1>12. CASE RefusePart(w) \/ Abort(w) \/ SaveApp(w)
  BY <1>4, <1>12 DEF RefusePart, Abort, SaveApp, GiveUp
<1>13. QED
  BY <1>3, <1>6, <1>7, <1>8, <1>9, <1>10, <1>11, <1>12 DEF Handler

LEMMA KnownKept ==
  ASSUME Sound, OverlapsNoted, Known, [Next]_vars
  PROVE  Known'
<1> SUFFICES ASSUME NEW w \in Tabs, w \notin overlapped'.now
             PROVE  RowsKnown(w)' /\ TotalsKnown(w)'
  BY DEF Known
<1>1. CASE ~ Serving(w)'
  BY <1>1 DEF Serving, RowsKnown, TotalsKnown
<1>2. ASSUME Serving(w)', \E r : tab'[w] = r /\ TotalsOf(r)' /\ RowsOf(r)'
      PROVE  RowsKnown(w)' /\ TotalsKnown(w)'
  BY <1>2, KnownIsKnownOf
<1>3. w \notin overlapped.now => RowsOf(tab[w]) /\ TotalsOf(tab[w])
  BY KnownIsKnownOf DEF Known
<1>4. ASSUME Serving(w)', tab'[w] = tab[w], UNCHANGED <<rows, tagTotal>>
      PROVE  RowsKnown(w)' /\ TotalsKnown(w)'
  <2>1. PICK r : r = tab[w]
    OBVIOUS
  <2>2. TotalsOf(r)' /\ RowsOf(r)'
    BY <1>3, <1>4, <2>1, NowIsKept, KnownOfStay
  <2>3. QED
    BY <1>2, <1>4, <2>1, <2>2
<1>5. ASSUME Serving(w)', NEW v \in Tabs, Browser(v) \/ Handler(v) \/ Abort(v)
      PROVE  RowsKnown(w)' /\ TotalsKnown(w)'
  <2>1. CASE v # w
    BY <1>4, <1>5, <2>1, OthersQuiet
  <2>2. CASE v = w
    <3>1. w \notin overlapped.now
      BY <1>5, NowIsKept
    <3>2. \E r : tab'[w] = r /\ TotalsOf(r)' /\ RowsOf(r)'
      BY <1>3, <1>5, <2>2, <3>1, RefreshKnows, WritesKnow
    <3>3. QED
      BY <1>2, <1>5, <3>2
  <2>3. QED
    BY <2>1, <2>2
<1>6. CASE Restart
  <2>1. tab'[w] = IF w \in {x \in Tabs : tab[x].pc \notin {"idle", "create", "readRow", "readRows"}}
                  THEN Idle ELSE tab[w]
    BY <1>6 DEF Restart
  <2>2. ~ Serving(w)'
    BY <2>1, IdleSound DEF Serving
  <2>3. QED
    BY <1>1, <2>2
<1>7. CASE UNCHANGED vars
  BY <1>1, <1>4, <1>7 DEF vars
<1>8. QED
  BY <1>1, <1>5, <1>6, <1>7 DEF Next

-----------------------------------------------------------------------------
(***************************************************************************)
(* Amounts.                                                                *)
(***************************************************************************)
LEMMA NeverOverlapped ==
  ASSUME Sound, OverlapsNoted, [Next]_vars, ~ overlapped'.ever
  PROVE  ~ overlapped.ever /\ overlapped.now = {}
<1>1. CASE UNCHANGED vars
  BY <1>1 DEF vars, OverlapsNoted
<1>2. CASE overlapped' =
             [ever |-> overlapped.ever \/ Overlapping' # {},
              now |-> Overlapping' \cup {v \in overlapped.now : Serving(v)'}]
  BY <1>2 DEF OverlapsNoted
<1>3. QED
  BY <1>1, <1>2 DEF Next

\* A row that a withdrawal reduces keeps something; one it uses up is deactivated.
LEMMA PositiveKept ==
  ASSUME Sound, OverlapsNoted, Known, ActiveRowsPositive, [Next]_vars
  PROVE  ActiveRowsPositive'
<1> SUFFICES ASSUME ~ overlapped'.ever, NEW j \in DOMAIN rows', rows'[j].active
             PROVE  rows'[j].amount > 0
  BY DEF ActiveRowsPositive, Active
<1>1. ~ overlapped.ever /\ overlapped.now = {}
  BY NeverOverlapped
<1>2. \A i \in DOMAIN rows : rows[i].active => rows[i].amount > 0
  BY <1>1 DEF ActiveRowsPositive, Active
<1>3. CASE UNCHANGED rows
  BY <1>2, <1>3
<1>4. ASSUME NEW w \in Tabs, Browser(w) \/ Handler(w) \/ Abort(w)
      PROVE  rows'[j].amount > 0
  <2>1. CASE RowsAlone(w) \/ (\E t \in Targets, x \in 1..MaxAmount : Stake(w, t, x))
    BY <1>3, <2>1, RowsAloneUnchanged DEF Stake
  <2>2. CASE Insert(w)
    <3>1. CASE ViolatesUnique(tab[w].sig, tab[w].target)
      BY <1>3, <2>2, <3>1 DEF Insert
    <3>2. CASE ~ ViolatesUnique(tab[w].sig, tab[w].target)
      <4> DEFINE n == Len(rows) + 1
      <4>1. /\ DOMAIN rows' = DOMAIN rows \cup {n}
            /\ \A i \in DOMAIN rows : rows'[i] = rows[i]
            /\ rows'[n] = [user |-> Me(w), target |-> tab[w].target,
                           amount |-> tab[w].amount, sig |-> tab[w].sig, active |-> TRUE]
            /\ tab[w].amount \in 1..MaxAmount
        BY <2>2, <3>2, InsertedRow
      <4> HIDE DEF n
      <4>2. rows'[n].amount > 0
        BY <4>1, LedgerBounds
      <4>3. QED
        BY <1>2, <4>1, <4>2
    <3>3. QED
      BY <3>1, <3>2
  <2>3. CASE Deactivate(w)
    <3> DEFINE i == tab[w].row
    <3>1. /\ i \in DOMAIN rows /\ DOMAIN rows' = DOMAIN rows
          /\ rows'[i] = [rows[i] EXCEPT !.active = FALSE]
          /\ \A k \in DOMAIN rows \ {i} : rows'[k] = rows[k]
      BY <2>3, DeactivatedRow
    <3> HIDE DEF i
    <3>2. ~ rows'[i].active
      BY <3>1, Contents DEF Sound, Rows
    <3>3. QED
      BY <1>2, <3>1, <3>2
  <2>4. CASE Consume(w)
    <3>1. PICK i, full : i = Oldest(tab[w].todo) /\ full = UsedUp(tab[w].todo[i], tab[w].amount)
      OBVIOUS
    <3>2. /\ i \in DOMAIN tab[w].todo /\ i \in DOMAIN rows /\ DOMAIN rows' = DOMAIN rows
          /\ rows'[i] = IF full THEN [rows[i] EXCEPT !.active = FALSE]
                                ELSE [rows[i] EXCEPT !.amount = rows[i].amount - tab[w].amount]
          /\ \A k \in DOMAIN rows \ {i} : rows'[k] = rows[k]
          /\ tab[w].amount \in Nat \ {0} /\ rows[i].amount \in Int
      BY <2>4, <3>1, ConsumedRow
    <3>3. rows[i].amount = tab[w].todo[i]
      BY <1>1, <2>4, <3>2 DEF Known, RowsKnown, Consume, At
    <3>4. rows[i] \in Rows
      BY <3>2, Contents DEF Sound
    <3>5. rows'[i].active => rows'[i].amount > 0
      <4>1. CASE full
        BY <3>2, <3>4, <4>1 DEF Rows
      <4>2. CASE ~ full
        <5>1. rows'[i].amount = rows[i].amount - tab[w].amount
          BY <3>2, <3>4, <4>2 DEF Rows
        <5>2. ~ (rows[i].amount <= tab[w].amount)
          BY <3>1, <3>3, <4>2 DEF UsedUp
        <5>3. QED
          BY <3>2, <5>1, <5>2
      <4>3. QED
        BY <4>1, <4>2
    <3>6. QED
      BY <1>2, <3>2, <3>5
  <2>5. QED
    BY <1>4, <2>1, <2>2, <2>3, <2>4, TabSteps
<1>5. CASE Restart \/ UNCHANGED vars
  BY <1>3, <1>5 DEF Restart, vars
<1>6. QED
  BY <1>4, <1>5 DEF Next

\* The sums the ledger is about.
LEMMA BooksAreInt ==
  ASSUME Sound, NEW u \in Users, NEW t \in Targets
  PROVE  /\ SumOfRows(ActiveOf(u, t)) \in Int
         /\ SumFunctionOnSet(depositOf, Unrecorded(u, t)) \in Int
         /\ Ledger(u, t) \in Int /\ Unserved(u, t) \in Int
         /\ chain[u][t] \in Int /\ missed[u][t] \in Int
<1>1. SumOfRows(ActiveOf(u, t)) \in Int
  BY RowSums, ActiveRowsAreRows DEF Sound
<1>2. SumFunctionOnSet(depositOf, Unrecorded(u, t)) \in Int
  <2> DEFINE D == Unrecorded(u, t)
             f == depositOf
  <2>1. D \subseteq DOMAIN deposits
    BY DEF Unrecorded
  <2>2. IsFiniteSet(D)
    <3>1. IsFiniteSet(DOMAIN deposits)
      BY Contents, FS_Interval DEF Sound
    <3>2. QED
      BY <2>1, <3>1, FS_Subset
  <2>3. \A s \in D : f[s] \in Int
    BY <2>1, Contents, LedgerBounds DEF Sound, depositOf, Deposits
  <2> HIDE DEF D, f
  <2>4. SumFunctionOnSet(f, D) \in Int
    BY <2>2, <2>3, SumIsInt
  <2>5. QED
    BY <2>4 DEF D, f
<1>3. Unserved(u, t) \in Int
  <2> DEFINE W == WithdrawingFrom(u, t)
             f == unappliedOf
  <2>1. IsFiniteSet(W) /\ W \subseteq Tabs
    BY FinitelyMany, FS_Subset DEF WithdrawingFrom
  <2>2. \A w \in W : f[w] \in Int
    BY <2>1, UnappliedIsNat DEF Sound
  <2> HIDE DEF W, f
  <2>3. SumFunctionOnSet(f, W) \in Int
    BY <2>1, <2>2, SumIsInt
  <2>4. QED
    BY <2>3 DEF W, f, Unserved
<1>4. chain[u][t] \in Int /\ missed[u][t] \in Int
  BY LedgerBounds DEF Sound, Shapes
<1>5. QED
  BY <1>1, <1>2, <1>3, <1>4 DEF Ledger

-----------------------------------------------------------------------------
(***************************************************************************)
(* How the four sides of LedgerTracksChain move when one row, one deposit  *)
(* or one request changes.                                                 *)
(***************************************************************************)
LEMMA RowMoves ==
  ASSUME Sound, rows' \in Seq(Rows), NEW i,
         DOMAIN rows \ {i} = DOMAIN rows' \ {i},
         \A j \in DOMAIN rows \ {i} : rows'[j] = rows[j],
         NEW u \in Users, NEW t \in Targets,
         NEW a \in Int, NEW b \in Int,
         a = IF i \in ActiveOf(u, t) THEN rows[i].amount ELSE 0,
         b = IF i \in ActiveOf(u, t)' THEN rows'[i].amount ELSE 0
  PROVE  SumOfRows(ActiveOf(u, t))' = SumOfRows(ActiveOf(u, t)) + (b - a)
<1> DEFINE A == ActiveOf(u, t)
           B == ActiveOf(u, t)'
           f == amountOf
           g == amountOf'
<1>1. DOMAIN rows' = 1..Len(rows') /\ Len(rows') \in Nat /\ \A j \in DOMAIN rows' : rows'[j] \in Rows
  OBVIOUS
<1>2. A \subseteq DOMAIN rows /\ B \subseteq DOMAIN rows'
  BY DEF ActiveOf, Active
<1>3. IsFiniteSet(A) /\ IsFiniteSet(B)
  <2>1. IsFiniteSet(DOMAIN rows) /\ IsFiniteSet(DOMAIN rows')
    BY <1>1, Contents, FS_Interval DEF Sound
  <2>2. QED
    BY <1>2, <2>1, FS_Subset
<1>4. A \ {i} = B \ {i}
  BY DEF ActiveOf, Active
<1>5. /\ \A j \in A : f[j] = rows[j].amount /\ rows[j].amount \in Int
      /\ \A j \in B : g[j] = rows'[j].amount
  BY <1>1, <1>2, Contents DEF Sound, amountOf, Rows
<1>6. \A j \in A \ {i} : f[j] \in Int /\ g[j] = f[j]
  BY <1>4, <1>5, <1>2
<1>7. a = (IF i \in A THEN f[i] ELSE 0) /\ b = (IF i \in B THEN g[i] ELSE 0)
  BY <1>5
<1> HIDE DEF A, B, f, g
<1>8. SumFunctionOnSet(g, B) = SumFunctionOnSet(f, A) + (b - a)
  BY <1>3, <1>4, <1>6, <1>7, SumChangesAt
<1>9. QED
  BY <1>8 DEF SumOfRows, A, B, f, g

LEMMA RowsStay ==
  ASSUME UNCHANGED rows, NEW u, NEW t
  PROVE  SumOfRows(ActiveOf(u, t))' = SumOfRows(ActiveOf(u, t))
BY DEF SumOfRows, ActiveOf, Active, amountOf

LEMMA DepositMoves ==
  ASSUME Sound, deposits' \in Seq(Deposits), NEW n,
         \A s \in DOMAIN deposits : s \in DOMAIN deposits' /\ deposits'[s] = deposits[s],
         NEW u \in Users, NEW t \in Targets,
         Unrecorded(u, t) \ {n} = Unrecorded(u, t)' \ {n},
         NEW a \in Int, NEW b \in Int,
         a = IF n \in Unrecorded(u, t) THEN deposits[n].amount ELSE 0,
         b = IF n \in Unrecorded(u, t)' THEN deposits'[n].amount ELSE 0
  PROVE  SumFunctionOnSet(depositOf, Unrecorded(u, t))'
           = SumFunctionOnSet(depositOf, Unrecorded(u, t)) + (b - a)
<1> DEFINE A == Unrecorded(u, t)
           B == Unrecorded(u, t)'
           f == depositOf
           g == depositOf'
<1>1. DOMAIN deposits' = 1..Len(deposits') /\ Len(deposits') \in Nat
  OBVIOUS
<1>2. A \subseteq DOMAIN deposits /\ B \subseteq DOMAIN deposits'
  BY DEF Unrecorded
<1>3. IsFiniteSet(A) /\ IsFiniteSet(B)
  <2>1. IsFiniteSet(DOMAIN deposits) /\ IsFiniteSet(DOMAIN deposits')
    BY <1>1, Contents, FS_Interval DEF Sound
  <2>2. QED
    BY <1>2, <2>1, FS_Subset
<1>4. A \ {n} = B \ {n}
  OBVIOUS
<1>5. /\ \A s \in A : f[s] = deposits[s].amount /\ deposits[s].amount \in Int
      /\ \A s \in B : g[s] = deposits'[s].amount
  BY <1>2, Contents, LedgerBounds DEF Sound, depositOf, Deposits
<1>6. \A s \in A \ {n} : f[s] \in Int /\ g[s] = f[s]
  BY <1>4, <1>5, <1>2
<1>7. a = (IF n \in A THEN f[n] ELSE 0) /\ b = (IF n \in B THEN g[n] ELSE 0)
  BY <1>5
<1> HIDE DEF A, B, f, g
<1>8. SumFunctionOnSet(g, B) = SumFunctionOnSet(f, A) + (b - a)
  BY <1>3, <1>4, <1>6, <1>7, SumChangesAt
<1>9. QED
  BY <1>8, SMTT(30) DEF A, B, f, g

LEMMA DepositsStay ==
  ASSUME UNCHANGED deposits, NEW u, NEW t, Unrecorded(u, t)' = Unrecorded(u, t)
  PROVE  SumFunctionOnSet(depositOf, Unrecorded(u, t))' = SumFunctionOnSet(depositOf, Unrecorded(u, t))
BY DEF depositOf

\* What is recorded depends on signatures and targets alone.
LEMMA RecordsStay ==
  ASSUME UNCHANGED deposits, DOMAIN rows' = DOMAIN rows,
         \A i \in DOMAIN rows : rows'[i].sig = rows[i].sig /\ rows'[i].target = rows[i].target,
         NEW u, NEW t
  PROVE  /\ Unrecorded(u, t)' = Unrecorded(u, t)
         /\ SumFunctionOnSet(depositOf, Unrecorded(u, t))' = SumFunctionOnSet(depositOf, Unrecorded(u, t))
<1>1. \A s : Recorded(s, t)' <=> Recorded(s, t)
  BY DEF Recorded, Kind
<1>2. Unrecorded(u, t)' = Unrecorded(u, t)
  BY <1>1 DEF Unrecorded
<1>3. QED
  BY <1>2, DepositsStay

\* x on the user of w and target t0, nothing elsewhere.
On(w, t0, u, t, x) == IF u = Me(w) /\ t = t0 THEN x ELSE 0

\* The withdrawals under way, when one request gives way to another.
LEMMA RequestMoves ==
  ASSUME Sound, tab' \in [Tabs -> Requests'], NEW w \in Tabs, NEW r, tab' = [tab EXCEPT ![w] = r],
         NEW t0, Unapplied(tab[w]) = 0 \/ tab[w].target = t0, Unapplied(r) = 0 \/ r.target = t0,
         Unapplied(r) \in Nat,
         NEW u \in Users, NEW t \in Targets
  PROVE  Unserved(u, t)' = Unserved(u, t) + On(w, t0, u, t, Unapplied(r) - Unapplied(tab[w]))
<1> DEFINE A == WithdrawingFrom(u, t)
           B == WithdrawingFrom(u, t)'
           f == unappliedOf
           g == unappliedOf'
<1>1. tab \in [Tabs -> Requests] /\ tab'[w] = r /\ \A v \in Tabs \ {w} : tab'[v] = tab[v]
  BY DEF Sound, Shapes
<1>2. A \subseteq Tabs /\ B \subseteq Tabs
  BY DEF WithdrawingFrom
<1>3. IsFiniteSet(A) /\ IsFiniteSet(B)
  BY <1>2, FinitelyMany, FS_Subset
<1>4. A \ {w} = B \ {w}
  BY <1>1 DEF WithdrawingFrom, Me
<1>5. /\ \A v \in Tabs : f[v] = Unapplied(tab[v]) /\ Unapplied(tab[v]) \in Nat
      /\ \A v \in Tabs : g[v] = Unapplied(tab'[v])
  BY UnappliedIsNat DEF Sound, unappliedOf, Unapplied
<1>6. \A v \in A \ {w} : f[v] \in Int /\ g[v] = f[v]
  BY <1>1, <1>2, <1>5
<1>7. w \in A <=> Me(w) = u /\ tab[w].target = t
  BY DEF WithdrawingFrom
<1>8. w \in B <=> Me(w) = u /\ r.target = t
  BY <1>1 DEF WithdrawingFrom, Me
<1> DEFINE a == IF w \in A THEN f[w] ELSE 0
           b == IF w \in B THEN g[w] ELSE 0
<1>9. a \in Int /\ b \in Int
  BY <1>1, <1>5
<1>10. b - a = On(w, t0, u, t, Unapplied(r) - Unapplied(tab[w]))
  <2> DEFINE x == Unapplied(tab[w])
             y == Unapplied(r)
  <2>1. /\ x \in Nat /\ y \in Nat /\ f[w] = x /\ g[w] = y
        /\ x = 0 \/ tab[w].target = t0
        /\ y = 0 \/ r.target = t0
    BY <1>1, <1>5
  <2>2. a = (IF Me(w) = u /\ tab[w].target = t THEN x ELSE 0)
    BY <1>7, <2>1
  <2>3. b = (IF Me(w) = u /\ r.target = t THEN y ELSE 0)
    BY <1>8, <2>1
  <2> HIDE DEF x, y, a, b
  <2>4. On(w, t0, u, t, y - x) = IF u = Me(w) /\ t = t0 THEN y - x ELSE 0
    BY DEF On
  <2>5. QED
    <3>1. b - a = On(w, t0, u, t, y - x)
      BY <2>1, <2>2, <2>3, <2>4
    <3>2. QED
      BY <3>1 DEF x, y
<1> HIDE DEF A, B, f, g
<1>11. SumFunctionOnSet(g, B) = SumFunctionOnSet(f, A) + (b - a)
  <2>1. PICK c \in Int, d \in Int : c = a /\ d = b
    BY <1>9
  <2>2. SumFunctionOnSet(g, B) = SumFunctionOnSet(f, A) + (d - c)
    BY <1>3, <1>4, <1>6, <2>1, SumChangesAt
  <2>3. QED
    BY <2>1, <2>2
<1>12. QED
  BY <1>10, <1>11 DEF Unserved, A, B, f, g

\* One cell of a table goes up by x.
AddsTo(f, g, w, t0, x) == g = [f EXCEPT ![Me(w)][t0] = f[Me(w)][t0] + x]

LEMMA CellMoves ==
  ASSUME NEW f \in [Users -> [Targets -> Int]], NEW g, NEW w \in Tabs, NEW t0 \in Targets,
         NEW x \in Int, AddsTo(f, g, w, t0, x),
         NEW u \in Users, NEW t \in Targets
  PROVE  g[u][t] = f[u][t] + On(w, t0, u, t, x)
<1>1. /\ Me(w) \in Users /\ f[u][t] \in Int
      /\ g = [f EXCEPT ![Me(w)][t0] = f[Me(w)][t0] + x]
  BY TabsHaveUsers DEF Me, AddsTo
<1>2. CASE u = Me(w) /\ t = t0
  <2>1. g[u][t] = f[u][t] + x
    BY <1>1, <1>2
  <2>2. QED
    BY <1>2, <2>1 DEF On
<1>3. CASE ~ (u = Me(w) /\ t = t0)
  <2>1. g[u][t] = f[u][t]
    BY <1>1, <1>3
  <2>2. QED
    BY <1>1, <1>3, <2>1 DEF On
<1>4. QED
  BY <1>2, <1>3

LEMMA ChainMoves ==
  ASSUME Sound, NEW w \in Tabs, NEW t0 \in Targets, NEW x \in Int, AddsTo(chain, chain', w, t0, x),
         NEW u \in Users, NEW t \in Targets
  PROVE  chain'[u][t] = chain[u][t] + On(w, t0, u, t, x)
<1>1. chain \in [Users -> [Targets -> Int]]
  BY LedgerBounds DEF Sound, Shapes
<1>2. QED
  BY <1>1, CellMoves

LEMMA MissedMoves ==
  ASSUME Sound, NEW w \in Tabs, NEW t0 \in Targets, NEW x \in Int, AddsTo(missed, missed', w, t0, x),
         NEW u \in Users, NEW t \in Targets
  PROVE  missed'[u][t] = missed[u][t] + On(w, t0, u, t, x)
<1>1. missed \in [Users -> [Targets -> Int]]
  BY DEF Sound, Shapes
<1>2. QED
  BY <1>1, CellMoves

\* The equation of one user and one target.
Tracked(u, t) == Ledger(u, t) = chain[u][t] + Unserved(u, t) + missed[u][t]

\* A step moves its left side by l and its right side by as much: by c, d and m.
Moves(w, t0, u, t, l, c, d, m) ==
  /\ {l, c, d, m} \subseteq Int /\ l = c + d + m
  /\ Ledger(u, t)' = Ledger(u, t) + On(w, t0, u, t, l)
  /\ chain'[u][t] = chain[u][t] + On(w, t0, u, t, c)
  /\ Unserved(u, t)' = Unserved(u, t) + On(w, t0, u, t, d)
  /\ missed'[u][t] = missed[u][t] + On(w, t0, u, t, m)

LEMMA MovesBalance ==
  ASSUME Sound, NEW w \in Tabs, NEW t0, NEW u \in Users, NEW t \in Targets, Tracked(u, t),
         NEW l, NEW c, NEW d, NEW m, Moves(w, t0, u, t, l, c, d, m)
  PROVE  Tracked(u, t)'
<1> DEFINE L == Ledger(u, t)
           C == chain[u][t]
           D == Unserved(u, t)
           M == missed[u][t]
           dl == On(w, t0, u, t, l)
           dc == On(w, t0, u, t, c)
           dd == On(w, t0, u, t, d)
           dm == On(w, t0, u, t, m)
<1>1. L \in Int /\ C \in Int /\ D \in Int /\ M \in Int /\ L = C + D + M
  BY BooksAreInt DEF Tracked
<1>2. dl = dc + dd + dm /\ dc \in Int /\ dd \in Int /\ dm \in Int
  BY DEF On, Moves
<1>3. /\ Ledger(u, t)' = L + dl /\ chain'[u][t] = C + dc /\ Unserved(u, t)' = D + dd
      /\ missed'[u][t] = M + dm
  BY DEF Moves
<1> HIDE DEF L, C, D, M, dl, dc, dd, dm
<1>4. L + dl = (C + dc) + (D + dd) + (M + dm)
  BY <1>1, <1>2
<1>5. QED
  BY <1>3, <1>4 DEF Tracked

LEMMA OnNothing ==
  ASSUME NEW w, NEW t0, NEW u, NEW t, NEW x \in Int
  PROVE  x = x + On(w, t0, u, t, 0)
BY DEF On

\* The ledger of a step that touches neither rows nor deposits.
LEMMA LedgerStays ==
  ASSUME Sound, UNCHANGED <<rows, deposits>>, NEW u \in Users, NEW t \in Targets
  PROVE  Ledger(u, t)' = Ledger(u, t)
<1>1. SumOfRows(ActiveOf(u, t))' = SumOfRows(ActiveOf(u, t))
  BY RowsStay
<1>2. SumFunctionOnSet(depositOf, Unrecorded(u, t))' = SumFunctionOnSet(depositOf, Unrecorded(u, t))
  BY RecordsStay
<1>3. QED
  BY <1>1, <1>2 DEF Ledger

\* A request of w that goes on, with nothing done.
LEMMA QuietTracks ==
  ASSUME Sound, Sound', NEW w \in Tabs, NEW r, tab' = [tab EXCEPT ![w] = r],
         UNCHANGED <<rows, deposits, chain, missed>>,
         Unapplied(r) = Unapplied(tab[w]),
         Unapplied(r) = 0 \/ r.target = tab[w].target,
         NEW u \in Users, NEW t \in Targets, Tracked(u, t)
  PROVE  Tracked(u, t)'
<1> PICK t0 : t0 = tab[w].target
  OBVIOUS
<1>1. tab' \in [Tabs -> Requests'] /\ Unapplied(tab[w]) \in Nat
  BY UnappliedIsNat DEF Sound, Shapes
<1>2. Unserved(u, t)' = Unserved(u, t) + On(w, t0, u, t, Unapplied(r) - Unapplied(tab[w]))
  BY <1>1, RequestMoves
<1>3. Unapplied(r) - Unapplied(tab[w]) = 0
  BY <1>1
<1>4. /\ Ledger(u, t) \in Int /\ chain[u][t] \in Int /\ missed[u][t] \in Int
  BY BooksAreInt
<1>5. Ledger(u, t)' = Ledger(u, t) + On(w, t0, u, t, 0)
  BY <1>4, LedgerStays, OnNothing
<1>6. chain'[u][t] = chain[u][t] + On(w, t0, u, t, 0) /\ missed'[u][t] = missed[u][t] + On(w, t0, u, t, 0)
  BY <1>4, OnNothing
<1>7. Moves(w, t0, u, t, 0, 0, 0, 0)
  BY <1>2, <1>3, <1>5, <1>6 DEF Moves
<1>8. QED
  BY <1>7, MovesBalance

\* A deposit, and the request that is to record it.
LEMMA StakeTracks ==
  ASSUME Sound, Sound', NEW w \in Tabs, NEW t0 \in Targets, NEW x \in 1..MaxAmount, Stake(w, t0, x),
         NEW u \in Users, NEW t \in Targets, Tracked(u, t)
  PROVE  Tracked(u, t)'
<1> PICK n, r : /\ n = Len(deposits) + 1
                /\ r = [Idle EXCEPT !.pc = "create", !.target = t0, !.amount = x, !.sig = n]
  OBVIOUS
<1>1. /\ tab' = [tab EXCEPT ![w] = r] /\ tab[w].pc = "idle" /\ UNCHANGED <<rows, missed>>
      /\ chain' = [chain EXCEPT ![Me(w)][t0] = chain[Me(w)][t0] + x]
      /\ x \in Int
  BY LedgerBounds DEF Stake, Send, IsIdle
<1>2. r.pc = "create" /\ r.target = t0
  BY DEF Idle
<1>3. /\ DOMAIN deposits' = DOMAIN deposits \cup {n} /\ n \notin DOMAIN deposits
      /\ \A s \in DOMAIN deposits : deposits'[s] = deposits[s]
      /\ deposits'[n] = [user |-> Me(w), target |-> t0, amount |-> x]
      /\ deposits' \in Seq(Deposits)
  BY StakedDeposit
<1>4. Unapplied(r) = 0 /\ Unapplied(tab[w]) = 0
  BY <1>1, <1>2 DEF Unapplied
<1>5. Unserved(u, t)' = Unserved(u, t) + On(w, t0, u, t, 0)
  <2>1. /\ tab' \in [Tabs -> Requests'] /\ Unapplied(r) \in Nat
        /\ Unapplied(tab[w]) = 0 \/ tab[w].target = t0
        /\ Unapplied(r) = 0 \/ r.target = t0
    BY <1>4 DEF Sound, Shapes
  <2>2. Unserved(u, t)' = Unserved(u, t) + On(w, t0, u, t, Unapplied(r) - Unapplied(tab[w]))
    BY <1>1, <2>1, RequestMoves
  <2>3. QED
    BY <1>4, <2>2
<1>6. chain'[u][t] = chain[u][t] + On(w, t0, u, t, x)
  <2>1. AddsTo(chain, chain', w, t0, x)
    BY <1>1 DEF AddsTo
  <2>2. QED
    BY <1>1, <2>1, ChainMoves
<1>7. missed'[u][t] = missed[u][t] + On(w, t0, u, t, 0)
  BY <1>1, BooksAreInt, OnNothing, SMTT(30)
<1>8. Ledger(u, t)' = Ledger(u, t) + On(w, t0, u, t, x)
  <2>1. \A s : Recorded(s, t)' <=> Recorded(s, t)
    BY <1>1 DEF Recorded, Kind
  <2>2. ~ Recorded(n, t)
    BY <1>3 DEF Sound, RowsAreDeposits, Recorded
  <2>3. Unrecorded(u, t) \ {n} = Unrecorded(u, t)' \ {n}
    BY <1>3, <2>1 DEF Unrecorded
  <2>4. n \notin Unrecorded(u, t)
    BY <1>3 DEF Unrecorded
  <2>5. n \in Unrecorded(u, t)' <=> u = Me(w) /\ t = t0
    BY <1>3, <2>1, <2>2 DEF Unrecorded
  <2> DEFINE b == On(w, t0, u, t, x)
  <2>6. b \in Int /\ b = IF n \in Unrecorded(u, t)' THEN deposits'[n].amount ELSE 0
    BY <1>1, <1>3, <2>5 DEF On
  <2> HIDE DEF b
  <2>7. SumFunctionOnSet(depositOf, Unrecorded(u, t))'
          = SumFunctionOnSet(depositOf, Unrecorded(u, t)) + (b - 0)
    BY <1>3, <2>3, <2>4, <2>6, DepositMoves
  <2>8. SumOfRows(ActiveOf(u, t))' = SumOfRows(ActiveOf(u, t))
    BY <1>1, RowsStay
  <2>9. Ledger(u, t)' = Ledger(u, t) + b
    <3> DEFINE A == SumOfRows(ActiveOf(u, t))
               B == SumFunctionOnSet(depositOf, Unrecorded(u, t))
    <3>1. A \in Int /\ B \in Int
      BY BooksAreInt
    <3>2. Ledger(u, t)' = A + (B + (b - 0)) /\ Ledger(u, t) = A + B
      BY <2>7, <2>8 DEF Ledger
    <3> HIDE DEF A, B
    <3>3. QED
      BY <2>6, <3>1, <3>2
  <2>10. QED
    BY <2>9 DEF b
<1>9. Moves(w, t0, u, t, x, x, 0, 0)
  BY <1>1, <1>5, <1>6, <1>7, <1>8 DEF Moves
<1>10. QED
  BY <1>9, MovesBalance

\* A withdrawal from the chain, and the request that is to take it off the ledger.
LEMMA UnlockTracks ==
  ASSUME Sound, Sound', NEW w \in Tabs, NEW t0 \in Targets, NEW x \in Nat, Unlock(w, t0, x),
         NEW r, Send(w, r), r.target = t0, Unapplied(r) = x,
         UNCHANGED <<rows, deposits, missed>>,
         NEW u \in Users, NEW t \in Targets, Tracked(u, t)
  PROVE  Tracked(u, t)'
<1>1. /\ tab' = [tab EXCEPT ![w] = r] /\ tab[w].pc = "idle"
      /\ chain' = [chain EXCEPT ![Me(w)][t0] = chain[Me(w)][t0] - x]
  BY DEF Unlock, Send, IsIdle
<1>2. Unapplied(tab[w]) = 0
  BY <1>1 DEF Unapplied
<1>y. PICK y \in Int : y = 0 - x
  OBVIOUS
<1>3. Unserved(u, t)' = Unserved(u, t) + On(w, t0, u, t, x)
  <2>1. /\ tab' \in [Tabs -> Requests'] /\ Unapplied(r) \in Nat
        /\ Unapplied(tab[w]) = 0 \/ tab[w].target = t0
        /\ Unapplied(r) = 0 \/ r.target = t0
    BY <1>2 DEF Sound, Shapes
  <2>2. Unserved(u, t)' = Unserved(u, t) + On(w, t0, u, t, Unapplied(r) - Unapplied(tab[w]))
    BY <1>1, <2>1, RequestMoves
  <2>3. Unapplied(r) - Unapplied(tab[w]) = x
    BY <1>2
  <2>4. QED
    BY <2>2, <2>3
<1>4. chain'[u][t] = chain[u][t] + On(w, t0, u, t, y)
  <2>1. chain[Me(w)][t0] - x = chain[Me(w)][t0] + y
    BY <1>y, BooksAreInt, TabsHaveUsers DEF Me
  <2>2. AddsTo(chain, chain', w, t0, y)
    BY <1>1, <2>1 DEF AddsTo
  <2>3. QED
    BY <2>2, ChainMoves
<1>5. missed'[u][t] = missed[u][t] + On(w, t0, u, t, 0)
  BY BooksAreInt, OnNothing
<1>6. Ledger(u, t)' = Ledger(u, t) + On(w, t0, u, t, 0)
  BY BooksAreInt, LedgerStays, OnNothing
<1>7. Moves(w, t0, u, t, 0, y, x, 0)
  <2>1. {0, x, y} \subseteq Int /\ 0 = y + x + 0
    BY <1>y
  <2>2. QED
    BY <2>1, <1>3, <1>4, <1>5, <1>6 DEF Moves
<1>8. QED
  BY <1>7, MovesBalance

\* The request of w ends, x of it being missed.
LEMMA GiveUpTracks ==
  ASSUME Sound, Sound', NEW w \in Tabs, NEW x \in Nat, GiveUp(w, x), x = Unapplied(tab[w]),
         UNCHANGED <<rows, deposits, chain>>,
         NEW u \in Users, NEW t \in Targets, Tracked(u, t)
  PROVE  Tracked(u, t)'
<1>r. PICK t0, r : t0 = tab[w].target /\ r = Idle
  OBVIOUS
<1>1. /\ tab' = [tab EXCEPT ![w] = r]
      /\ missed' = [missed EXCEPT ![Me(w)][t0] = missed[Me(w)][t0] + x]
      /\ t0 \in Targets
  BY <1>r, RequestTyped DEF GiveUp, Sound
<1>2. Unapplied(r) = 0
  BY <1>r, IdleSound DEF Unapplied
<1>y. PICK y \in Int : y = 0 - x
  OBVIOUS
<1>3. Unserved(u, t)' = Unserved(u, t) + On(w, t0, u, t, y)
  <2>1. /\ tab' \in [Tabs -> Requests'] /\ Unapplied(r) \in Nat
        /\ Unapplied(tab[w]) = 0 \/ tab[w].target = t0
        /\ Unapplied(r) = 0 \/ r.target = t0
    BY <1>r, <1>2 DEF Sound, Shapes
  <2>2. Unserved(u, t)' = Unserved(u, t) + On(w, t0, u, t, Unapplied(r) - Unapplied(tab[w]))
    BY <1>1, <2>1, RequestMoves
  <2>3. Unapplied(r) - Unapplied(tab[w]) = y
    BY <1>y, <1>2
  <2>4. QED
    BY <2>2, <2>3
<1>4. missed'[u][t] = missed[u][t] + On(w, t0, u, t, x)
  <2>1. AddsTo(missed, missed', w, t0, x) /\ x \in Int /\ t0 \in Targets
    BY <1>1 DEF AddsTo
  <2>2. QED
    BY <2>1, MissedMoves
<1>5. chain'[u][t] = chain[u][t] + On(w, t0, u, t, 0)
  BY BooksAreInt, OnNothing
<1>6. Ledger(u, t)' = Ledger(u, t) + On(w, t0, u, t, 0)
  BY BooksAreInt, LedgerStays, OnNothing
<1>7. Moves(w, t0, u, t, 0, 0, y, x)
  <2>1. {0, x, y} \subseteq Int /\ 0 = 0 + y + x
    BY <1>y
  <2>2. QED
    BY <2>1, <1>3, <1>4, <1>5, <1>6 DEF Moves
<1>8. QED
  BY <1>7, MovesBalance

\* An INSERT turns a deposit not recorded into an active row.
LEMMA InsertTracks ==
  ASSUME Sound, Sound', NEW w \in Tabs, Insert(w), ~ ViolatesUnique(tab[w].sig, tab[w].target),
         NEW u \in Users, NEW t \in Targets, Tracked(u, t)
  PROVE  Tracked(u, t)'
<1>r. PICK n, t0, s, x, r :
      n = Len(rows) + 1 /\ t0 = tab[w].target /\ s = tab[w].sig /\ x = tab[w].amount
      /\ r = Refreshing(tab[w].target)
  OBVIOUS
<1>1. /\ DOMAIN rows' = DOMAIN rows \cup {n} /\ n \notin DOMAIN rows
      /\ \A i \in DOMAIN rows : rows'[i] = rows[i]
      /\ rows'[n] = [user |-> Me(w), target |-> t0, amount |-> x, sig |-> s, active |-> TRUE]
      /\ rows' \in Seq(Rows)
      /\ s \in DOMAIN deposits /\ x \in 1..MaxAmount
      /\ deposits[s] = [user |-> Me(w), target |-> t0, amount |-> x]
  BY <1>r, InsertedRow
<1>2. /\ tab[w].pc = "insert" /\ tab' = [tab EXCEPT ![w] = r]
      /\ UNCHANGED <<chain, deposits, missed>> /\ ~ Recorded(s, t0)
  BY <1>r DEF Insert, At, Refresh, Refreshing, ViolatesUnique
<1>3. x \in Int /\ t0 \in Targets
  BY <1>r, <1>1, LedgerBounds, RequestTyped DEF Sound
<1>4. Unapplied(r) = 0 /\ Unapplied(tab[w]) = 0
  <2>1. r.pc \in {"sumTag", "sumVotes"}
    BY <1>r, <1>3, RefreshSound
  <2>2. QED
    BY <1>2, <2>1 DEF Unapplied
<1>5. Unserved(u, t)' = Unserved(u, t) + On(w, t0, u, t, 0)
  <2>1. /\ tab' \in [Tabs -> Requests'] /\ Unapplied(r) \in Nat
        /\ Unapplied(tab[w]) = 0 \/ tab[w].target = t0
        /\ Unapplied(r) = 0 \/ r.target = t0
    BY <1>r, <1>4 DEF Sound, Shapes
  <2>2. Unserved(u, t)' = Unserved(u, t) + On(w, t0, u, t, Unapplied(r) - Unapplied(tab[w]))
    BY <1>2, <2>1, RequestMoves
  <2>3. QED
    BY <1>4, <2>2
<1>6. chain'[u][t] = chain[u][t] + On(w, t0, u, t, 0)
      /\ missed'[u][t] = missed[u][t] + On(w, t0, u, t, 0)
  BY <1>2, BooksAreInt, OnNothing
<1>b. PICK b \in Int : b = On(w, t0, u, t, x)
  BY <1>3 DEF On
<1>7. SumOfRows(ActiveOf(u, t))' = SumOfRows(ActiveOf(u, t)) + (b - 0)
  <2>1. n \notin ActiveOf(u, t)
    BY <1>1, ActiveRowsAreRows
  <2>2. n \in ActiveOf(u, t)' <=> u = Me(w) /\ t = t0
    BY <1>1 DEF ActiveOf, Active
  <2>3. b = IF n \in ActiveOf(u, t)' THEN rows'[n].amount ELSE 0
    BY <1>b, <1>1, <2>2 DEF On
  <2>4. DOMAIN rows \ {n} = DOMAIN rows' \ {n} /\ \A i \in DOMAIN rows \ {n} : rows'[i] = rows[i]
    BY <1>1
  <2>5. QED
    BY <1>1, <2>1, <2>3, <2>4, RowMoves
<1>8. SumFunctionOnSet(depositOf, Unrecorded(u, t))'
        = SumFunctionOnSet(depositOf, Unrecorded(u, t)) + (0 - b)
  <2>1. \A p : Recorded(p, t)' <=> Recorded(p, t) \/ (p = s /\ Kind(t0) = Kind(t))
    BY <1>1 DEF Recorded, Kind
  <2>2. Unrecorded(u, t) \ {s} = Unrecorded(u, t)' \ {s}
    BY <1>2, <2>1 DEF Unrecorded
  <2>3. s \in Unrecorded(u, t) <=> u = Me(w) /\ t = t0
    BY <1>1, <1>2 DEF Unrecorded
  <2>4. s \notin Unrecorded(u, t)'
    BY <1>1, <1>2, <2>1 DEF Unrecorded
  <2>5. b = IF s \in Unrecorded(u, t) THEN deposits[s].amount ELSE 0
    BY <1>b, <1>1, <2>3 DEF On
  <2>6. deposits' \in Seq(Deposits) /\ \A p \in DOMAIN deposits : p \in DOMAIN deposits' /\ deposits'[p] = deposits[p]
    BY <1>2 DEF Sound, Shapes
  <2>7. QED
    BY <2>2, <2>4, <2>5, <2>6, DepositMoves
<1>9. Ledger(u, t)' = Ledger(u, t) + On(w, t0, u, t, 0)
  <2> DEFINE A == SumOfRows(ActiveOf(u, t))
             B == SumFunctionOnSet(depositOf, Unrecorded(u, t))
  <2>1. A \in Int /\ B \in Int
    BY BooksAreInt
  <2>2. Ledger(u, t)' = (A + (b - 0)) + (B + (0 - b)) /\ Ledger(u, t) = A + B
    BY <1>7, <1>8 DEF Ledger
  <2> HIDE DEF A, B
  <2>3. Ledger(u, t)' = Ledger(u, t) /\ Ledger(u, t) \in Int
    BY <2>1, <2>2
  <2>4. QED
    BY <2>3, OnNothing
<1>10. Moves(w, t0, u, t, 0, 0, 0, 0)
  BY <1>5, <1>6, <1>9 DEF Moves
<1>11. QED
  BY <1>10, MovesBalance

\* The row a panel showed is taken off the ledger whole, though the panel may have
\* withdrawn more.
LEMMA DeactivateTracks ==
  ASSUME Sound, Sound', Grows, NEW w \in Tabs, Deactivate(w), RowsKnown(w),
         NEW u \in Users, NEW t \in Targets, Tracked(u, t)
  PROVE  Tracked(u, t)'
<1>r. PICK i, t0, r, y, z :
        /\ i = tab[w].row /\ t0 = tab[w].target /\ r = Refreshing(tab[w].target)
        /\ y = rows[tab[w].row].amount /\ z = tab[w].amount
  OBVIOUS
<1>1. /\ tab[w].pc = "deactivate" /\ tab' = [tab EXCEPT ![w] = r]
      /\ missed' = [missed EXCEPT ![Me(w)][t0] = missed[Me(w)][t0] + z - y]
      /\ UNCHANGED <<chain, deposits>>
  BY <1>r DEF Deactivate, At, Refresh, Refreshing
<1>2. /\ i \in DOMAIN rows /\ rows[i].user = Me(w) /\ rows[i].target = t0 /\ y = rows[i].amount
      /\ y \in Int
      /\ DOMAIN rows' = DOMAIN rows /\ rows' \in Seq(Rows)
      /\ rows'[i] = [rows[i] EXCEPT !.active = FALSE]
      /\ \A j \in DOMAIN rows \ {i} : rows'[j] = rows[j]
  BY <1>r, DeactivatedRow
<1>3. rows[i].active
  BY <1>1, <1>r DEF RowsKnown
<1>4. /\ t0 \in Targets /\ z \in Nat /\ Unapplied(tab[w]) = z /\ tab[w].target = t0
  BY <1>1, <1>r, RequestTyped DEF Sound, Unapplied
<1>5. Unapplied(r) = 0
  <2>1. r.pc \in {"sumTag", "sumVotes"}
    BY <1>r, <1>4, RefreshSound
  <2>2. QED
    BY <2>1 DEF Unapplied
<1>6. PICK l \in Int, d \in Int, m \in Int : l = 0 - y /\ d = 0 - z /\ m = z - y
  <2>1. (0 - y) \in Int /\ (0 - z) \in Int /\ (z - y) \in Int
    BY <1>2, <1>4
  <2>2. QED
    BY <2>1
<1>7. Unserved(u, t)' = Unserved(u, t) + On(w, t0, u, t, d)
  <2>1. /\ tab' \in [Tabs -> Requests'] /\ Unapplied(r) \in Nat
        /\ Unapplied(tab[w]) = 0 \/ tab[w].target = t0
        /\ Unapplied(r) = 0 \/ r.target = t0
    BY <1>4, <1>5 DEF Sound, Shapes
  <2>2. Unserved(u, t)' = Unserved(u, t) + On(w, t0, u, t, Unapplied(r) - Unapplied(tab[w]))
    BY <1>1, <2>1, RequestMoves
  <2>3. Unapplied(r) - Unapplied(tab[w]) = d
    BY <1>4, <1>5, <1>6
  <2>4. QED
    BY <2>2, <2>3
<1>8. missed'[u][t] = missed[u][t] + On(w, t0, u, t, m)
  <2>1. missed[Me(w)][t0] \in Int
    BY <1>4, RequestTyped, BooksAreInt DEF Sound
  <2>2. missed[Me(w)][t0] + z - y = missed[Me(w)][t0] + m
    BY <1>2, <1>4, <1>6, <2>1
  <2>3. AddsTo(missed, missed', w, t0, m)
    BY <1>1, <2>2 DEF AddsTo
  <2>4. QED
    BY <1>4, <2>3, MissedMoves
<1>9. chain'[u][t] = chain[u][t] + On(w, t0, u, t, 0)
  BY <1>1, BooksAreInt, OnNothing
<1>10. Ledger(u, t)' = Ledger(u, t) + On(w, t0, u, t, l)
  <2>1. rows[i] \in Rows
    BY <1>2, Contents DEF Sound
  <2>2. ~ rows'[i].active
    BY <1>2, <2>1 DEF Rows
  <2>3. i \in ActiveOf(u, t) <=> u = Me(w) /\ t = t0
    BY <1>2, <1>3 DEF ActiveOf, Active
  <2>4. i \notin ActiveOf(u, t)'
    BY <2>2 DEF ActiveOf, Active
  <2>5. PICK a \in Int : a = On(w, t0, u, t, y)
    BY <1>2 DEF On
  <2>6. a = IF i \in ActiveOf(u, t) THEN rows[i].amount ELSE 0
    BY <1>2, <2>3, <2>5 DEF On
  <2>7. DOMAIN rows \ {i} = DOMAIN rows' \ {i}
    BY <1>2
  <2>8. SumOfRows(ActiveOf(u, t))' = SumOfRows(ActiveOf(u, t)) + (0 - a)
    BY <1>2, <2>4, <2>6, <2>7, RowMoves
  <2>9. SumFunctionOnSet(depositOf, Unrecorded(u, t))' = SumFunctionOnSet(depositOf, Unrecorded(u, t))
    BY <1>1, <1>2, RecordsStay DEF Grows
  <2> DEFINE A == SumOfRows(ActiveOf(u, t))
             B == SumFunctionOnSet(depositOf, Unrecorded(u, t))
  <2>10. A \in Int /\ B \in Int
    BY BooksAreInt
  <2>11. Ledger(u, t)' = (A + (0 - a)) + B /\ Ledger(u, t) = A + B
    BY <2>8, <2>9 DEF Ledger
  <2> HIDE DEF A, B
  <2>12. Ledger(u, t)' = Ledger(u, t) + (0 - a)
    BY <2>5, <2>10, <2>11
  <2>13. 0 - a = On(w, t0, u, t, l)
    BY <1>2, <1>6, <2>5 DEF On
  <2>14. QED
    BY <2>12, <2>13
<1>11. Moves(w, t0, u, t, l, 0, d, m)
  <2>1. {0, l, d, m} \subseteq Int /\ l = 0 + d + m
    BY <1>2, <1>4, <1>6
  <2>2. QED
    BY <2>1, <1>7, <1>8, <1>9, <1>10 DEF Moves
<1>12. QED
  BY <1>11, MovesBalance

\* One row of a withdrawal by parts: it gives what it holds, or what is still asked for.
LEMMA ConsumeTracks ==
  ASSUME Sound, Sound', Grows, NEW w \in Tabs, Consume(w), RowsKnown(w),
         NEW u \in Users, NEW t \in Targets, Tracked(u, t)
  PROVE  Tracked(u, t)'
<1>r. PICK i, full, t0, z :
        /\ i = Oldest(tab[w].todo) /\ full = UsedUp(tab[w].todo[i], tab[w].amount)
        /\ t0 = tab[w].target /\ z = tab[w].amount
  OBVIOUS
<1>1. /\ i \in DOMAIN tab[w].todo /\ i \in DOMAIN rows /\ z \in Nat \ {0}
      /\ rows[i].user = Me(w) /\ rows[i].target = t0 /\ rows[i].amount \in Int
      /\ DOMAIN rows' = DOMAIN rows /\ rows' \in Seq(Rows)
      /\ rows'[i] = IF full THEN [rows[i] EXCEPT !.active = FALSE]
                            ELSE [rows[i] EXCEPT !.amount = rows[i].amount - z]
      /\ \A j \in DOMAIN rows \ {i} : rows'[j] = rows[j]
  BY <1>r, ConsumedRow
<1>2. tab[w].pc = "consume" /\ UNCHANGED <<chain, deposits, missed>>
  BY DEF Consume, At
<1>3. rows[i].active /\ rows[i].amount = tab[w].todo[i]
  BY <1>1, <1>2 DEF RowsKnown
<1>4. PICK y \in Int : y = rows[i].amount
  BY <1>1
<1>5. PICK k \in Int, d \in Int : k = (IF full THEN y ELSE z) /\ d = 0 - k
  BY <1>1
<1>6. PICK r : /\ tab' = [tab EXCEPT ![w] = r]
               /\ r.pc = "consume" /\ r.target = t0 /\ r.amount = z + d
  <2> DEFINE todo == Restrict(tab[w].todo, DOMAIN tab[w].todo \ {i})
             x == IF full THEN z - tab[w].todo[i] ELSE 0
             r == [tab[w] EXCEPT !.todo = todo, !.amount = x]
  <2>1. tab[w] \in Requests /\ tab \in [Tabs -> Requests]
    BY RequestTyped DEF Sound, Shapes
  <2>2. tab' = [tab EXCEPT ![w].todo = todo, ![w].amount = x]
    BY <1>r DEF Consume
  <2>3. tab' = [tab EXCEPT ![w] = r]
    BY <2>1, <2>2
  <2>4. x = z + d
    BY <1>1, <1>3, <1>4, <1>5
  <2> HIDE DEF todo, x
  <2>5. r.pc = "consume" /\ r.target = t0 /\ r.amount = x
    BY <1>2, <1>r, <2>1 DEF Requests
  <2> HIDE DEF r
  <2>6. QED
    BY <2>3, <2>4, <2>5
<1>7. t0 \in Targets /\ tab[w].target = t0 /\ Unapplied(tab[w]) = z /\ Unapplied(r) = z + d
  BY <1>2, <1>r, <1>6, RequestTyped DEF Sound, Unapplied
<1>8. Unserved(u, t)' = Unserved(u, t) + On(w, t0, u, t, d)
  <2>1. tab' \in [Tabs -> Requests']
    BY DEF Sound, Shapes
  <2>2. z + d \in Nat
    <3>1. CASE full
      <4>1. y <= z
        BY <1>r, <1>3, <1>4, <3>1 DEF UsedUp
      <4>2. QED
        BY <1>1, <1>5, <3>1, <4>1
    <3>2. CASE ~ full
      BY <1>1, <1>5, <3>2
    <3>3. QED
      BY <3>1, <3>2
  <2>3. /\ Unapplied(r) \in Nat
        /\ Unapplied(tab[w]) = 0 \/ tab[w].target = t0
        /\ Unapplied(r) = 0 \/ r.target = t0
    BY <1>6, <1>7, <2>2
  <2>4. Unserved(u, t)' = Unserved(u, t) + On(w, t0, u, t, Unapplied(r) - Unapplied(tab[w]))
    BY <1>6, <2>1, <2>3, RequestMoves
  <2>5. Unapplied(r) - Unapplied(tab[w]) = d
    BY <1>1, <1>7
  <2>6. QED
    BY <2>4, <2>5
<1>9. chain'[u][t] = chain[u][t] + On(w, t0, u, t, 0)
      /\ missed'[u][t] = missed[u][t] + On(w, t0, u, t, 0)
  BY <1>2, BooksAreInt, OnNothing
<1>10. Ledger(u, t)' = Ledger(u, t) + On(w, t0, u, t, d)
  <2>1. rows[i] \in Rows
    BY <1>1, Contents DEF Sound
  <2>2. i \in ActiveOf(u, t) <=> u = Me(w) /\ t = t0
    BY <1>1, <1>3 DEF ActiveOf, Active
  <2>3. IF full THEN ~ rows'[i].active
                ELSE /\ rows'[i].active /\ rows'[i].user = Me(w) /\ rows'[i].target = t0
                     /\ rows'[i].amount = y - z
    BY <1>1, <1>3, <1>4, <2>1 DEF Rows
  <2>4. i \in ActiveOf(u, t)' <=> u = Me(w) /\ t = t0 /\ ~ full
    BY <1>1, <2>3 DEF ActiveOf, Active
  <2>5. PICK a \in Int, b \in Int :
          a = On(w, t0, u, t, y) /\ b = On(w, t0, u, t, IF full THEN 0 ELSE y - z)
    <3>1. \A x \in Int : On(w, t0, u, t, x) \in Int
      BY DEF On
    <3>2. (IF full THEN 0 ELSE y - z) \in Int
      BY <1>1, <1>4
    <3>3. QED
      BY <3>1, <3>2
  <2>6. /\ a = IF i \in ActiveOf(u, t) THEN rows[i].amount ELSE 0
        /\ b = IF i \in ActiveOf(u, t)' THEN rows'[i].amount ELSE 0
    <3>1. a = IF i \in ActiveOf(u, t) THEN rows[i].amount ELSE 0
      BY <1>4, <2>2, <2>5 DEF On
    <3>2. CASE full
      BY <2>4, <2>5, <3>1, <3>2 DEF On
    <3>3. CASE ~ full
      BY <2>3, <2>4, <2>5, <3>1, <3>3 DEF On
    <3>4. QED
      BY <3>2, <3>3
  <2>7. DOMAIN rows \ {i} = DOMAIN rows' \ {i}
    BY <1>1
  <2>8. SumOfRows(ActiveOf(u, t))' = SumOfRows(ActiveOf(u, t)) + (b - a)
    <3>1. rows' \in Seq(Rows) /\ \A j \in DOMAIN rows \ {i} : rows'[j] = rows[j]
      BY <1>1
    <3>2. QED
      BY <2>6, <2>7, <3>1, RowMoves
  <2>9. SumFunctionOnSet(depositOf, Unrecorded(u, t))' = SumFunctionOnSet(depositOf, Unrecorded(u, t))
    BY <1>1, <1>2, RecordsStay DEF Grows
  <2> DEFINE A == SumOfRows(ActiveOf(u, t))
             B == SumFunctionOnSet(depositOf, Unrecorded(u, t))
  <2>10. A \in Int /\ B \in Int
    BY BooksAreInt
  <2>11. Ledger(u, t)' = (A + (b - a)) + B /\ Ledger(u, t) = A + B
    BY <2>8, <2>9 DEF Ledger
  <2> HIDE DEF A, B
  <2>12. Ledger(u, t)' = Ledger(u, t) + (b - a)
    BY <2>5, <2>10, <2>11
  <2>13. b - a = On(w, t0, u, t, d)
    BY <1>1, <1>4, <1>5, <2>5 DEF On
  <2>14. QED
    BY <2>12, <2>13
<1>11. Moves(w, t0, u, t, d, 0, d, 0)
  <2>1. {0, d} \subseteq Int /\ d = 0 + d + 0
    BY <1>5
  <2>2. QED
    BY <2>1, <1>8, <1>9, <1>10 DEF Moves
<1>12. QED
  BY <1>11, MovesBalance

\* A restart turns what the handlers it ends had still to take off into missed.
LEMMA RestartTracks ==
  ASSUME Sound, Sound', Restart, NEW u \in Users, NEW t \in Targets, Tracked(u, t)
  PROVE  Tracked(u, t)'
<1> DEFINE dead == {w \in Tabs : tab[w].pc \notin {"idle", "create", "readRow", "readRows"}}
           W == WithdrawingFrom(u, t)
           D == dead \cap W
           K == W \ dead
           V == WithdrawingFrom(u, t)'
           Z == V \cap dead
           f == unappliedOf
           g == unappliedOf'
           lost(x, y) == SumFunctionOnSet(unappliedOf, dead \cap WithdrawingFrom(x, y))
<1>1. /\ tab' = [w \in Tabs |-> IF w \in dead THEN Idle ELSE tab[w]]
      /\ missed' = [x \in Users |-> [y \in Targets |-> missed[x][y] + lost(x, y)]]
      /\ UNCHANGED <<chain, deposits, rows>>
  BY DEF Restart
<1>2. missed'[u][t] = missed[u][t] + SumFunctionOnSet(f, D)
  BY <1>1
<1>3. /\ \A w \in dead : tab'[w] = Idle
      /\ \A w \in Tabs \ dead : tab'[w] = tab[w]
  BY <1>1
<1>4. /\ \A w \in Tabs : f[w] \in Nat
      /\ \A w \in Tabs : g[w] = Unapplied(tab'[w]) /\ f[w] = Unapplied(tab[w])
  BY UnappliedIsNat DEF Sound, unappliedOf, Unapplied
<1>5. /\ \A w \in K : g[w] = f[w]
      /\ \A w \in Z : g[w] = 0
  <2>1. Unapplied(Idle) = 0
    BY IdleSound DEF Unapplied
  <2>2. K \subseteq Tabs \ dead /\ Z \subseteq dead /\ dead \subseteq Tabs
    BY DEF WithdrawingFrom
  <2> HIDE DEF dead, K, Z, f, g
  <2>3. QED
    BY <1>3, <1>4, <2>1, <2>2
<1>6. W = D \cup K /\ D \cap K = {} /\ V = K \cup Z /\ K \cap Z = {}
  <2>1. \A w \in Tabs \ dead : w \in V <=> w \in W
    BY <1>3 DEF WithdrawingFrom, Me
  <2>2. V \subseteq Tabs /\ W \subseteq Tabs
    BY DEF WithdrawingFrom
  <2> HIDE DEF V, W, dead
  <2>3. QED
    BY <2>1, <2>2
<1>7. W \subseteq Tabs /\ V \subseteq Tabs
  BY DEF WithdrawingFrom
<1> HIDE DEF dead, W, D, K, V, Z, f, g, lost
<1>8. /\ IsFiniteSet(D) /\ IsFiniteSet(K) /\ IsFiniteSet(Z)
      /\ D \subseteq Tabs /\ K \subseteq Tabs
  <2>1. D \subseteq Tabs /\ K \subseteq Tabs /\ Z \subseteq Tabs
    BY <1>6, <1>7
  <2>2. QED
    BY <2>1, FinitelyMany, FS_Subset
<1>9. SumFunctionOnSet(f, W) = SumFunctionOnSet(f, D) + SumFunctionOnSet(f, K)
  <2>1. \A w \in D \cup K : f[w] \in Int
    BY <1>4, <1>8
  <2>2. QED
    BY <1>6, <1>8, <2>1, SumOfUnion
<1>10. SumFunctionOnSet(g, V) = SumFunctionOnSet(g, K) + SumFunctionOnSet(g, Z)
  <2>1. \A w \in K \cup Z : g[w] \in Int
    BY <1>4, <1>5, <1>8
  <2>2. QED
    BY <1>6, <1>8, <2>1, SumOfUnion
<1>11. SumFunctionOnSet(g, K) = SumFunctionOnSet(f, K)
  BY <1>5, <1>8, SumAgrees
<1>12. SumFunctionOnSet(g, Z) = 0
  BY <1>5, <1>8, SumOfZeros
<1>13. SumFunctionOnSet(f, D) \in Int /\ SumFunctionOnSet(f, K) \in Int
  <2>1. (\A w \in D : f[w] \in Int) /\ (\A w \in K : f[w] \in Int)
    BY <1>4, <1>8
  <2>2. QED
    BY <1>8, <2>1, SumIsInt
<1>14. Unserved(u, t) = SumFunctionOnSet(f, W) /\ Unserved(u, t)' = SumFunctionOnSet(g, V)
  BY DEF Unserved, f, g, W, V
<1>15. Ledger(u, t)' = Ledger(u, t) /\ chain'[u][t] = chain[u][t]
  BY <1>1, LedgerStays
<1>16. chain[u][t] \in Int /\ missed[u][t] \in Int
  BY BooksAreInt
<1>17. Ledger(u, t)' = chain'[u][t] + Unserved(u, t)' + missed'[u][t]
  <2>1. Ledger(u, t) = chain[u][t] + Unserved(u, t) + missed[u][t]
    BY DEF Tracked
  <2>2. QED
    BY <1>2, <1>9, <1>10, <1>11, <1>12, <1>13, <1>14, <1>15, <1>16, <2>1
<1>18. QED
  BY <1>17 DEF Tracked

\* The steps of a tab that leave rows and deposits alone.
LEMMA AloneTracks ==
  ASSUME Sound, Sound', NEW w \in Tabs, RowsAlone(w),
         NEW u \in Users, NEW t \in Targets, Tracked(u, t)
  PROVE  Tracked(u, t)'
<1>1. UNCHANGED <<rows, deposits>>
  BY RowsAloneUnchanged
<1>2. /\ tab[w] \in Requests /\ tab \in [Tabs -> Requests]
      /\ tab[w].target \in Targets /\ tab[w].amount \in Nat /\ Unapplied(tab[w]) \in Nat
  BY RequestTyped, UnappliedIsNat DEF Sound, Shapes
<1>3. ASSUME NEW r, tab' = [tab EXCEPT ![w] = r], UNCHANGED <<chain, missed>>,
             Unapplied(r) = Unapplied(tab[w]), Unapplied(r) = 0 \/ r.target = tab[w].target
      PROVE  Tracked(u, t)'
  BY <1>1, <1>3, QuietTracks
<1>4. ASSUME NEW pc, NEW r, tab' = [tab EXCEPT ![w] = r], r.pc = pc, UNCHANGED <<chain, missed>>,
             {pc, tab[w].pc} \cap {"readRow", "deactivate", "readRows", "consume"} = {}
      PROVE  Tracked(u, t)'
  <2>1. Unapplied(r) = 0 /\ Unapplied(tab[w]) = 0
    BY <1>4 DEF Unapplied
  <2>2. QED
    BY <1>3, <1>4, <2>1
<1>5. ASSUME NEW pc, NEW r, tab' = [tab EXCEPT ![w] = r], UNCHANGED <<chain, missed>>,
             r.pc = pc, r.target = tab[w].target, r.amount = tab[w].amount,
             {pc, tab[w].pc} \subseteq {"readRow", "deactivate", "readRows", "consume"}
      PROVE  Tracked(u, t)'
  <2>1. Unapplied(r) = Unapplied(tab[w])
    BY <1>5 DEF Unapplied
  <2>2. QED
    BY <1>3, <1>5, <2>1
<1>6. CASE tab' = [tab EXCEPT ![w] = Idle] /\ tab[w].pc \in {"create", "saveApp"} /\ UNCHANGED <<chain, missed>>
  BY <1>4, <1>6, IdleSound
<1>7. ASSUME NEW s \in DOMAIN deposits, Resend(w, s)
      PROVE  Tracked(u, t)'
  <2>1. PICK r : r = [Idle EXCEPT !.pc = "create", !.target = deposits[s].target,
                                  !.amount = deposits[s].amount, !.sig = s]
    OBVIOUS
  <2>2. r.pc = "create"
    BY <2>1 DEF Idle
  <2>3. tab' = [tab EXCEPT ![w] = r] /\ tab[w].pc = "idle" /\ UNCHANGED <<chain, missed>>
    BY <1>7, <2>1 DEF Resend, Send, IsIdle
  <2>4. QED
    BY <1>4, <2>2, <2>3
<1>8. CASE Poll(w)
  <2>1. PICK r : r = tab[w]
    OBVIOUS
  <2>2. tab' = [tab EXCEPT ![w] = r] /\ UNCHANGED <<chain, missed>>
    BY <1>2, <1>8, <2>1 DEF Poll
  <2>3. QED
    BY <1>3, <2>1, <2>2
<1>9. CASE WithdrawShown(w)
  <2>1. PICK t0, i, x : t0 = shown[w].target /\ i = shown[w].row /\ x = shown[w].amount
    OBVIOUS
  <2>2. PICK r : r = [Idle EXCEPT !.pc = "readRow", !.target = t0, !.row = i, !.amount = x]
    OBVIOUS
  <2>3. Unlock(w, t0, x) /\ Send(w, r) /\ shown[w] # None /\ UNCHANGED missed /\ x > 0
    BY <1>9, <2>1, <2>2 DEF WithdrawShown, Unlock
  <2>4. t0 \in Targets /\ x \in Nat
    <3>1. shown[w] \in ShownRows
      BY <2>3 DEF Sound, Shapes
    <3>2. QED
      BY <2>1, <2>3, <3>1 DEF ShownRows
  <2>5. r.target = t0 /\ r.pc = "readRow" /\ r.amount = x
    BY <2>2 DEF Idle
  <2>6. Unapplied(r) = x
    BY <2>5 DEF Unapplied
  <2>7. QED
    BY <1>1, <2>3, <2>4, <2>5, <2>6, UnlockTracks
<1>10. ASSUME NEW t0 \in Targets, NEW x \in 1..MaxAmount, WithdrawPart(w, t0, x)
       PROVE  Tracked(u, t)'
  <2>1. PICK r : r = [Idle EXCEPT !.pc = "readRows", !.target = t0, !.amount = x]
    OBVIOUS
  <2>2. Unlock(w, t0, x) /\ Send(w, r) /\ UNCHANGED missed
    BY <1>10, <2>1 DEF WithdrawPart
  <2>3. x \in Nat
    BY LedgerBounds
  <2>4. r.target = t0 /\ r.pc = "readRows" /\ r.amount = x
    BY <2>1 DEF Idle
  <2>5. Unapplied(r) = x
    BY <2>4 DEF Unapplied
  <2>6. QED
    BY <1>1, <2>2, <2>3, <2>4, <2>5, UnlockTracks
<1>11. CASE CheckSig(w)
  <2>1. tab[w].pc = "create" /\ UNCHANGED <<chain, missed>>
        /\ (tab' = [tab EXCEPT ![w] = Idle] \/ tab' = [tab EXCEPT ![w].pc = "insert"])
    BY <1>11 DEF CheckSig, At, Goto
  <2>2. PICK r : r = [tab[w] EXCEPT !.pc = "insert"]
    OBVIOUS
  <2>3. r.pc = "insert"
    BY <1>2, <2>2 DEF Requests
  <2>4. tab' = [tab EXCEPT ![w].pc = "insert"] => tab' = [tab EXCEPT ![w] = r]
    BY <1>2, <2>2
  <2>5. QED
    BY <1>4, <1>6, <2>1, <2>3, <2>4
<1>12. CASE ReadRow(w)
  <2>1. tab[w].pc = "readRow" /\ UNCHANGED chain
        /\ ((tab' = [tab EXCEPT ![w].pc = "deactivate"] /\ UNCHANGED missed) \/ GiveUp(w, tab[w].amount))
    BY <1>12 DEF ReadRow, At, Goto
  <2>2. PICK r : r = [tab[w] EXCEPT !.pc = "deactivate"]
    OBVIOUS
  <2>3. r.pc = "deactivate" /\ r.target = tab[w].target /\ r.amount = tab[w].amount
    BY <1>2, <2>2 DEF Requests
  <2>4. tab' = [tab EXCEPT ![w].pc = "deactivate"] => tab' = [tab EXCEPT ![w] = r]
    BY <1>2, <2>2
  <2>5. tab[w].amount = Unapplied(tab[w])
    BY <2>1 DEF Unapplied
  <2>6. CASE GiveUp(w, tab[w].amount)
    BY <1>1, <1>2, <2>1, <2>5, <2>6, GiveUpTracks
  <2>7. QED
    BY <1>5, <2>1, <2>3, <2>4, <2>6
<1>13. CASE ReadRows(w)
  <2>1. PICK todo, r : todo = RowsToConsume(Me(w), tab[w].target)
                       /\ r = [tab[w] EXCEPT !.pc = "consume", !.todo = todo]
    OBVIOUS
  <2>2. tab' = [tab EXCEPT ![w].pc = "consume", ![w].todo = todo] /\ tab[w].pc = "readRows"
        /\ UNCHANGED <<chain, missed>>
    BY <1>13, <2>1 DEF ReadRows, At
  <2>3. tab' = [tab EXCEPT ![w] = r]
    BY <1>2, <2>1, <2>2
  <2>4. r.pc = "consume" /\ r.target = tab[w].target /\ r.amount = tab[w].amount
    BY <1>2, <2>1 DEF Requests
  <2>5. QED
    BY <1>5, <2>2, <2>3, <2>4, ZenonT(30)
<1>14. CASE RefusePart(w)
  <2>1. GiveUp(w, tab[w].amount) /\ UNCHANGED chain /\ tab[w].amount = Unapplied(tab[w])
    BY <1>14 DEF RefusePart, At, Unapplied
  <2>2. QED
    BY <1>1, <1>2, <2>1, GiveUpTracks
<1>15. CASE Abort(w)
  <2>1. GiveUp(w, Unapplied(tab[w])) /\ UNCHANGED chain
    BY <1>15 DEF Abort
  <2>2. QED
    BY <1>1, <1>2, <2>1, GiveUpTracks
<1>16. CASE Covered(w)
  <2>1. PICK r : r = Refreshing(tab[w].target)
    OBVIOUS
  <2>2. tab' = [tab EXCEPT ![w] = r] /\ tab[w].amount = 0 /\ UNCHANGED <<chain, missed>>
    BY <1>16, <2>1 DEF Covered, Refresh, Refreshing
  <2>3. r.pc \in {"sumTag", "sumVotes"}
    BY <1>2, <2>1, RefreshSound
  <2>4. Unapplied(r) = 0 /\ Unapplied(tab[w]) = 0
    BY <2>2, <2>3 DEF Unapplied
  <2>5. QED
    BY <1>3, <2>2, <2>4
<1>17. CASE SumTag(w) \/ SaveTag(w) \/ SumVotes(w) \/ CountVotes(w) \/ SumStakes(w)
  <2>1. PICK r : r = tab'[w]
    OBVIOUS
  <2>2. /\ tab[w].pc \in {"sumTag", "saveTag", "sumVotes", "countVotes", "sumStakes"}
        /\ UNCHANGED <<chain, missed>>
    BY <1>17 DEF SumTag, SaveTag, SumVotes, CountVotes, SumStakes, At
  <2>3. r.pc \in {"saveTag", "sumVotes", "countVotes", "sumStakes", "saveApp"}
    BY <1>2, <1>17, <2>1 DEF SumTag, SaveTag, SumVotes, CountVotes, SumStakes, Requests
  <2>4. tab' = [tab EXCEPT ![w] = r]
    BY <1>2, <1>17, <2>1 DEF SumTag, SaveTag, SumVotes, CountVotes, SumStakes
  <2>5. QED
    BY <1>4, <2>2, <2>3, <2>4
<1>18. CASE SaveApp(w)
  BY <1>6, <1>18 DEF SaveApp, At
<1>19. QED
  BY <1>7, <1>8, <1>9, <1>10, <1>11, <1>12, <1>13, <1>14, <1>15, <1>16, <1>17, <1>18 DEF RowsAlone

LEMMA TracksKept ==
  ASSUME Sound, Sound', Grows, OverlapsNoted, Known, LedgerTracksChain, [Next]_vars
  PROVE  LedgerTracksChain'
<1> SUFFICES ASSUME ~ overlapped'.ever, NEW u \in Users, NEW t \in Targets
             PROVE  Tracked(u, t)'
  BY DEF LedgerTracksChain, Tracked
<1>1. ~ overlapped.ever /\ overlapped.now = {}
  BY NeverOverlapped
<1>2. Tracked(u, t) /\ \A w \in Tabs : RowsKnown(w)
  BY <1>1 DEF LedgerTracksChain, Tracked, Known
<1>3. ASSUME NEW w \in Tabs, Browser(w) \/ Handler(w) \/ Abort(w)
      PROVE  Tracked(u, t)'
  <2>1. CASE RowsAlone(w)
    BY <1>2, <2>1, AloneTracks
  <2>2. ASSUME NEW t0 \in Targets, NEW x \in 1..MaxAmount, Stake(w, t0, x)
        PROVE  Tracked(u, t)'
    BY <1>2, <2>2, StakeTracks
  <2>3. CASE Insert(w)
    <3>1. CASE ~ ViolatesUnique(tab[w].sig, tab[w].target)
      BY <1>2, <2>3, <3>1, InsertTracks
    <3>2. CASE ViolatesUnique(tab[w].sig, tab[w].target)
      <4>1. PICK r : r = Idle
        OBVIOUS
      <4>2. tab' = [tab EXCEPT ![w] = r] /\ tab[w].pc = "insert" /\ UNCHANGED <<rows, deposits, chain, missed>>
        BY <2>3, <3>2, <4>1 DEF Insert, At
      <4>3. Unapplied(r) = 0 /\ Unapplied(tab[w]) = 0
        BY <4>1, <4>2, IdleSound DEF Unapplied
      <4>4. QED
        BY <1>2, <4>2, <4>3, QuietTracks
    <3>3. QED
      BY <3>1, <3>2
  <2>4. CASE Deactivate(w)
    BY <1>2, <2>4, DeactivateTracks
  <2>5. CASE Consume(w)
    BY <1>2, <2>5, ConsumeTracks
  <2>6. QED
    BY <1>3, <2>1, <2>2, <2>3, <2>4, <2>5, TabSteps
<1>4. CASE Restart
  BY <1>2, <1>4, RestartTracks
<1>5. CASE UNCHANGED vars
  <2>1. UNCHANGED <<rows, deposits, chain, missed, tab>>
    BY <1>5 DEF vars
  <2>2. Ledger(u, t)' = Ledger(u, t)
    BY <2>1, LedgerStays
  <2>3. Unserved(u, t)' = Unserved(u, t)
    BY <2>1 DEF Unserved, unappliedOf, WithdrawingFrom, Me, Unapplied
  <2>4. QED
    BY <1>2, <2>1, <2>2, <2>3 DEF Tracked
<1>6. QED
  BY <1>3, <1>4, <1>5 DEF Next

-----------------------------------------------------------------------------
(***************************************************************************)
(* Theorems.                                                               *)
(***************************************************************************)
LEMMA InitEstablishesIInv == Init => IInv
<1> SUFFICES ASSUME Init
             PROVE  IInv
  OBVIOUS
<1>1. Sound
  BY InitEstablishesSound
<1>2. rows = <<>> /\ deposits = <<>> /\ DOMAIN rows = {} /\ DOMAIN deposits = {}
      /\ overlapped = [ever |-> FALSE, now |-> {}]
  BY DEF Init
<1>3. \A w \in Tabs : tab[w] = Idle /\ tab[w].pc = "idle" /\ Unapplied(tab[w]) = 0
  BY IdleSound DEF Init, Unapplied
<1>4. OverlapsNoted /\ Known
  BY <1>2, <1>3 DEF OverlapsNoted, Overlapping, Serving, Known, RowsKnown, TotalsKnown
<1>5. ActiveRowsPositive
  BY <1>2 DEF ActiveRowsPositive, Active
<1>6. ASSUME NEW u \in Users, NEW t \in Targets
      PROVE  Ledger(u, t) = chain[u][t] + Unserved(u, t) + missed[u][t]
  <2>1. ActiveOf(u, t) = {} /\ Unrecorded(u, t) = {}
    BY <1>2 DEF ActiveOf, Active, Unrecorded
  <2>2. SumOfRows(ActiveOf(u, t)) = 0
    <3> DEFINE f == amountOf
    <3> HIDE DEF f
    <3>1. SumFunctionOnSet(f, {}) = 0
      BY SumOfNone
    <3>2. QED
      BY <2>1, <3>1 DEF SumOfRows, f
  <2>3. SumFunctionOnSet(depositOf, Unrecorded(u, t)) = 0
    <3> DEFINE f == depositOf
    <3> HIDE DEF f
    <3>1. SumFunctionOnSet(f, {}) = 0
      BY SumOfNone
    <3>2. QED
      BY <2>1, <3>1 DEF f
  <2>4. Unserved(u, t) = 0
    <3> DEFINE W == WithdrawingFrom(u, t)
               f == unappliedOf
    <3>1. W \subseteq Tabs
      BY DEF WithdrawingFrom
    <3>2. \A w \in W : f[w] = 0
      BY <1>1, <1>3, <3>1, UnappliedIsNat DEF Sound
    <3> HIDE DEF W, f
    <3>3. SumFunctionOnSet(f, W) = 0
      BY <3>1, <3>2, FinitelyMany, FS_Subset, SumOfZeros
    <3>4. QED
      BY <3>3 DEF Unserved, W, f
  <2>5. chain[u][t] = 0 /\ missed[u][t] = 0
    BY DEF Init
  <2>6. QED
    BY <2>2, <2>3, <2>4, <2>5 DEF Ledger
<1>7. LedgerTracksChain
  BY <1>6 DEF LedgerTracksChain
<1>8. QED
  BY <1>1, <1>4, <1>5, <1>7 DEF IInv

LEMMA StepKeepsIInv == IInv /\ [Next]_vars => IInv'
<1> SUFFICES ASSUME IInv, [Next]_vars
             PROVE  IInv'
  OBVIOUS
<1>1. Sound /\ OverlapsNoted /\ Known /\ ActiveRowsPositive /\ LedgerTracksChain
  BY DEF IInv
<1>2. Sound' /\ Grows
  BY <1>1, StepKeepsSound
<1>3. OverlapsNoted' /\ Known' /\ ActiveRowsPositive'
  BY <1>1, OverlapsKept, KnownKept, PositiveKept
<1>4. LedgerTracksChain'
  BY <1>1, <1>2, TracksKept
<1>5. QED
  BY <1>2, <1>3, <1>4 DEF IInv

\* What requests, panels and handlers know of the ledger always holds of it, and the
\* ledger follows the chain: the inductive invariant.
THEOREM LedgerSound == Spec => []IInv
<1>1. QED
  BY InitEstablishesIInv, StepKeepsIInv, PTL DEF Spec

\* The ledger, the caches and the requests are well formed, and no active row is empty
\* unless handlers overlapped (stakes.rs and votes.rs, withdraw_partial).
THEOREM RowsWellFormed == Spec => []Inv
<1>1. IInv => Inv
  <2> SUFFICES ASSUME IInv
               PROVE  Inv
    OBVIOUS
  <2>1. Shapes /\ ActiveRowsPositive
    BY DEF IInv, Sound
  <2>2. DOMAIN tab = Tabs /\ DOMAIN shown = Tabs
    BY <2>1 DEF Shapes
  <2>3. TypeOK
    BY <2>1, <2>2 DEF Shapes, TypeOK, Rows, Deposits
  <2>4. QED
    BY <2>1, <2>3 DEF Inv
<1>2. QED
  BY <1>1, LedgerSound, PTL

\* However often a request is sent again, and however the handlers that serve it
\* interleave, a transaction becomes at most one row of each table (the unique index of
\* votes.rs and stakes.rs, create).
THEOREM TransactionsRecordedOnce == Spec => []RecordedOnce
<1>1. IInv => RecordedOnce
  BY DEF IInv, Sound
<1>2. QED
  BY <1>1, LedgerSound, PTL

\* Until two handlers overlap, the ledger accounts for the chain to the unit, through
\* lost requests, handlers that die, restarts and panels that are out of date.
THEOREM LedgerFollowsChain == Spec => []LedgerTracksChain
<1>1. IInv => LedgerTracksChain
  BY DEF IInv
<1>2. QED
  BY <1>1, LedgerSound, PTL

\* A handler that ran to its end with no other under way leaves the totals of the app and
\* of its tag equal to the ledger, whatever was in them before (engine.rs, refresh_app_tag
\* and refresh_app).
THEOREM RefreshRepairsTotals == Spec => CompletedHandlerLeavesTotalsExact
<1>1. IInv /\ [Next]_vars =>
        [\A w \in Tabs, t \in Targets :
           tab[w].target = t /\ SaveApp(w) /\ w \notin overlapped.now => TotalsExact(t)']_vars
  <2> SUFFICES ASSUME IInv, NEW w \in Tabs, NEW t \in Targets,
                      tab[w].target = t, SaveApp(w), w \notin overlapped.now
               PROVE  TotalsExact(t)'
    OBVIOUS
  <2>1. /\ tab[w].pc = "saveApp" /\ UNCHANGED <<rows, tagTotal>>
        /\ app' = [weight |-> tab[w].weight, count |-> tab[w].count, stakes |-> tab[w].stakes]
    BY DEF SaveApp, At
  <2>2. TotalsKnown(w)
    BY DEF IInv, Known
  <2>3. /\ tab[w].weight = SumOfRows(ActiveOn({VoteTarget}))
        /\ tab[w].count = Cardinality(ActiveOn({VoteTarget}))
        /\ tab[w].stakes = SumOfRows(ActiveOn(Tags))
        /\ t \in Tags => tagTotal[t] = SumOfRows(ActiveOn({t}))
    BY <2>1, <2>2 DEF TotalsKnown
  <2>4. /\ \A T : SumOfRows(ActiveOn(T))' = SumOfRows(ActiveOn(T))
        /\ Cardinality(ActiveOn({VoteTarget}))' = Cardinality(ActiveOn({VoteTarget}))
    BY <2>1, SumsStay
  <2>5. /\ app'.weight = SumOfRows(ActiveOn({VoteTarget}))'
        /\ app'.count = Cardinality(ActiveOn({VoteTarget}))'
        /\ app'.stakes = SumOfRows(ActiveOn(Tags))'
    BY <2>1, <2>3, <2>4
  <2>6. t \in Tags => tagTotal'[t] = SumOfRows(ActiveOn({t}))'
    BY <2>1, <2>3, <2>4
  <2>7. QED
    BY <2>5, <2>6 DEF TotalsExact
<1>2. QED
  BY <1>1, LedgerSound, PTL DEF Spec, CompletedHandlerLeavesTotalsExact

-----------------------------------------------------------------------------
(* The find funnel.                                                        *)

\* Answers to one facet each; those that are forwarded.
Histories == {h \in Seq(Answer) : \A i, j \in DOMAIN h : h[i].facet = h[j].facet => i = j}
Short == {h \in Histories : Len(h) <= MaxForwarded}

LEMMA TakeIsPrefix ==
  ASSUME NEW S, NEW s \in Seq(S), NEW n \in Nat
  PROVE  /\ Take(s, n) \in Seq(S)
         /\ Len(Take(s, n)) = (IF Len(s) < n THEN Len(s) ELSE n)
         /\ \A i \in 1..Len(Take(s, n)) : i \in DOMAIN s /\ Take(s, n)[i] = s[i]
         /\ Len(s) <= n => Take(s, n) = s
<1> DEFINE N == Len(s)
           m == IF N < n THEN N ELSE n
           t == SubSeq(s, 1, m)
<1>1. N \in Nat /\ DOMAIN s = 1..N /\ \A i \in 1..N : s[i] \in S
  BY LenProperties, ElementOfSeq
<1>2. SubSeq(s, 1, N) = s
  BY SubSeqFull
<1>3. Take(s, n) = t
  BY DEF Take
<1> HIDE DEF N
<1>4. m \in Nat /\ m <= N /\ (N <= n => m = N)
  BY <1>1
<1>5. m = IF N < n THEN N ELSE n
  OBVIOUS
<1> HIDE DEF m
<1>6. \A i \in 1..m : i \in 1..N
  BY <1>1, <1>4
<1>7. \A i \in 1..m : s[i] \in S
  BY <1>1, <1>6
<1>8. m \in Int /\ 1 \in Int
  BY <1>4
<1>9. /\ t \in Seq(S) /\ Len(t) = (IF 1 <= m THEN m - 1 + 1 ELSE 0)
      /\ \A i \in 1..(m - 1 + 1) : t[i] = s[1 + i - 1]
  BY <1>7, <1>8, SubSeqProperties
<1>10. m - 1 + 1 = m /\ (~(1 <= m) => m = 0) /\ \A i \in 1..m : 1 + i - 1 = i
  BY <1>4
<1>11. Len(t) = m /\ \A i \in 1..m : t[i] = s[i]
  BY <1>9, <1>10
<1>12. N <= n => t = s
  BY <1>2, <1>4
<1> HIDE DEF t
<1>13. \A i \in 1..Len(t) : i \in DOMAIN s /\ t[i] = s[i]
  BY <1>1, <1>6, <1>11
<1>14. QED
  BY <1>3, <1>5, <1>9, <1>11, <1>12, <1>13 DEF N

\* What is taken of a history is one.
LEMMA TakeOfHistory ==
  ASSUME NEW h \in Histories, NEW n \in Nat
  PROVE  Take(h, n) \in Histories /\ Len(Take(h, n)) <= n /\ (Len(h) <= n => Take(h, n) = h)
<1> DEFINE t == Take(h, n)
<1>1. h \in Seq(Answer) /\ \A i, j \in DOMAIN h : h[i].facet = h[j].facet => i = j
  BY DEF Histories
<1>2. /\ t \in Seq(Answer) /\ Len(t) = (IF Len(h) < n THEN Len(h) ELSE n)
      /\ \A i \in 1..Len(t) : i \in DOMAIN h /\ t[i] = h[i]
      /\ Len(h) <= n => t = h
  BY <1>1, TakeIsPrefix
<1>3. Len(t) <= n
  BY <1>1, <1>2, LenProperties
<1>4. DOMAIN t = 1..Len(t)
  BY <1>2, LenProperties
<1> HIDE DEF t
<1>5. \A i, j \in DOMAIN t : t[i].facet = t[j].facet => i = j
  BY <1>1, <1>2, <1>4
<1>6. QED
  BY <1>2, <1>3, <1>5 DEF Histories, t

\* One answer per facet, counted.
LEMMA HistoryCounts ==
  ASSUME NEW h \in Histories
  PROVE  Cardinality(FacetsOf(h)) = Len(h)
<1> DEFINE f == [i \in 1..Len(h) |-> h[i].facet]
<1>1. /\ Len(h) \in Nat /\ DOMAIN h = 1..Len(h)
      /\ \A i, j \in DOMAIN h : h[i].facet = h[j].facet => i = j
  BY LenProperties DEF Histories
<1>2. f \in [1..Len(h) -> FacetsOf(h)]
  BY <1>1 DEF FacetsOf
<1>3. \A y \in FacetsOf(h) : \E i \in 1..Len(h) : f[i] = y
  BY <1>1 DEF FacetsOf
<1>4. \A i, j \in 1..Len(h) : f[i] = f[j] => i = j
  BY <1>1
<1> HIDE DEF f
<1>5. f \in Injection(1..Len(h), FacetsOf(h)) /\ f \in Surjection(1..Len(h), FacetsOf(h))
  BY <1>2, <1>3, <1>4 DEF Injection, IsInjective, Surjection
<1>6. IsFiniteSet(1..Len(h)) /\ Cardinality(1..Len(h)) = Len(h)
  BY <1>1, FS_Interval
<1>7. QED
  BY <1>5, <1>6, FS_Surjection

\* Where a facet was answered last.
LEMMA LastAnswer ==
  ASSUME NEW s \in Seq(Answer), NEW f \in FacetsOf(s)
  PROVE  \E i \in DOMAIN s : s[i].facet = f /\ f \notin FacetsOf(SubSeq(s, i + 1, Len(s)))
<1> DEFINE N == Len(s)
           T == {k \in 0..N : k < N /\ s[N - k].facet = f}
<1>1. N \in Nat /\ DOMAIN s = 1..N /\ \A i \in 1..N : s[i] \in Answer
  BY LenProperties, ElementOfSeq
<1>2. PICK p \in 1..N : s[p].facet = f
  BY <1>1 DEF FacetsOf
<1> HIDE DEF N
<1>3. N - p \in 0..N /\ N - p < N /\ N - (N - p) = p
  BY <1>1, <1>2
<1>4. N - p \in T
  BY <1>2, <1>3
<1>b. \A k \in 0..N : k \in Nat
  BY <1>1
<1>5. T \subseteq Nat /\ T # {}
  BY <1>4, <1>b
<1> HIDE DEF T
<1>6. PICK m \in T : \A n \in T : m <= n
  BY <1>5, LeastNatural
<1> DEFINE i == N - m
           u == SubSeq(s, i + 1, N)
<1>7. m \in 0..N /\ m < N /\ s[i].facet = f
  BY <1>6 DEF T
<1>8. i \in 1..N /\ i \in Nat /\ i + 1 \in Int /\ N \in Int /\ N - i = m
  BY <1>1, <1>7
<1> HIDE DEF i
<1>9. \A j \in (i + 1)..N : s[j] \in Answer
  BY <1>1, <1>8
<1>10. /\ u \in Seq(Answer) /\ Len(u) = (IF i + 1 <= N THEN N - (i + 1) + 1 ELSE 0)
       /\ \A j \in 1..(N - (i + 1) + 1) : u[j] = s[(i + 1) + j - 1]
  BY <1>8, <1>9, SubSeqProperties
<1>11. DOMAIN u = 1..Len(u)
  BY <1>10, LenProperties
<1>12. N - (i + 1) + 1 = N - i /\ (~(i + 1 <= N) => N - i = 0)
  BY <1>1, <1>8
<1>13. Len(u) = N - i
  BY <1>10, <1>12
<1> HIDE DEF u
<1>14. ASSUME NEW j \in DOMAIN u, u[j].facet = f
       PROVE  FALSE
  <2>1. j \in 1..(N - i)
    BY <1>11, <1>13
  <2>2. j \in Nat /\ 1 <= j /\ j <= N - i /\ (i + 1) + j - 1 = i + j
    BY <2>1, <1>1, <1>8
  <2>3. u[j] = s[i + j]
    BY <2>1, <2>2, <1>10, <1>12
  <2>4. N - (i + j) \in 0..N /\ N - (i + j) < N /\ N - (N - (i + j)) = i + j
    BY <2>2, <1>1, <1>8
  <2>5. N - (i + j) \in T
    BY <2>3, <2>4, <1>14 DEF T
  <2>6. m <= N - (i + j)
    BY <2>5, <1>6
  <2>7. QED
    BY <2>2, <2>6, <1>1, <1>7, <1>8
<1>15. f \notin FacetsOf(u)
  BY <1>14 DEF FacetsOf
<1>16. s[i].facet = f
  BY <1>7 DEF i
<1>17. QED
  BY <1>1, <1>8, <1>15, <1>16 DEF u, N

\* The parts of dedupeAnswers: where a facet is answered first, and its last answer.
FirstAt(s, i) == s[i].facet \notin FacetsOf(Take(s, i - 1))
Firsts(s) == {i \in DOMAIN s : FirstAt(s, i)}
LatestAt(s, f) ==
  CHOOSE i \in DOMAIN s : s[i].facet = f /\ f \notin FacetsOf(SubSeq(s, i + 1, Len(s)))

LEMMA DedupeParts ==
  ASSUME NEW s
  PROVE  dedupeAnswers(s) = [k \in DOMAIN Keep(s, Firsts(s)) |->
                               s[LatestAt(s, Keep(s, Firsts(s))[k].facet)]]
  BY DEF dedupeAnswers, Firsts, FirstAt, LatestAt

LEMMA LatestIsThere ==
  ASSUME NEW s \in Seq(Answer), NEW f \in FacetsOf(s)
  PROVE  LatestAt(s, f) \in DOMAIN s /\ s[LatestAt(s, f)].facet = f
  BY LastAnswer DEF LatestAt

\* Each facet is answered once.
LEMMA DedupeIsHistory ==
  ASSUME NEW s \in Seq(Answer)
  PROVE  dedupeAnswers(s) \in Histories
<1> DEFINE K == Firsts(s)
           C == Cardinality(K)
           L(f) == LatestAt(s, f)
           d == dedupeAnswers(s)
<1>1. /\ Len(s) \in Nat /\ DOMAIN s = 1..Len(s) /\ K \subseteq 1..Len(s)
      /\ \A i \in 1..Len(s) : s[i] \in Answer
  BY LenProperties, ElementOfSeq DEF Firsts
<1>2. DOMAIN Keep(s, K) = 1..C /\ C \in 0..Len(s)
  BY <1>1, KeepIsInOrder
<1>3. PICK e : PlacesOf(e, s, K)
  BY <1>1, KeepIsInOrder
<1>4. C \in Nat
  BY <1>1, <1>2
<1>5. /\ e \in [1..C -> K]
      /\ Keep(s, K) = [n \in 1..C |-> s[e[n]]]
      /\ \A m, n \in 1..C : m < n => e[m] < e[n]
  BY <1>3 DEF PlacesOf
<1>6. d = [k \in 1..C |-> s[L(Keep(s, K)[k].facet)]]
  BY <1>2, DedupeParts
<1>7. \A n \in 1..C : e[n] \in K /\ Keep(s, K)[n] = s[e[n]]
  BY <1>5
<1> HIDE DEF K, C, L, d
<1>8. \A i \in DOMAIN s : s[i].facet \in FacetsOf(s)
  BY DEF FacetsOf
<1>9. ASSUME NEW n \in 1..C
      PROVE  d[n] \in Answer /\ d[n].facet = s[e[n]].facet
  <2>1. e[n] \in DOMAIN s /\ d[n] = s[L(s[e[n]].facet)]
    BY <1>1, <1>6, <1>7
  <2>2. s[e[n]].facet \in FacetsOf(s)
    BY <1>8, <2>1
  <2>3. L(s[e[n]].facet) \in DOMAIN s /\ s[L(s[e[n]].facet)].facet = s[e[n]].facet
    BY <2>2, LatestIsThere DEF L
  <2>4. QED
    BY <2>1, <2>3, <1>1
<1>10. d \in Seq(Answer) /\ Len(d) = C
  BY <1>4, <1>6, <1>9
<1>11. ASSUME NEW m \in 1..C, NEW n \in 1..C, m < n, d[m].facet = d[n].facet
       PROVE  FALSE
  <2> DEFINE a == e[m]
             b == e[n]
  <2>1. a \in K /\ b \in K /\ a < b /\ s[a].facet = s[b].facet
    BY <1>5, <1>7, <1>9, <1>11
  <2>2. a \in 1..Len(s) /\ b \in 1..Len(s) /\ FirstAt(s, b)
    BY <1>1, <2>1 DEF K, Firsts
  <2> HIDE DEF a, b
  <2>3. b - 1 \in Nat /\ a \in 1..(b - 1) /\ b - 1 < Len(s)
    BY <1>1, <2>1, <2>2
  <2> DEFINE t == Take(s, b - 1)
  <2>4. /\ t \in Seq(Answer) /\ Len(t) = b - 1
        /\ \A i \in 1..Len(t) : t[i] = s[i]
    BY <1>1, <2>3, TakeIsPrefix
  <2>5. a \in DOMAIN t /\ t[a] = s[a]
    BY <2>3, <2>4, LenProperties
  <2>6. s[a].facet \in FacetsOf(t)
    BY <2>5 DEF FacetsOf
  <2>7. QED
    BY <2>1, <2>2, <2>6 DEF FirstAt
<1>12. \A i, j \in 1..C : i # j => i < j \/ j < i
  BY <1>4
<1>13. \A i, j \in 1..C : d[i].facet = d[j].facet => i = j
  BY <1>11, <1>12
<1>14. d \in Histories
  BY <1>4, <1>10, <1>13, LenProperties DEF Histories
<1>15. QED
  BY <1>14 DEF d

\* A list kept whole is that list.
LEMMA KeepAll ==
  ASSUME NEW S, NEW s \in Seq(S)
  PROVE  Keep(s, DOMAIN s) = s
<1> DEFINE N == Len(s)
           K == 1..N
<1>1. N \in Nat /\ DOMAIN s = K
  BY LenProperties
<1>2. Cardinality(K) = N
  BY <1>1, FS_Interval
<1>3. \A k \in K : PlaceIn(K, k) = k
  <2> SUFFICES ASSUME NEW k \in K PROVE PlaceIn(K, k) = k
    OBVIOUS
  <2>1. {j \in K : j <= k} = 1..k
    BY <1>1
  <2>2. Cardinality(1..k) = k
    BY <1>1, FS_Interval
  <2>3. QED
    BY <2>1, <2>2 DEF PlaceIn
<1>4. \A n \in K : Nth(K, n) = n
  BY <1>3 DEF Nth
<1> HIDE DEF N, K
<1>5. Keep(s, K) = [n \in K |-> s[n]]
  BY <1>2, <1>4 DEF Keep, K
<1>6. s = [n \in K |-> s[n]]
  BY <1>1
<1>7. QED
  BY <1>1, <1>5, <1>6

LEMMA DedupeOfHistory ==
  ASSUME NEW h \in Histories
  PROVE  dedupeAnswers(h) = h
<1>1. /\ h \in Seq(Answer) /\ Len(h) \in Nat /\ DOMAIN h = 1..Len(h)
      /\ \A i, j \in DOMAIN h : h[i].facet = h[j].facet => i = j
  BY LenProperties DEF Histories
<1>2. ASSUME NEW i \in DOMAIN h PROVE FirstAt(h, i)
  <2> DEFINE t == Take(h, i - 1)
  <2>1. i - 1 \in Nat /\ i - 1 < Len(h) /\ i \in Int
    BY <1>1
  <2>2. /\ t \in Seq(Answer) /\ Len(t) = i - 1
        /\ \A j \in 1..Len(t) : j \in DOMAIN h /\ t[j] = h[j]
    BY <1>1, <2>1, TakeIsPrefix
  <2>3. DOMAIN t = 1..(i - 1)
    BY <2>2, LenProperties
  <2> HIDE DEF t
  <2>4. \A j \in DOMAIN t : t[j].facet # h[i].facet
    BY <1>1, <2>1, <2>2, <2>3
  <2>5. h[i].facet \notin FacetsOf(t)
    BY <2>4 DEF FacetsOf
  <2>6. QED
    BY <2>5 DEF FirstAt, t
<1>3. Firsts(h) = DOMAIN h
  BY <1>2 DEF Firsts
<1>4. Keep(h, Firsts(h)) = h
  BY <1>1, <1>3, KeepAll
<1>5. dedupeAnswers(h) = [k \in DOMAIN h |-> h[LatestAt(h, h[k].facet)]]
  BY <1>4, DedupeParts
<1>6. ASSUME NEW k \in DOMAIN h PROVE LatestAt(h, h[k].facet) = k
  <2>1. h[k].facet \in FacetsOf(h)
    BY DEF FacetsOf
  <2>2. LatestAt(h, h[k].facet) \in DOMAIN h /\ h[LatestAt(h, h[k].facet)].facet = h[k].facet
    BY <1>1, <2>1, LatestIsThere
  <2>3. QED
    BY <1>1, <2>2
<1>7. h = [k \in DOMAIN h |-> h[k]]
  BY <1>1
<1>8. [k \in DOMAIN h |-> h[LatestAt(h, h[k].facet)]] = [k \in DOMAIN h |-> h[k]]
  BY <1>6
<1>9. QED
  BY <1>5, <1>7, <1>8

\* Where a URL stops to hold up.
SoundUpto(url) == {n \in 0..Len(url) : \A i \in 1..n : url[i] # Damaged}
LastSound(url) == CHOOSE n \in SoundUpto(url) : \A m \in SoundUpto(url) : m <= n

LEMMA LastSoundIsThere ==
  ASSUME NEW url \in Seq(Entry)
  PROVE  /\ LastSound(url) \in SoundUpto(url)
         /\ \A m \in SoundUpto(url) : m <= LastSound(url)
<1> DEFINE N == Len(url)
           T == {k \in 0..N : N - k \in SoundUpto(url)}
<1>1. N \in Nat /\ \A n \in SoundUpto(url) : n \in 0..N
  BY LenProperties DEF SoundUpto
<1>2. 0 \in SoundUpto(url)
  BY <1>1 DEF SoundUpto
<1> HIDE DEF N
<1>3. N - N = 0 /\ N \in 0..N
  BY <1>1
<1>4. N \in T
  BY <1>2, <1>3
<1>5. T \subseteq Nat /\ T # {}
  BY <1>1, <1>4
<1> HIDE DEF T
<1>6. PICK m \in T : \A n \in T : m <= n
  BY <1>5, LeastNatural
<1>7. m \in 0..N /\ N - m \in SoundUpto(url)
  BY <1>6 DEF T
<1>8. ASSUME NEW n \in SoundUpto(url) PROVE n <= N - m
  <2>1. n \in 0..N
    BY <1>1
  <2>2. N - n \in 0..N /\ N - (N - n) = n
    BY <1>1, <2>1
  <2>3. N - n \in T
    BY <2>2 DEF T
  <2>4. m <= N - n
    BY <1>6, <2>3
  <2>5. QED
    BY <1>1, <1>7, <2>1, <2>4
<1>9. \E n \in SoundUpto(url) : \A j \in SoundUpto(url) : j <= n
  BY <1>7, <1>8
<1>10. QED
  BY <1>9 DEF LastSound

LEMMA ParseParts ==
  ASSUME NEW url
  PROVE  parseFunnelAnswers(url) = Take(dedupeAnswers(SubSeq(url, 1, LastSound(url))), MaxForwarded)
  BY DEF parseFunnelAnswers, LastSound, SoundUpto

\* Whatever a query string holds, what is read of it is a history that can be forwarded.
LEMMA ParseIsHistory ==
  ASSUME NEW url \in Seq(Entry)
  PROVE  parseFunnelAnswers(url) \in Short
<1> DEFINE n == LastSound(url)
           t == SubSeq(url, 1, n)
<1>1. n \in SoundUpto(url)
  BY LastSoundIsThere
<1>2. /\ Len(url) \in Nat
      /\ \A i \in 1..Len(url) : url[i] \in Entry
  BY LenProperties, ElementOfSeq
<1>3. n \in 0..Len(url) /\ \A i \in 1..n : url[i] # Damaged
  BY <1>1 DEF SoundUpto
<1> HIDE DEF n
<1>4. \A i \in 1..n : url[i] \in Answer
  BY <1>2, <1>3 DEF Entry
<1>5. n \in Int /\ 1 \in Int
  BY <1>2, <1>3
<1>6. t \in Seq(Answer)
  BY <1>4, <1>5, SubSeqProperties
<1> HIDE DEF t
<1>7. dedupeAnswers(t) \in Histories /\ MaxForwarded \in Nat
  BY <1>6, DedupeIsHistory, FunnelBounds
<1>8. Take(dedupeAnswers(t), MaxForwarded) \in Short
  BY <1>7, TakeOfHistory DEF Short
<1>9. QED
  BY <1>8, ParseParts DEF t, n

\* What the funnel writes is read back.
LEMMA ParseOfHistory ==
  ASSUME NEW h \in Short
  PROVE  parseFunnelAnswers(h) = h
<1>1. /\ h \in Histories /\ h \in Seq(Answer) /\ Len(h) <= MaxForwarded
      /\ MaxForwarded \in Nat /\ \A a \in Answer : a # Damaged
  BY FunnelBounds, FunnelData DEF Short, Histories
<1>2. Len(h) \in Nat /\ \A i \in 1..Len(h) : h[i] \in Answer
  BY <1>1, LenProperties, ElementOfSeq
<1>3. h \in Seq(Entry)
  BY <1>1, SeqMonotonic DEF Entry
<1>4. Len(h) \in SoundUpto(h)
  BY <1>1, <1>2 DEF SoundUpto
<1>5. LastSound(h) \in SoundUpto(h) /\ Len(h) <= LastSound(h)
  BY <1>3, <1>4, LastSoundIsThere
<1>6. LastSound(h) = Len(h)
  BY <1>2, <1>5 DEF SoundUpto
<1>7. SubSeq(h, 1, Len(h)) = h
  BY <1>1, SubSeqFull
<1>8. parseFunnelAnswers(h) = Take(dedupeAnswers(h), MaxForwarded)
  BY <1>6, <1>7, ParseParts
<1>9. QED
  BY <1>1, <1>8, DedupeOfHistory, TakeOfHistory

\* An answer is revised in place, or is the first to its facet.
LEMMA ReviseIsHistory ==
  ASSUME NEW h \in Histories, NEW a \in Answer
  PROVE  Revise(h, a) \in Histories
<1>1. /\ h \in Seq(Answer) /\ Len(h) \in Nat /\ DOMAIN h = 1..Len(h)
      /\ \A i, j \in DOMAIN h : h[i].facet = h[j].facet => i = j
      /\ \A i \in 1..Len(h) : h[i] \in Answer
  BY LenProperties, ElementOfSeq DEF Histories
<1>2. CASE a.facet \in FacetsOf(h)
  <2> DEFINE r == [i \in DOMAIN h |-> IF h[i].facet = a.facet THEN a ELSE h[i]]
  <2>1. r \in Seq(Answer)
    <3>1. r \in [1..Len(h) -> Answer]
      BY <1>1
    <3>2. QED
      BY <1>1, <3>1
  <2>2. DOMAIN r = DOMAIN h /\ \A i \in DOMAIN h : r[i].facet = h[i].facet
    OBVIOUS
  <2>3. Revise(h, a) = r
    BY <1>2 DEF Revise
  <2> HIDE DEF r
  <2>4. \A i, j \in DOMAIN r : r[i].facet = r[j].facet => i = j
    BY <1>1, <2>2
  <2>5. QED
    BY <2>1, <2>3, <2>4 DEF Histories
<1>3. CASE a.facet \notin FacetsOf(h)
  <2> DEFINE r == Append(h, a)
             N == Len(h)
  <2>1. /\ r \in Seq(Answer) /\ Len(r) = N + 1
        /\ \A i \in 1..N : r[i] = h[i]
        /\ r[N + 1] = a
    BY <1>1, AppendProperties
  <2>2. \A i \in DOMAIN h : h[i].facet # a.facet
    BY <1>3 DEF FacetsOf
  <2>3. DOMAIN r = 1..(N + 1)
    BY <2>1, LenProperties
  <2>4. Revise(h, a) = r
    BY <1>3 DEF Revise
  <2> HIDE DEF r
  <2>5. \A i \in 1..(N + 1) : i \in 1..N \/ i = N + 1
    BY <1>1
  <2>6. \A i, j \in DOMAIN r : r[i].facet = r[j].facet => i = j
    BY <1>1, <2>1, <2>2, <2>3, <2>5
  <2>7. QED
    BY <2>1, <2>4, <2>6 DEF Histories
<1>4. QED
  BY <1>2, <1>3

Asked == [id : Nat, answers : Histories, force : BOOLEAN]
Replies == [of : Histories, asked : Nat, done : BOOLEAN, facet : Facets \cup {Null},
            shortlist : Seq(Apps)]
Views == [cursor : Nat \ {0}, confirmed : BOOLEAN]
Navigations == {NoNavigation} \cup [kind : {"push", "replace"}, url : Histories]

\* A reply that is not done asks something.
ReplySound(r) == r = Null \/ (r \in Replies /\ (~r.done => r.facet \in Facets))

ReducerSound(as, res, ld, fl, rs, vw) ==
  /\ as \in Histories /\ ReplySound(res)
  /\ ld \in BOOLEAN /\ fl \in BOOLEAN
  /\ IsFiniteSet(rs) /\ rs \subseteq Asked
  /\ vw \in Views

\* The entries of the tab, of which only the first is another site's.
HistorySound(hs, p) ==
  /\ hs \in Seq(Seq(Entry) \cup {Outside}) /\ p \in 1..Len(hs)
  /\ \A i \in 2..Len(hs) : hs[i] \in Seq(Entry)

\* A navigation under way goes to what the funnel holds; with none, the entry shown says it.
NavigationSound(hs, p, nav, as) ==
  /\ nav \in Navigations
  /\ p > 1 =>
       \/ nav # NoNavigation /\ nav.url = as
       \/ /\ nav = NoNavigation
          /\ (\A i \in 2..(Len(hs) - 1) : hs[i] # hs[i + 1]) /\ Len(as) <= MaxForwarded =>
               parseFunnelAnswers(hs[p]) = as

Outcomes(m) ==
  [pc : {"idle", "waiting", "posting"}, app : Apps \cup {Null},
   kind : {"confirmed", "rejected"} \cup {Null}, answers : Histories, token : (1..m) \cup {Null}]

Unspent(t, rd) == t # Null => \A i \in DOMAIN rd : rd[i] # t

\* What is held or on its way was never shown to Cloudflare.
TokensSound(tk, oc, m, rd) ==
  /\ m \in Nat
  /\ tk \in [token : (1..m) \cup {Null}, spent : BOOLEAN]
  /\ oc \in Outcomes(m) /\ (oc.pc # "idle" => oc.app \in Apps)
  /\ rd \in Seq(1..m) /\ \A i, j \in DOMAIN rd : rd[i] = rd[j] => i = j
  /\ Unspent(oc.token, rd) /\ (~tk.spent => Unspent(tk.token, rd))

SessionsSound(ss) == \A s \in ss : s.app \in Apps /\ s.verified \in BOOLEAN

FunnelSound ==
  /\ ReducerSound(answers, result, loading, failed, inflight, view)
  /\ HistorySound(hist, pos) /\ landing \in Nat
  /\ NavigationSound(hist, pos, pending, answers)
  /\ challenge \in BOOLEAN /\ TokensSound(token, outcome, minted, redeemed)
  /\ SessionsSound(sessions)

LEMMA FunnelSoundIsInv ==
  ASSUME FunnelSound
  PROVE  FunnelInv
<1>1. /\ answers \in Histories /\ ReplySound(result)
      /\ loading \in BOOLEAN /\ failed \in BOOLEAN
      /\ inflight \subseteq Asked /\ view \in Views
  BY DEF FunnelSound, ReducerSound
<1>2. /\ pos \in 1..Len(hist) /\ hist \in Seq(Seq(Entry) \cup {Outside}) /\ landing \in Nat
      /\ NavigationSound(hist, pos, pending, answers)
  BY DEF FunnelSound, HistorySound
<1>3. /\ challenge \in BOOLEAN /\ minted \in Nat
      /\ token \in [token : (1..minted) \cup {Null}, spent : BOOLEAN]
      /\ outcome \in Outcomes(minted)
      /\ \A i, j \in DOMAIN redeemed : redeemed[i] = redeemed[j] => i = j
      /\ SessionsSound(sessions)
  BY DEF FunnelSound, TokensSound
<1>4. Histories \subseteq Seq(Answer)
  BY DEF Histories
<1>5. FunnelTypeOK
  <2>1. answers \in Seq(Answer)
    BY <1>1, <1>4
  <2>2. result \in [of : Seq(Answer), asked : Nat, done : BOOLEAN,
                    facet : Facets \cup {Null}, shortlist : Seq(Apps)] \cup {Null}
    BY <1>1, <1>4 DEF ReplySound, Replies
  <2>3. {loading, failed, challenge, view.confirmed, token.spent} \subseteq BOOLEAN
    BY <1>1, <1>3 DEF Views
  <2>4. \A q \in inflight : q \in [id : Nat, answers : Seq(Answer), force : BOOLEAN]
    BY <1>1, <1>4 DEF Asked
  <2>5. pos \in DOMAIN hist
    BY <1>2, LenProperties
  <2>6. pending.kind \in {"none", "push", "replace"} /\ pending.url \in Seq(Answer)
    <3>1. NoNavigation.kind = "none" /\ NoNavigation.url \in Seq(Answer)
      BY EmptySeq DEF NoNavigation
    <3>2. pending = NoNavigation \/ pending \in [kind : {"push", "replace"}, url : Histories]
      BY <1>2 DEF NavigationSound, Navigations
    <3>3. QED
      BY <1>4, <3>1, <3>2
  <2>7. {token.token, outcome.token} \subseteq 1..minted \cup {Null}
    BY <1>3 DEF Outcomes
  <2>8. outcome.pc \in {"idle", "waiting", "posting"}
    BY <1>3 DEF Outcomes
  <2>9. \A s \in sessions : s.app \in Apps /\ s.verified \in BOOLEAN
    BY <1>3 DEF SessionsSound
  <2>10. QED
    BY <1>2, <2>1, <2>2, <2>3, <2>4, <2>5, <2>6, <2>7, <2>8, <2>9 DEF FunnelTypeOK
<1>6. OneAnswerPerFacet
  <2>1. \A r \in inflight : r.answers \in Histories
    BY <1>1 DEF Asked
  <2>2. \A s \in Histories : Cardinality(FacetsOf(s)) = Len(s)
    BY HistoryCounts
  <2>3. QED
    BY <1>1, <2>1, <2>2 DEF OneAnswerPerFacet
<1>7. UrlAgrees
  BY <1>2 DEF UrlAgrees, OnSite, Readable, Distinguishable, NavigationSound
<1>8. TokenRedeemedOnce
  BY <1>3 DEF TokenRedeemedOnce
<1>9. QED
  BY <1>5, <1>6, <1>7, <1>8 DEF FunnelInv

-----------------------------------------------------------------------------
\* There is a number for another request.
LEMMA SentIsSound ==
  ASSUME NEW rs, IsFiniteSet(rs), rs \subseteq Asked, NEW h \in Histories, NEW f \in BOOLEAN
  PROVE  IsFiniteSet(Sent(rs, h, f)) /\ Sent(rs, h, f) \subseteq Asked
<1> DEFINE C == Cardinality(rs)
           ids == {r.id : r \in rs}
           g == [r \in rs |-> r.id]
           free == CHOOSE n \in 1..(C + 1) : \A r \in rs : r.id # n
           new == [id |-> free, answers |-> h, force |-> f]
<1>1. C \in Nat
  BY FS_CardinalityType
<1>2. g \in Surjection(rs, ids)
  BY DEF Surjection
<1>3. IsFiniteSet(ids) /\ Cardinality(ids) <= C
  BY <1>2, FS_Surjection
<1>4. Cardinality(1..(C + 1)) = C + 1
  BY <1>1, FS_Interval
<1>5. ~(1..(C + 1) \subseteq ids)
  <2> SUFFICES ASSUME 1..(C + 1) \subseteq ids PROVE FALSE
    OBVIOUS
  <2>1. Cardinality(1..(C + 1)) <= Cardinality(ids)
    BY <1>3, FS_Subset
  <2>2. Cardinality(ids) \in Nat
    BY <1>3, FS_CardinalityType
  <2>3. QED
    BY <2>1, <2>2, <1>1, <1>3, <1>4
<1>6. \E n \in 1..(C + 1) : \A r \in rs : r.id # n
  BY <1>5
<1>7. free \in 1..(C + 1)
  BY <1>6
<1>8. free \in Nat
  BY <1>1, <1>7
<1> HIDE DEF free, C
<1>9. new \in Asked
  BY <1>8 DEF Asked
<1>10. Sent(rs, h, f) = rs \cup {new}
  BY DEF Sent, free, C
<1>11. IsFiniteSet(rs \cup {new})
  BY FS_AddElement
<1>12. QED
  BY <1>9, <1>10, <1>11

LEMMA FirstViewIsSound == FirstView \in Views
  BY DEF FirstView, Views

LEMMA NoReplyIsSound == ReplySound(Null)
  BY DEF ReplySound

\* The parts of the reducer's state.
LEMMA ReducerParts ==
  ASSUME FunnelSound
  PROVE  /\ answers \in Histories /\ ReplySound(result)
         /\ loading \in BOOLEAN /\ failed \in BOOLEAN
         /\ IsFiniteSet(inflight) /\ inflight \subseteq Asked /\ view \in Views
  BY DEF FunnelSound, ReducerSound

LEMMA AwaitingKeeps ==
  ASSUME NEW rs, IsFiniteSet(rs), rs \subseteq Asked, answers' \in Histories,
         ReplySound(result'), Awaiting(rs)
  PROVE  ReducerSound(answers', result', loading', failed', inflight', view')
<1>1. inflight' = rs /\ loading' = TRUE /\ failed' = FALSE /\ view' = FirstView
  BY DEF Awaiting
<1>2. QED
  BY <1>1, FirstViewIsSound DEF ReducerSound

LEMMA RequestKeeps ==
  ASSUME FunnelSound, NEW h \in Histories, NEW f \in BOOLEAN, Request(h, f),
         answers' \in Histories, ReplySound(result')
  PROVE  ReducerSound(answers', result', loading', failed', inflight', view')
<1>1. IsFiniteSet(Sent(inflight, h, f)) /\ Sent(inflight, h, f) \subseteq Asked
  BY ReducerParts, SentIsSound
<1>2. Awaiting(Sent(inflight, h, f))
  BY DEF Request
<1>3. QED
  BY <1>1, <1>2, AwaitingKeeps

LEMMA MoveToKeeps ==
  ASSUME FunnelSound, NEW h \in Histories, MoveTo(h)
  PROVE  /\ answers' = h
         /\ ReducerSound(answers', result', loading', failed', inflight', view')
<1>1. answers' = h /\ result' = Null /\ Request(h, FALSE)
  BY DEF MoveTo
<1>2. QED
  BY <1>1, RequestKeeps, NoReplyIsSound

LEMMA ReducerUnchanged ==
  ASSUME FunnelSound, UNCHANGED reducerVars
  PROVE  /\ answers' = answers
         /\ ReducerSound(answers', result', loading', failed', inflight', view')
<1>1. /\ answers' = answers /\ result' = result /\ loading' = loading
      /\ failed' = failed /\ inflight' = inflight /\ view' = view
  BY DEF reducerVars
<1>2. QED
  BY <1>1 DEF FunnelSound

\* What the engine replies to a history that is forwarded.
LEMMA EngineReplies ==
  ASSUME NEW h \in Short, NEW f \in BOOLEAN
  PROVE  ReplySound(Engine(h, f))
<1> DEFINE open == Facets \ FacetsOf(h)
           done == f \/ open = {} \/ Len(h) >= MaxQuestions
           list == IF done THEN Shortlist(h) ELSE <<>>
           next == IF done THEN Null ELSE CHOOSE x \in open : TRUE
           e == Engine(h, f)
<1>1. h \in Histories /\ h \in Seq(Answer) /\ Len(h) \in Nat /\ Len(h) \in 0..MaxForwarded
  BY LenProperties, FunnelBounds DEF Short, Histories
<1>2. h \in [1..Len(h) -> Answer]
  BY <1>1, LenProperties
<1>3. Shortlist(h) \in Seq(Apps)
  BY <1>1, <1>2, FunnelData
<1>4. <<>> \in Seq(Apps)
  BY EmptySeq
<1>5. done \in BOOLEAN
  OBVIOUS
<1>6. ~done => open # {}
  OBVIOUS
<1>7. e = [of |-> h, asked |-> Len(h), done |-> done, facet |-> next, shortlist |-> list]
  BY DEF Engine
<1> HIDE DEF open, e
<1>8. next \in Facets \cup {Null} /\ (~done => next \in Facets)
  <2>1. CASE done
    BY <2>1
  <2>2. CASE ~done
    <3>1. (CHOOSE x \in open : TRUE) \in open
      BY <1>6, <2>2
    <3>2. next \in open
      BY <2>2, <3>1
    <3>3. QED
      BY <3>2 DEF open
  <2>3. QED
    BY <2>1, <2>2
<1>9. list \in Seq(Apps)
  BY <1>3, <1>4
<1> HIDE DEF done, list, next
<1>10. e \in Replies
  BY <1>1, <1>5, <1>7, <1>8, <1>9 DEF Replies
<1>11. ~e.done => e.facet \in Facets
  BY <1>7, <1>8
<1>12. QED
  BY <1>10, <1>11 DEF ReplySound, e

-----------------------------------------------------------------------------
LEMMA KindsDiffer ==
  ASSUME NEW h \in Histories, NEW k \in {"push", "replace"}, Navigate(k, h)
  PROVE  pending' \in Navigations /\ pending' # NoNavigation /\ pending'.url = h
<1>1. pending' = [kind |-> k, url |-> h]
  BY DEF Navigate
<1>2. pending'.kind # "none"
  BY <1>1
<1>3. NoNavigation.kind = "none"
  BY DEF NoNavigation
<1>4. pending' \in Navigations /\ pending'.url = h
  BY <1>1 DEF Navigations
<1>5. QED
  BY <1>2, <1>3, <1>4

LEMMA EmptyHistory == <<>> \in Histories /\ Len(<<>>) = 0
<1>1. <<>> \in Seq(Answer) /\ Len(<<>>) = 0 /\ DOMAIN <<>> = {}
  BY EmptySeq
<1>2. QED
  BY <1>1 DEF Histories

LEMMA NoNavigationIsOne == NoNavigation \in Navigations
  BY DEF Navigations

\* A navigation just started goes to what the funnel holds now.
LEMMA NavigateKeeps ==
  ASSUME answers' \in Histories, NEW k \in {"push", "replace"}, Navigate(k, answers')
  PROVE  \A hs, p : NavigationSound(hs, p, pending', answers')
<1>1. pending' \in Navigations /\ pending' # NoNavigation /\ pending'.url = answers'
  BY KindsDiffer
<1>2. QED
  BY <1>1 DEF NavigationSound

\* So does one that corrects the entry the funnel was restored from.
LEMMA CorrectUrlKeeps ==
  ASSUME NEW url \in Seq(Entry), CorrectUrl(url), answers' = parseFunnelAnswers(url),
         NEW hs, NEW p, p > 1 => hs[p] = url
  PROVE  NavigationSound(hs, p, pending', answers')
<1>1. answers' \in Histories
  BY ParseIsHistory DEF Short
<1>2. CASE url # parseFunnelAnswers(url)
  BY <1>1, <1>2, NavigateKeeps DEF CorrectUrl
<1>3. CASE url = parseFunnelAnswers(url)
  <2>1. pending' = NoNavigation
    BY <1>3 DEF CorrectUrl
  <2>2. QED
    BY <2>1, NoNavigationIsOne DEF NavigationSound
<1>4. QED
  BY <1>2, <1>3

LEMMA ReconcileKeeps ==
  ASSUME FunnelSound, NEW url \in Seq(Entry), reconcileUrlAnswers(url)
  PROVE  /\ answers' = parseFunnelAnswers(url) /\ CorrectUrl(url)
         /\ ReducerSound(answers', result', loading', failed', inflight', view')
<1> DEFINE restored == parseFunnelAnswers(url)
<1>1. restored \in Histories
  BY ParseIsHistory DEF Short
<1>2. /\ CorrectUrl(url)
      /\ \/ restored # answers /\ MoveTo(restored)
         \/ /\ restored = answers
            /\ UNCHANGED <<answers, result>>
            /\ IF result = Null /\ ~loading THEN Request(restored, FALSE)
               ELSE UNCHANGED <<inflight, loading, failed, view>>
  BY DEF reconcileUrlAnswers
<1> HIDE DEF restored
<1>3. CASE MoveTo(restored)
  BY <1>1, <1>2, <1>3, MoveToKeeps DEF restored
<1>4. CASE restored = answers /\ UNCHANGED <<answers, result>> /\ Request(restored, FALSE)
  <2>1. answers' = restored /\ answers' \in Histories /\ ReplySound(result')
    BY <1>4, ReducerParts
  <2>2. ReducerSound(answers', result', loading', failed', inflight', view')
    BY <1>1, <1>4, <2>1, RequestKeeps
  <2>3. QED
    BY <1>2, <2>1, <2>2 DEF restored
<1>5. CASE restored = answers /\ UNCHANGED <<answers, result>>
           /\ UNCHANGED <<inflight, loading, failed, view>>
  BY <1>2, <1>5, ReducerUnchanged DEF reducerVars, restored
<1>6. QED
  BY <1>2, <1>3, <1>4, <1>5

\* The effect leaves the funnel as it was only where the same entry is shown, or none.
LEMMA EffectKeeps ==
  ASSUME FunnelSound, HistorySound(hist', pos'), Effect,
         pos' > 1 /\ hist'[pos'] = hist[pos] /\ Len(answers) <= MaxForwarded
           /\ (\A i \in 2..(Len(hist') - 1) : hist'[i] # hist'[i + 1]) =>
             parseFunnelAnswers(hist'[pos']) = answers
  PROVE  /\ ReducerSound(answers', result', loading', failed', inflight', view')
         /\ NavigationSound(hist', pos', pending', answers')
<1>1. CASE ~ReadsAgain
  <2>1. pending' = NoNavigation /\ UNCHANGED reducerVars
    BY <1>1 DEF Effect
  <2>2. /\ answers' = answers
        /\ ReducerSound(answers', result', loading', failed', inflight', view')
    BY <2>1, ReducerUnchanged
  <2>3. pos' > 1 => hist'[pos'] = hist[pos]
    BY <1>1 DEF ReadsAgain
  <2>4. NavigationSound(hist', pos', pending', answers')
    BY <2>1, <2>2, <2>3, NoNavigationIsOne DEF NavigationSound
  <2>5. QED
    BY <2>2, <2>4
<1>2. CASE ReadsAgain
  <2>1. reconcileUrlAnswers(hist'[pos'])
    BY <1>2 DEF Effect
  <2>2. pos' \in 2..Len(hist')
    <3>1. Len(hist') \in Nat /\ pos' \in 1..Len(hist')
      BY LenProperties DEF HistorySound
    <3>2. QED
      BY <3>1, <1>2 DEF ReadsAgain
  <2>3. hist'[pos'] \in Seq(Entry)
    BY <2>2 DEF HistorySound
  <2>4. /\ answers' = parseFunnelAnswers(hist'[pos']) /\ CorrectUrl(hist'[pos'])
        /\ ReducerSound(answers', result', loading', failed', inflight', view')
    BY <2>1, <2>3, ReconcileKeeps
  <2>5. NavigationSound(hist', pos', pending', answers')
    BY <2>3, <2>4, CorrectUrlKeeps
  <2>6. QED
    BY <2>4, <2>5
<1>3. QED
  BY <1>1, <1>2

LEMMA OutcomesUnchanged ==
  ASSUME FunnelSound, UNCHANGED outcomeVars
  PROVE  /\ challenge' \in BOOLEAN /\ TokensSound(token', outcome', minted', redeemed')
         /\ SessionsSound(sessions')
<1>1. /\ token' = token /\ challenge' = challenge /\ outcome' = outcome
      /\ minted' = minted /\ redeemed' = redeemed /\ sessions' = sessions
  BY DEF outcomeVars
<1>2. QED
  BY <1>1 DEF FunnelSound

LEMMA BrowserUnchanged ==
  ASSUME FunnelSound, UNCHANGED browserVars, answers' = answers
  PROVE  /\ HistorySound(hist', pos') /\ landing' \in Nat
         /\ NavigationSound(hist', pos', pending', answers')
<1>1. hist' = hist /\ pos' = pos /\ pending' = pending /\ landing' = landing
  BY DEF browserVars
<1>2. QED
  BY <1>1 DEF FunnelSound

LEMMA HistoryUnchanged ==
  ASSUME FunnelSound, UNCHANGED <<hist, pos, landing>>
  PROVE  HistorySound(hist', pos') /\ landing' \in Nat
  BY DEF FunnelSound

LEMMA ResolvedKeeps ==
  ASSUME FunnelSound, NEW r, Resolved(r)
  PROVE  FunnelSound'
<1> DEFINE h == Take(dedupeAnswers(r.answers), MaxForwarded)
<1>1. /\ r \in inflight /\ inflight' = inflight \ {r} /\ result' = Engine(h, r.force)
      /\ loading' = FALSE /\ failed' = FALSE /\ (view' = view \/ view' = FirstView)
      /\ answers' = answers /\ UNCHANGED browserVars /\ UNCHANGED outcomeVars
  BY DEF Resolved, toFindNextInput
<1>2. r \in Asked /\ r.answers \in Histories /\ r.force \in BOOLEAN
  BY <1>1, ReducerParts DEF Asked
<1>3. h \in Short
  BY <1>2, DedupeOfHistory, TakeOfHistory, FunnelBounds DEF Short
<1> HIDE DEF h
<1>4. ReplySound(result')
  BY <1>1, <1>2, <1>3, EngineReplies
<1>5. IsFiniteSet(inflight') /\ inflight' \subseteq Asked
  BY <1>1, ReducerParts, FS_RemoveElement
<1>6. answers' \in Histories /\ view' \in Views
  BY <1>1, ReducerParts, FirstViewIsSound
<1>7. ReducerSound(answers', result', loading', failed', inflight', view')
  BY <1>1, <1>4, <1>5, <1>6 DEF ReducerSound
<1>8. QED
  BY <1>1, <1>7, BrowserUnchanged, OutcomesUnchanged DEF FunnelSound

LEMMA FailedKeeps ==
  ASSUME FunnelSound, NEW r, Failed(r)
  PROVE  FunnelSound'
<1>1. /\ inflight' = inflight \ {r} /\ result' = result
      /\ loading' = FALSE /\ failed' = TRUE /\ view' = view
      /\ answers' = answers /\ UNCHANGED browserVars /\ UNCHANGED outcomeVars
  BY DEF Failed
<1>2. IsFiniteSet(inflight') /\ inflight' \subseteq Asked
  BY <1>1, ReducerParts, FS_RemoveElement
<1>3. answers' \in Histories /\ view' \in Views /\ ReplySound(result')
  BY <1>1, ReducerParts
<1>4. ReducerSound(answers', result', loading', failed', inflight', view')
  BY <1>1, <1>2, <1>3 DEF ReducerSound
<1>5. QED
  BY <1>1, <1>4, BrowserUnchanged, OutcomesUnchanged DEF FunnelSound

-----------------------------------------------------------------------------
LEMMA HistoryParts ==
  ASSUME NEW hs, NEW p, HistorySound(hs, p)
  PROVE  /\ hs \in Seq(Seq(Entry) \cup {Outside})
         /\ Len(hs) \in Nat /\ DOMAIN hs = 1..Len(hs) /\ p \in 1..Len(hs) /\ p \in Int
         /\ \A i \in 1..Len(hs) : hs[i] \in Seq(Entry) \cup {Outside}
         /\ \A i \in 2..Len(hs) : hs[i] \in Seq(Entry)
<1>1. /\ hs \in Seq(Seq(Entry) \cup {Outside}) /\ p \in 1..Len(hs)
      /\ \A i \in 2..Len(hs) : hs[i] \in Seq(Entry)
  BY DEF HistorySound
<1>2. Len(hs) \in Nat /\ DOMAIN hs = 1..Len(hs)
  BY <1>1, LenProperties
<1>3. \A i \in 1..Len(hs) : hs[i] \in Seq(Entry) \cup {Outside}
  BY <1>1, ElementOfSeq
<1>4. QED
  BY <1>1, <1>2, <1>3

LEMMA HistoriesAreUrls == Histories \subseteq Seq(Entry)
<1>1. \A h \in Histories : h \in Seq(Answer)
  BY DEF Histories
<1>2. \A h \in Seq(Answer) : h \in Seq(Entry)
  BY SeqMonotonic DEF Entry
<1>3. QED
  BY <1>1, <1>2

\* A push drops what was ahead.
LEMMA PushedHistory ==
  ASSUME NEW hs, NEW p, HistorySound(hs, p), NEW url \in Seq(Entry)
  PROVE  /\ HistorySound(Append(Take(hs, p), url), p + 1)
         /\ Append(Take(hs, p), url)[p + 1] = url
<1> DEFINE Pages == Seq(Entry) \cup {Outside}
           t == Take(hs, p)
           u == Append(t, url)
<1>1. /\ hs \in Seq(Pages) /\ Len(hs) \in Nat /\ p \in 1..Len(hs) /\ p \in Nat
      /\ \A i \in 2..Len(hs) : hs[i] \in Seq(Entry)
  BY HistoryParts
<1>2. url \in Pages
  OBVIOUS
<1> HIDE DEF Pages
<1>3. /\ t \in Seq(Pages) /\ Len(t) = (IF Len(hs) < p THEN Len(hs) ELSE p)
      /\ \A i \in 1..Len(t) : i \in DOMAIN hs /\ t[i] = hs[i]
  BY <1>1, TakeIsPrefix
<1>4. Len(t) = p
  BY <1>1, <1>3
<1> HIDE DEF t
<1>5. /\ u \in Seq(Pages) /\ Len(u) = p + 1
      /\ \A i \in 1..p : u[i] = t[i]
      /\ u[p + 1] = url
  BY <1>2, <1>3, <1>4, AppendProperties
<1> HIDE DEF u
<1>6. \A i \in 2..(p + 1) : i = p + 1 \/ (i \in 2..Len(hs) /\ i \in 1..p)
  BY <1>1
<1>7. \A i \in 2..(p + 1) : u[i] \in Seq(Entry)
  BY <1>1, <1>3, <1>4, <1>5, <1>6
<1>8. p + 1 \in 1..(p + 1)
  BY <1>1
<1>9. QED
  BY <1>5, <1>7, <1>8 DEF HistorySound, Pages, u, t

LEMMA ReplacedHistory ==
  ASSUME NEW hs, NEW p, HistorySound(hs, p), NEW url \in Seq(Entry)
  PROVE  /\ HistorySound([hs EXCEPT ![p] = url], p)
         /\ [hs EXCEPT ![p] = url][p] = url
<1> DEFINE Pages == Seq(Entry) \cup {Outside}
           u == [hs EXCEPT ![p] = url]
<1>1. /\ hs \in Seq(Pages) /\ Len(hs) \in Nat /\ p \in 1..Len(hs)
      /\ \A i \in 2..Len(hs) : hs[i] \in Seq(Entry)
  BY HistoryParts
<1>2. url \in Pages
  OBVIOUS
<1> HIDE DEF Pages
<1>3. /\ u \in Seq(Pages) /\ Len(u) = Len(hs)
      /\ \A i \in 1..Len(hs) : u[i] = IF i = p THEN url ELSE hs[i]
  BY <1>1, <1>2, ExceptSeq
<1> HIDE DEF u
<1>4. \A i \in 2..Len(hs) : i \in 1..Len(hs)
  BY <1>1
<1>5. \A i \in 2..Len(u) : u[i] \in Seq(Entry)
  BY <1>1, <1>3, <1>4
<1>6. QED
  BY <1>1, <1>3, <1>5 DEF HistorySound, Pages, u

\* A navigation that ends on the page it began on takes nothing from the funnel.
LEMMA CommitShows ==
  ASSUME FunnelSound, OnSite, Commit
  PROVE  /\ pending.url = answers /\ answers \in Seq(Entry)
         /\ HistorySound(hist', pos') /\ hist'[pos'] = answers
<1> DEFINE url == pending.url
<1>1. /\ pending # NoNavigation
      /\ IF pending.kind = "push" /\ url # hist[pos]
         THEN hist' = Append(Take(hist, pos), url) /\ pos' = pos + 1
         ELSE hist' = [hist EXCEPT ![pos] = url] /\ pos' = pos
  BY DEF Commit
<1>2. HistorySound(hist, pos) /\ NavigationSound(hist, pos, pending, answers)
  BY DEF FunnelSound
<1>3. url = answers /\ url \in Histories /\ url \in Seq(Entry)
  BY <1>1, <1>2, ReducerParts, HistoriesAreUrls DEF NavigationSound, OnSite
<1> HIDE DEF url
<1>4. CASE pending.kind = "push" /\ url # hist[pos]
  <2>1. HistorySound(Append(Take(hist, pos), url), pos + 1)
        /\ Append(Take(hist, pos), url)[pos + 1] = url
    BY <1>2, <1>3, PushedHistory
  <2>2. hist' = Append(Take(hist, pos), url) /\ pos' = pos + 1
    BY <1>1, <1>4
  <2>3. QED
    BY <1>3, <2>1, <2>2 DEF url
<1>5. CASE ~(pending.kind = "push" /\ url # hist[pos])
  BY <1>1, <1>2, <1>3, <1>5, ReplacedHistory DEF url
<1>6. QED
  BY <1>4, <1>5

LEMMA CommitKeeps ==
  ASSUME FunnelSound, OnSite, Commit
  PROVE  FunnelSound'
<1>1. Effect /\ UNCHANGED landing /\ UNCHANGED outcomeVars
  BY DEF Commit
<1>2. HistorySound(hist', pos') /\ hist'[pos'] = answers /\ answers \in Histories
  BY CommitShows, ReducerParts
<1>3. Len(answers) <= MaxForwarded => parseFunnelAnswers(hist'[pos']) = answers
  BY <1>2, ParseOfHistory DEF Short
<1>4. /\ ReducerSound(answers', result', loading', failed', inflight', view')
      /\ NavigationSound(hist', pos', pending', answers')
  BY <1>1, <1>2, <1>3, EffectKeeps
<1>5. landing' \in Nat
  BY <1>1 DEF FunnelSound
<1>6. QED
  BY <1>1, <1>2, <1>4, <1>5, OutcomesUnchanged DEF FunnelSound

\* Between two entries that differ the funnel is restored.
LEMMA BrowserButtonKeeps ==
  ASSUME FunnelSound, BrowserButton
  PROVE  FunnelSound'
<1>1. PICK to \in {pos - 1, pos + 1} \cap DOMAIN hist : Traverse(to)
  BY DEF BrowserButton
<1>2. hist' = hist /\ pos' = to /\ Effect /\ OnSite /\ UNCHANGED <<landing, outcomeVars>>
  BY <1>1 DEF BrowserButton, Traverse, Click
<1>3. HistorySound(hist, pos) /\ landing \in Nat
  BY DEF FunnelSound
<1>4. /\ Len(hist) \in Nat /\ DOMAIN hist = 1..Len(hist) /\ pos \in 1..Len(hist) /\ pos > 1
      /\ hist \in Seq(Seq(Entry) \cup {Outside})
      /\ \A i \in 2..Len(hist) : hist[i] \in Seq(Entry)
  BY <1>2, <1>3, HistoryParts DEF OnSite
<1>5. pos' \in 1..Len(hist) /\ (pos' = pos - 1 \/ pos' = pos + 1)
  BY <1>1, <1>2, <1>4
<1>6. HistorySound(hist', pos')
  BY <1>2, <1>4, <1>5 DEF HistorySound
<1>7. pos' > 1 /\ hist'[pos'] = hist[pos] => \E i \in 2..(Len(hist') - 1) : hist'[i] = hist'[i + 1]
  <2> SUFFICES ASSUME pos' > 1, hist'[pos'] = hist[pos]
               PROVE  \E i \in 2..(Len(hist) - 1) : hist[i] = hist[i + 1]
    BY <1>2
  <2>1. CASE pos' = pos - 1
    <3>1. pos - 1 \in 2..(Len(hist) - 1) /\ (pos - 1) + 1 = pos
      BY <1>4, <1>5, <2>1
    <3>2. QED
      BY <3>1, <2>1, <1>2
  <2>2. CASE pos' = pos + 1
    <3>1. pos \in 2..(Len(hist) - 1)
      BY <1>4, <1>5, <2>2
    <3>2. QED
      BY <3>1, <2>2, <1>2
  <2>3. QED
    BY <1>5, <2>1, <2>2
<1>8. /\ ReducerSound(answers', result', loading', failed', inflight', view')
      /\ NavigationSound(hist', pos', pending', answers')
  BY <1>2, <1>6, <1>7, EffectKeeps
<1>9. landing' \in Nat /\ UNCHANGED outcomeVars
  BY <1>2, <1>3
<1>10. QED
  BY <1>6, <1>8, <1>9, OutcomesUnchanged DEF FunnelSound

-----------------------------------------------------------------------------
\* A step of the page that also starts a navigation to what the funnel then holds.
LEMMA MoveAndNavigate ==
  ASSUME FunnelSound, NEW h \in Histories, NEW k \in {"push", "replace"},
         MoveTo(h), Navigate(k, h), UNCHANGED <<hist, pos, landing>>, UNCHANGED outcomeVars
  PROVE  FunnelSound'
<1>1. /\ answers' = h
      /\ ReducerSound(answers', result', loading', failed', inflight', view')
  BY MoveToKeeps
<1>2. NavigationSound(hist', pos', pending', answers')
  BY <1>1, NavigateKeeps
<1>3. QED
  BY <1>1, <1>2, HistoryUnchanged, OutcomesUnchanged DEF FunnelSound

LEMMA AnswerKeeps ==
  ASSUME FunnelSound, NEW value \in Values, handleAnswer(value)
  PROVE  FunnelSound'
<1> DEFINE a == [facet |-> result.facet, value |-> value]
           h == Revise(answers, a)
<1>1. /\ result # Null /\ ~result.done /\ MoveTo(h) /\ Navigate("push", h)
      /\ UNCHANGED <<hist, pos, landing>> /\ UNCHANGED outcomeVars
  BY DEF handleAnswer, OffersAnswers, ShowsQuestion
<1>2. result.facet \in Facets
  BY <1>1, ReducerParts DEF ReplySound
<1>3. a \in Answer
  BY <1>2 DEF Answer
<1> HIDE DEF a
<1>4. h \in Histories
  BY <1>3, ReducerParts, ReviseIsHistory
<1> HIDE DEF h
<1>5. QED
  BY <1>1, <1>4, MoveAndNavigate

LEMMA BackKeeps ==
  ASSUME FunnelSound, handleBack
  PROVE  FunnelSound'
<1> DEFINE h == SubSeq(answers, 1, Len(answers) - 1)
           restored == parseFunnelAnswers(hist[pos'])
           asked == Sent(inflight, h, FALSE)
           Again == /\ CorrectUrl(hist[pos']) /\ answers' = restored /\ result' = Null
                    /\ Awaiting(IF restored = h THEN asked ELSE Sent(asked, restored, FALSE))
<1>1. OnSite /\ answers # <<>> /\ UNCHANGED landing /\ UNCHANGED outcomeVars
  BY DEF handleBack, Click, OffersSteps, canGoBack
<1>2. \/ MoveTo(h) /\ Navigate("replace", h) /\ UNCHANGED <<hist, pos>>
      \/ /\ hist' = hist /\ pos' = pos - 1
         /\ (~ReadsAgain /\ MoveTo(h) /\ pending' = NoNavigation) \/ (ReadsAgain /\ Again)
  BY DEF handleBack, Traverse
<1>3. answers \in Histories /\ IsFiniteSet(inflight) /\ inflight \subseteq Asked
  BY ReducerParts
<1>4. h \in Histories
  <2>1. answers \in Seq(Answer)
    BY <1>3 DEF Histories
  <2>2. Len(answers) \in Nat \ {0}
    BY <1>1, <2>1, EmptySeq, LenProperties
  <2>3. Len(answers) - 1 \in Nat /\ ~(Len(answers) < Len(answers) - 1)
    BY <2>2
  <2>4. h = Take(answers, Len(answers) - 1)
    BY <2>3 DEF Take
  <2>5. QED
    BY <1>3, <2>3, <2>4, TakeOfHistory
<1>5. CASE MoveTo(h) /\ Navigate("replace", h) /\ UNCHANGED <<hist, pos>>
  BY <1>1, <1>4, <1>5, MoveAndNavigate
<1>6. CASE hist' = hist /\ pos' = pos - 1
  <2>1. HistorySound(hist, pos) /\ landing \in Nat
    BY DEF FunnelSound
  <2>2. /\ Len(hist) \in Nat /\ pos \in 1..Len(hist) /\ pos > 1
        /\ hist \in Seq(Seq(Entry) \cup {Outside})
        /\ \A i \in 2..Len(hist) : hist[i] \in Seq(Entry)
    BY <1>1, <2>1, HistoryParts DEF OnSite
  <2>3. pos' \in 1..Len(hist) /\ (pos' # 1 => pos' \in 2..(Len(hist) - 1))
    BY <1>6, <2>2
  <2>4. HistorySound(hist', pos')
    BY <1>6, <2>2, <2>3 DEF HistorySound
  <2> HIDE DEF h
  <2>5. CASE ~ReadsAgain /\ MoveTo(h) /\ pending' = NoNavigation
    <3>1. /\ answers' = h
          /\ ReducerSound(answers', result', loading', failed', inflight', view')
      BY <1>4, <2>5, MoveToKeeps
    <3>2. pos' > 1 => pos' \in 2..(Len(hist') - 1) /\ hist'[pos'] = hist'[pos' + 1]
      <4>1. pos' + 1 = pos
        BY <1>6, <2>2
      <4>2. QED
        BY <1>6, <2>3, <2>5, <4>1 DEF ReadsAgain
    <3>3. NavigationSound(hist', pos', pending', answers')
      BY <2>5, <3>2, NoNavigationIsOne DEF NavigationSound
    <3>4. QED
      BY <1>1, <2>1, <2>4, <3>1, <3>3, OutcomesUnchanged DEF FunnelSound
  <2>6. CASE ReadsAgain /\ Again
    <3>1. hist[pos'] \in Seq(Entry)
      BY <2>2, <2>3, <2>6 DEF ReadsAgain
    <3>2. restored \in Histories
      BY <3>1, ParseIsHistory DEF Short
    <3>3. IsFiniteSet(asked) /\ asked \subseteq Asked
      BY <1>3, <1>4, SentIsSound
    <3>4. IsFiniteSet(Sent(asked, restored, FALSE)) /\ Sent(asked, restored, FALSE) \subseteq Asked
      BY <3>2, <3>3, SentIsSound
    <3> HIDE DEF asked, restored
    <3>5. ReducerSound(answers', result', loading', failed', inflight', view')
      <4> DEFINE rs == IF restored = h THEN asked ELSE Sent(asked, restored, FALSE)
      <4>1. IsFiniteSet(rs) /\ rs \subseteq Asked
        BY <3>3, <3>4
      <4>2. Awaiting(rs)
        BY <2>6
      <4> HIDE DEF rs
      <4>3. QED
        BY <2>6, <3>2, <4>1, <4>2, AwaitingKeeps, NoReplyIsSound
    <3>6. NavigationSound(hist', pos', pending', answers')
      BY <1>6, <2>6, <3>1, CorrectUrlKeeps DEF restored
    <3>7. QED
      BY <1>1, <2>1, <2>4, <3>5, <3>6, OutcomesUnchanged DEF FunnelSound
  <2> HIDE DEF Again
  <2>7. QED
    BY <1>2, <1>4, <1>5, <2>5, <2>6
<1>7. QED
  BY <1>2, <1>5, <1>6

\* Asking again about the same answers moves nothing.
LEMMA AskAgainKeeps ==
  ASSUME FunnelSound, NEW f \in BOOLEAN, Request(answers, f),
         UNCHANGED <<answers, result, browserVars, outcomeVars>>
  PROVE  FunnelSound'
<1>1. answers' = answers /\ answers' \in Histories /\ ReplySound(result')
  BY ReducerParts
<1>2. ReducerSound(answers', result', loading', failed', inflight', view')
  BY <1>1, RequestKeeps
<1>3. UNCHANGED browserVars /\ UNCHANGED outcomeVars
  OBVIOUS
<1>4. QED
  BY <1>1, <1>2, <1>3, BrowserUnchanged, OutcomesUnchanged DEF FunnelSound

LEMMA TokenParts ==
  ASSUME FunnelSound
  PROVE  /\ minted \in Nat
         /\ token \in [token : (1..minted) \cup {Null}, spent : BOOLEAN]
         /\ outcome \in Outcomes(minted) /\ (outcome.pc # "idle" => outcome.app \in Apps)
         /\ redeemed \in Seq(1..minted)
         /\ \A i, j \in DOMAIN redeemed : redeemed[i] = redeemed[j] => i = j
         /\ Unspent(outcome.token, redeemed) /\ (~token.spent => Unspent(token.token, redeemed))
         /\ challenge \in BOOLEAN /\ SessionsSound(sessions)
  BY DEF FunnelSound, TokensSound

\* The token that would be sent was never redeemed.
LEMMA TokenToSend ==
  ASSUME FunnelSound
  PROVE  tokenToSend \in (1..minted) \cup {Null} /\ Unspent(tokenToSend, redeemed)
<1>1. CASE token.spent
  <2>1. tokenToSend = Null
    BY <1>1 DEF tokenToSend
  <2>2. QED
    BY <2>1 DEF Unspent
<1>2. CASE ~token.spent
  <2>1. tokenToSend = token.token
    BY <1>2 DEF tokenToSend
  <2>2. QED
    BY <1>2, <2>1, TokenParts
<1>3. QED
  BY <1>1, <1>2

\* The reducer and the browser are untouched by what happens to an outcome.
LEMMA OutcomeStep ==
  ASSUME FunnelSound, UNCHANGED <<reducerVars, browserVars>>,
         challenge' \in BOOLEAN, TokensSound(token', outcome', minted', redeemed'),
         SessionsSound(sessions')
  PROVE  FunnelSound'
<1>1. UNCHANGED reducerVars /\ UNCHANGED browserVars
  OBVIOUS
<1>2. QED
  BY <1>1, ReducerUnchanged, BrowserUnchanged DEF FunnelSound

\* A token that is issued is a new one.
LEMMA ChallengeKeeps ==
  ASSUME FunnelSound, ChallengeAnswers
  PROVE  FunnelSound'
<1>1. /\ challenge' = FALSE /\ minted' = minted + 1
      /\ token' = [token |-> minted + 1, spent |-> FALSE]
      /\ outcome' = outcome /\ redeemed' = redeemed /\ sessions' = sessions
      /\ UNCHANGED <<reducerVars, browserVars>>
  BY DEF ChallengeAnswers
<1>2. /\ minted \in Nat /\ outcome \in Outcomes(minted)
      /\ outcome.pc # "idle" => outcome.app \in Apps
      /\ redeemed \in Seq(1..minted)
      /\ \A i, j \in DOMAIN redeemed : redeemed[i] = redeemed[j] => i = j
      /\ Unspent(outcome.token, redeemed) /\ SessionsSound(sessions)
  BY TokenParts
<1>3. minted' \in Nat /\ 1..minted \subseteq 1..minted' /\ minted' \in 1..minted'
  BY <1>1, <1>2
<1>4. token' \in [token : (1..minted') \cup {Null}, spent : BOOLEAN]
  BY <1>1, <1>3
<1>5. outcome' \in Outcomes(minted')
  BY <1>1, <1>2, <1>3 DEF Outcomes
<1>6. redeemed' \in Seq(1..minted')
  BY <1>1, <1>2, <1>3, SeqMonotonic
<1>7. \A i \in DOMAIN redeemed : redeemed[i] \in 1..minted
  BY <1>2, LenProperties, ElementOfSeq
<1>8. Unspent(token'.token, redeemed')
  BY <1>1, <1>2, <1>7 DEF Unspent
<1>9. TokensSound(token', outcome', minted', redeemed')
  BY <1>1, <1>2, <1>3, <1>4, <1>5, <1>6, <1>8 DEF TokensSound
<1>10. challenge' \in BOOLEAN /\ SessionsSound(sessions')
  BY <1>1, <1>2
<1>11. QED
  BY <1>1, <1>9, <1>10, OutcomeStep

LEMMA AwaitTokenKeeps ==
  ASSUME FunnelSound, AwaitToken
  PROVE  FunnelSound'
<1>1. /\ outcome.pc = "waiting"
      /\ outcome' = [outcome EXCEPT !.pc = "posting", !.token = tokenToSend]
      /\ token' = token /\ challenge' = challenge /\ minted' = minted
      /\ redeemed' = redeemed /\ sessions' = sessions
      /\ UNCHANGED <<reducerVars, browserVars>>
  BY DEF AwaitToken
<1>2. outcome \in Outcomes(minted) /\ outcome.app \in Apps
  BY <1>1, TokenParts
<1>3. tokenToSend \in (1..minted) \cup {Null} /\ Unspent(tokenToSend, redeemed)
  BY TokenToSend
<1>4. /\ outcome'.pc = "posting" /\ outcome'.token = tokenToSend /\ outcome'.app = outcome.app
      /\ outcome' \in Outcomes(minted)
  BY <1>1, <1>2, <1>3 DEF Outcomes
<1>5. TokensSound(token', outcome', minted', redeemed')
  BY <1>1, <1>2, <1>3, <1>4, TokenParts DEF TokensSound
<1>6. challenge' \in BOOLEAN /\ SessionsSound(sessions')
  BY <1>1, TokenParts
<1>7. QED
  BY <1>1, <1>5, <1>6, OutcomeStep

\* What is reported is an app of the shortlist, with no token yet.
LEMMA ReportKeeps ==
  ASSUME FunnelSound, NEW kind \in {"confirmed", "rejected"}, Report(kind)
  PROVE  FunnelSound'
<1> DEFINE pc == IF TurnstileEnabled THEN "waiting" ELSE "posting"
<1>1. /\ result # Null /\ Top # Null
      /\ outcome' = [pc |-> pc, app |-> Top, kind |-> kind, answers |-> answers, token |-> Null]
      /\ view' = IF kind = "confirmed" THEN [view EXCEPT !.confirmed = TRUE]
                 ELSE [view EXCEPT !.cursor = @ + 1]
      /\ answers' = answers /\ result' = result /\ loading' = loading /\ failed' = failed
      /\ inflight' = inflight /\ UNCHANGED browserVars /\ token' = token
      /\ challenge' = challenge /\ minted' = minted /\ redeemed' = redeemed
      /\ sessions' = sessions
  BY DEF Report, OffersSuggestion, ShowsResults
<1>2. answers \in Histories /\ result \in Replies /\ view \in Views
  BY <1>1, ReducerParts DEF ReplySound
<1>3. Top \in Apps
  <2>1. result.shortlist \in Seq(Apps) /\ view.cursor \in Nat \ {0}
    BY <1>2 DEF Replies, Views
  <2>2. view.cursor <= Len(result.shortlist) /\ Top = result.shortlist[view.cursor]
    BY <1>1 DEF Top
  <2>3. Len(result.shortlist) \in Nat
    BY <2>1, LenProperties
  <2>4. view.cursor \in 1..Len(result.shortlist)
    BY <2>1, <2>2, <2>3
  <2>5. QED
    BY <2>1, <2>2, <2>4, ElementOfSeq
<1>4. pc \in {"waiting", "posting"}
  OBVIOUS
<1> HIDE DEF pc
<1>5. outcome' \in Outcomes(minted) /\ outcome'.app \in Apps /\ outcome'.token = Null
  BY <1>1, <1>2, <1>3, <1>4 DEF Outcomes
<1>6. view' \in Views
  <2>1. [view EXCEPT !.confirmed = TRUE] \in Views
    BY <1>2 DEF Views
  <2>2. view.cursor + 1 \in Nat \ {0}
    BY <1>2 DEF Views
  <2>3. [view EXCEPT !.cursor = @ + 1] \in Views
    BY <1>2, <2>2 DEF Views
  <2>4. QED
    BY <1>1, <2>1, <2>3
<1>7. ReducerSound(answers', result', loading', failed', inflight', view')
  BY <1>1, <1>6, ReducerParts DEF ReducerSound
<1>8. Unspent(outcome'.token, redeemed')
  BY <1>5 DEF Unspent
<1>9. TokensSound(token', outcome', minted', redeemed')
  BY <1>1, <1>5, <1>8, TokenParts DEF TokensSound
<1>10. challenge' \in BOOLEAN /\ SessionsSound(sessions')
  BY <1>1, TokenParts
<1>11. QED
  BY <1>1, <1>7, <1>9, <1>10, BrowserUnchanged DEF FunnelSound

LEMMA NoOutcomeIsOne ==
  ASSUME NEW m
  PROVE  NoOutcome \in Outcomes(m) /\ NoOutcome.pc = "idle" /\ NoOutcome.token = Null
BY EmptyHistory DEF NoOutcome, Outcomes

\* A token that is shown to Cloudflare is gone from the page with it.
LEMMA PostOutcomeKeeps ==
  ASSUME FunnelSound, PostOutcome
  PROVE  FunnelSound'
<1>1. /\ outcome.pc = "posting" /\ outcome' = NoOutcome /\ minted' = minted
      /\ cycleToken(outcome.token) /\ (redeemed' = redeemed \/ Verify)
      /\ sessions' = sessions \/ Record
      /\ UNCHANGED <<reducerVars, browserVars>>
  BY DEF PostOutcome
<1>2. /\ minted \in Nat /\ outcome \in Outcomes(minted) /\ outcome.app \in Apps
      /\ token \in [token : (1..minted) \cup {Null}, spent : BOOLEAN]
      /\ redeemed \in Seq(1..minted)
      /\ \A i, j \in DOMAIN redeemed : redeemed[i] = redeemed[j] => i = j
      /\ Unspent(outcome.token, redeemed) /\ (~token.spent => Unspent(token.token, redeemed))
      /\ challenge \in BOOLEAN /\ SessionsSound(sessions)
  BY <1>1, TokenParts
<1>3. SessionsSound(sessions')
  <2>1. CASE sessions' = sessions
    BY <1>2, <2>1
  <2>2. CASE Record
    <3> DEFINE row == [app |-> outcome.app, kind |-> outcome.kind,
                       answers |-> Take(dedupeAnswers(outcome.answers), MaxForwarded),
                       verified |-> mayRecordOutcome(TurnstileEnabled,
                                      verifyTurnstileToken(outcome.token))]
    <3>1. sessions' = sessions \/ sessions' = sessions \cup {row}
      BY <2>2 DEF Record
    <3>2. mayRecordOutcome(TurnstileEnabled, verifyTurnstileToken(outcome.token)) \in BOOLEAN
      BY DEF mayRecordOutcome
    <3>3. row.app \in Apps /\ row.verified \in BOOLEAN
      BY <1>2, <3>2
    <3> HIDE DEF row
    <3>4. QED
      BY <1>2, <3>1, <3>3 DEF SessionsSound
  <2>3. QED
    BY <1>1, <2>1, <2>2
<1>4. NoOutcome \in Outcomes(minted) /\ NoOutcome.pc = "idle" /\ Unspent(NoOutcome.token, redeemed')
  BY NoOutcomeIsOne DEF Unspent
<1>5. CASE outcome.token = Null
  <2>1. redeemed' = redeemed /\ token' = token /\ challenge' = challenge
    BY <1>1, <1>5 DEF Verify, cycleToken
  <2>2. TokensSound(token', outcome', minted', redeemed')
    BY <1>1, <1>2, <1>4, <2>1 DEF TokensSound
  <2>3. QED
    BY <1>1, <1>2, <1>3, <2>1, <2>2, OutcomeStep
<1>6. CASE outcome.token # Null
  <2>1. /\ token' = [token |-> Null, spent |-> TRUE] /\ challenge' = TRUE
        /\ redeemed' = redeemed \/ redeemed' = Append(redeemed, outcome.token)
    BY <1>1, <1>6 DEF Verify, cycleToken
  <2>2. outcome.token \in 1..minted /\ \A i \in DOMAIN redeemed : redeemed[i] # outcome.token
    BY <1>2, <1>6 DEF Outcomes, Unspent
  <2>3. redeemed' \in Seq(1..minted) /\ \A i, j \in DOMAIN redeemed' : redeemed'[i] = redeemed'[j] => i = j
    <3>1. CASE redeemed' = redeemed
      BY <1>2, <3>1
    <3>2. CASE redeemed' = Append(redeemed, outcome.token)
      <4> DEFINE N == Len(redeemed)
                 u == Append(redeemed, outcome.token)
      <4>1. N \in Nat /\ DOMAIN redeemed = 1..N
        BY <1>2, LenProperties
      <4>2. /\ u \in Seq(1..minted) /\ Len(u) = N + 1
            /\ \A i \in 1..N : u[i] = redeemed[i]
            /\ u[N + 1] = outcome.token
        BY <1>2, <2>2, AppendProperties
      <4>3. DOMAIN u = 1..(N + 1) /\ \A i \in 1..(N + 1) : i \in 1..N \/ i = N + 1
        BY <4>1, <4>2, LenProperties
      <4> HIDE DEF u, N
      <4>4. \A i, j \in DOMAIN u : u[i] = u[j] => i = j
        BY <1>2, <2>2, <4>1, <4>2, <4>3
      <4>5. QED
        BY <3>2, <4>2, <4>4 DEF u
    <3>3. QED
      BY <2>1, <3>1, <3>2
  <2>4. token' \in [token : (1..minted) \cup {Null}, spent : BOOLEAN] /\ token'.spent
    BY <2>1
  <2>5. TokensSound(token', outcome', minted', redeemed')
    BY <1>1, <1>2, <1>4, <2>3, <2>4 DEF TokensSound
  <2>6. QED
    BY <1>1, <1>3, <2>1, <2>5, OutcomeStep
<1>7. QED
  BY <1>5, <1>6

-----------------------------------------------------------------------------
LEMMA FunnelStarts ==
  ASSUME FunnelInit
  PROVE  FunnelSound
<1>1. PICK url \in Landings : \E reached \in BOOLEAN :
        LET restored == parseFunnelAnswers(url)
            initialResult == IF url = <<>> /\ reached THEN Engine(<<>>, FALSE) ELSE Null
        IN /\ hist = <<Outside, url>> /\ pos = 2
           /\ landing = Len(restored)
           /\ answers = restored /\ result = initialResult
           /\ loading = (initialResult = Null)
           /\ inflight = IF initialResult # Null THEN {}
                         ELSE {[id |-> 1, answers |-> restored, force |-> FALSE]}
           /\ pending = IF url # restored THEN [kind |-> "replace", url |-> restored]
                                          ELSE NoNavigation
  BY DEF FunnelInit
<1>2. PICK reached \in BOOLEAN :
        LET restored == parseFunnelAnswers(url)
            initialResult == IF url = <<>> /\ reached THEN Engine(<<>>, FALSE) ELSE Null
        IN /\ hist = <<Outside, url>> /\ pos = 2
           /\ landing = Len(restored)
           /\ answers = restored /\ result = initialResult
           /\ loading = (initialResult = Null)
           /\ inflight = IF initialResult # Null THEN {}
                         ELSE {[id |-> 1, answers |-> restored, force |-> FALSE]}
           /\ pending = IF url # restored THEN [kind |-> "replace", url |-> restored]
                                          ELSE NoNavigation
  BY <1>1
<1> DEFINE restored == parseFunnelAnswers(url)
           initialResult == IF url = <<>> /\ reached THEN Engine(<<>>, FALSE) ELSE Null
           first == [id |-> 1, answers |-> restored, force |-> FALSE]
<1>3. /\ hist = <<Outside, url>> /\ pos = 2 /\ landing = Len(restored)
      /\ answers = restored /\ result = initialResult /\ loading = (initialResult = Null)
      /\ inflight = {} \/ inflight = {first}
      /\ pending = IF url # restored THEN [kind |-> "replace", url |-> restored]
                                     ELSE NoNavigation
  BY <1>2
<1>4. /\ failed = FALSE /\ view = FirstView
      /\ token = [token |-> Null, spent |-> FALSE] /\ challenge = TurnstileEnabled
      /\ outcome = NoOutcome /\ minted = 0 /\ redeemed = <<>> /\ sessions = {}
  BY DEF FunnelInit
<1>5. url \in Seq(Entry)
  BY FunnelData
<1>6. restored \in Histories /\ Len(restored) \in Nat
  <2>1. restored \in Histories
    BY <1>5, ParseIsHistory DEF Short
  <2>2. QED
    BY <2>1, LenProperties DEF Histories
<1>7. ReplySound(initialResult)
  <2>1. <<>> \in Short
    BY EmptyHistory, FunnelBounds DEF Short
  <2>2. ReplySound(Engine(<<>>, FALSE))
    BY <2>1, EngineReplies
  <2>3. QED
    BY <2>2, NoReplyIsSound
<1>8. first \in Asked
  BY <1>6 DEF Asked
<1> HIDE DEF restored, initialResult, first
<1>9. IsFiniteSet(inflight) /\ inflight \subseteq Asked
  <2>1. CASE inflight = {}
    BY <2>1, FS_EmptySet
  <2>2. CASE inflight = {first}
    BY <1>8, <2>2, FS_Singleton
  <2>3. QED
    BY <1>3, <2>1, <2>2
<1>10. ReducerSound(answers, result, loading, failed, inflight, view)
  BY <1>3, <1>4, <1>6, <1>7, <1>9, FirstViewIsSound DEF ReducerSound
<1>11. HistorySound(hist, pos)
  <2> DEFINE Pages == Seq(Entry) \cup {Outside}
  <2>1. Outside \in Pages /\ url \in Pages
    BY <1>5
  <2> HIDE DEF Pages
  <2>2. hist \in Seq(Pages) /\ Len(hist) = 2 /\ hist[2] = url
    BY <1>3, <2>1
  <2>3. \A i \in 2..Len(hist) : i = 2
    BY <2>2
  <2>4. pos \in 1..Len(hist)
    BY <1>3, <2>2
  <2>5. QED
    BY <1>5, <2>2, <2>3, <2>4 DEF HistorySound, Pages
<1>12. NavigationSound(hist, pos, pending, answers)
  <2>1. hist[pos] = url
    BY <1>3
  <2>2. CASE url # restored
    <3>1. pending = [kind |-> "replace", url |-> restored]
      BY <1>3, <2>2
    <3>2. pending \in Navigations /\ pending.url = answers /\ pending.kind # "none"
      BY <1>3, <1>6, <3>1 DEF Navigations
    <3>3. pending # NoNavigation
      BY <3>2 DEF NoNavigation
    <3>4. QED
      BY <3>2, <3>3 DEF NavigationSound
  <2>3. CASE url = restored
    <3>1. pending = NoNavigation
      BY <1>3, <2>3
    <3>2. QED
      BY <1>3, <2>1, <3>1, NoNavigationIsOne DEF NavigationSound, restored
  <2>4. QED
    BY <2>2, <2>3
<1>13. TokensSound(token, outcome, minted, redeemed)
  <2>1. redeemed \in Seq(1..minted) /\ DOMAIN redeemed = {}
    BY <1>4, EmptySeq
  <2>2. outcome \in Outcomes(minted) /\ outcome.pc = "idle"
    BY <1>4, NoOutcomeIsOne
  <2>3. minted \in Nat /\ token \in [token : (1..minted) \cup {Null}, spent : BOOLEAN]
    BY <1>4
  <2>4. QED
    BY <2>1, <2>2, <2>3 DEF TokensSound, Unspent
<1>14. challenge \in BOOLEAN /\ SessionsSound(sessions) /\ landing \in Nat
  BY <1>3, <1>4, <1>6, FunnelBounds DEF SessionsSound
<1>15. QED
  BY <1>10, <1>11, <1>12, <1>13, <1>14 DEF FunnelSound

LEMMA FunnelSteps ==
  ASSUME FunnelSound, [FunnelNext]_funnelVars
  PROVE  FunnelSound'
<1>1. ASSUME OnSite, Answered PROVE FunnelSound'
  BY <1>1, ResolvedKeeps, FailedKeeps DEF Answered
<1>2. ASSUME handleShowResults PROVE FunnelSound'
  BY <1>2, AskAgainKeeps DEF handleShowResults
<1>3. ASSUME TryAgain PROVE FunnelSound'
  BY <1>3, AskAgainKeeps DEF TryAgain
<1>4. ASSUME handleRestart PROVE FunnelSound'
  <2>1. /\ MoveTo(<<>>) /\ Navigate("push", <<>>)
        /\ UNCHANGED <<hist, pos, landing>> /\ UNCHANGED outcomeVars
    BY <1>4 DEF handleRestart
  <2>2. QED
    BY <2>1, EmptyHistory, MoveAndNavigate
<1>5. ASSUME UNCHANGED funnelVars PROVE FunnelSound'
  <2>1. UNCHANGED <<reducerVars, browserVars>> /\ UNCHANGED outcomeVars
    BY <1>5 DEF funnelVars
  <2>2. QED
    BY <2>1, OutcomesUnchanged, OutcomeStep
<1>6. QED
  BY <1>1, <1>2, <1>3, <1>4, <1>5, CommitKeeps, BrowserButtonKeeps, AnswerKeeps, BackKeeps,
     ChallengeKeeps, ReportKeeps, AwaitTokenKeeps, PostOutcomeKeeps DEF FunnelNext

\* The engine is asked each facet once, the address bar says what the funnel holds, and
\* no token is spent twice, for any questions, shortlists, landings and faults.
THEOREM FunnelKept == FunnelSpec => []FunnelInv
<1>1. FunnelInit => FunnelSound
  BY FunnelStarts
<1>2. FunnelSound /\ [FunnelNext]_funnelVars => FunnelSound'
  BY FunnelSteps
<1>3. FunnelSound => FunnelInv
  BY FunnelSoundIsInv
<1>4. QED
  BY <1>1, <1>2, <1>3, PTL DEF FunnelSpec

-----------------------------------------------------------------------------
(***************************************************************************)
(* Walking the history.  Something is asked for, was answered or failed    *)
(* (Awaited); and no more can be read from the entry the visitor landed on *)
(* than when they did, nor will it be rewritten to more (LandingSound).    *)
(***************************************************************************)
FunnelAsks == result # Null \/ loading \/ failed

LandingSound(hs, p, nav, n) ==
  /\ Len(hs) >= 2 /\ Len(parseFunnelAnswers(hs[2])) <= n
  /\ p = 2 /\ nav.kind = "replace" => Len(nav.url) <= n

LEMMA ReconcileAsks ==
  ASSUME NEW url, reconcileUrlAnswers(url), FunnelAsks
  PROVE  FunnelAsks'
<1>1. CASE loading' = TRUE
  BY <1>1 DEF FunnelAsks
<1>2. CASE UNCHANGED <<result, loading, failed>> /\ FunnelAsks
  BY <1>2 DEF FunnelAsks
<1>3. loading' = TRUE \/ UNCHANGED <<result, loading, failed>>
  BY DEF reconcileUrlAnswers, MoveTo, Request, Awaiting
<1>4. QED
  BY <1>1, <1>2, <1>3

LEMMA EffectAsks ==
  ASSUME Effect, FunnelAsks
  PROVE  FunnelAsks'
<1>1. CASE UNCHANGED reducerVars
  BY <1>1 DEF FunnelAsks, reducerVars
<1>2. CASE reconcileUrlAnswers(hist'[pos'])
  BY <1>2, ReconcileAsks
<1>3. QED
  BY <1>1, <1>2 DEF Effect

LEMMA FunnelAsksKept ==
  ASSUME FunnelSound, FunnelAsks, [FunnelNext]_funnelVars
  PROVE  FunnelAsks'
<1>1. ASSUME NEW r, Resolved(r) PROVE FunnelAsks'
  <2> DEFINE h == Take(dedupeAnswers(r.answers), MaxForwarded)
  <2>1. r \in inflight /\ result' = Engine(h, r.force)
    BY <1>1 DEF Resolved, toFindNextInput
  <2>2. r.answers \in Histories /\ r.force \in BOOLEAN
    BY <2>1, ReducerParts DEF Asked
  <2>3. h \in Short
    BY <2>2, DedupeOfHistory, TakeOfHistory, FunnelBounds DEF Short
  <2> HIDE DEF h
  <2>4. h \in Seq(Answer) /\ Len(h) \in 0..MaxForwarded /\ h \in [1..Len(h) -> Answer]
    <3>1. h \in Seq(Answer) /\ Len(h) <= MaxForwarded
      BY <2>3 DEF Short, Histories
    <3>2. Len(h) \in Nat /\ h \in [1..Len(h) -> Answer]
      BY <3>1, LenProperties
    <3>3. QED
      BY <3>1, <3>2, FunnelBounds
  <2>5. result' # Null
    BY <2>1, <2>2, <2>4, NullIsNoReply
  <2>6. QED
    BY <2>5 DEF FunnelAsks
<1>2. ASSUME NEW r, Failed(r) PROVE FunnelAsks'
  BY <1>2 DEF Failed, FunnelAsks
<1>3. ASSUME Commit \/ BrowserButton PROVE FunnelAsks'
  BY <1>3, EffectAsks DEF Commit, BrowserButton
<1>4. ASSUME (\E value \in Values : handleAnswer(value)) \/ handleBack \/ handleShowResults
             \/ handleRestart \/ TryAgain
      PROVE  FunnelAsks'
  <2>1. loading' = TRUE
    BY <1>4 DEF handleAnswer, handleBack, handleShowResults, handleRestart, TryAgain,
                MoveTo, Request, Awaiting
  <2>2. QED
    BY <2>1 DEF FunnelAsks
<1>5. ASSUME UNCHANGED <<result, loading, failed>> PROVE FunnelAsks'
  BY <1>5 DEF FunnelAsks
<1>6. ASSUME ChallengeAnswers \/ AwaitToken \/ PostOutcome \/ UNCHANGED funnelVars
      PROVE  FunnelAsks'
  BY <1>5, <1>6 DEF ChallengeAnswers, AwaitToken, PostOutcome, funnelVars, reducerVars
<1>7. ASSUME NEW kind, Report(kind) PROVE FunnelAsks'
  BY <1>5, <1>7 DEF Report
<1>8. QED
  BY <1>1, <1>2, <1>3, <1>4, <1>6, <1>7 DEF FunnelNext, Answered

-----------------------------------------------------------------------------
\* No more is read of what the funnel wrote than it holds.
LEMMA ParseShortens ==
  ASSUME NEW h \in Histories
  PROVE  Len(parseFunnelAnswers(h)) <= Len(h)
<1>1. h \in Seq(Entry) /\ Len(h) \in Nat /\ MaxForwarded \in Nat
  BY HistoriesAreUrls, LenProperties, FunnelBounds DEF Histories
<1>2. CASE Len(h) <= MaxForwarded
  <2>1. parseFunnelAnswers(h) = h
    BY <1>2, ParseOfHistory DEF Short
  <2>2. QED
    BY <1>1, <2>1
<1>3. CASE ~(Len(h) <= MaxForwarded)
  <2> DEFINE p == parseFunnelAnswers(h)
  <2>1. p \in Short
    BY <1>1, ParseIsHistory
  <2>2. Len(p) <= MaxForwarded /\ Len(p) \in Nat
    BY <2>1, LenProperties DEF Short, Histories
  <2> HIDE DEF p
  <2>3. Len(p) <= Len(h)
    BY <1>1, <1>3, <2>2
  <2>4. QED
    BY <2>3 DEF p
<1>4. QED
  BY <1>2, <1>3

LEMMA CorrectUrlLands ==
  ASSUME NEW url, CorrectUrl(url), NEW n, Len(parseFunnelAnswers(url)) <= n
  PROVE  pending'.kind = "replace" => Len(pending'.url) <= n
<1>1. CASE pending' = NoNavigation
  BY <1>1 DEF NoNavigation
<1>2. CASE Navigate("replace", parseFunnelAnswers(url))
  BY <1>2 DEF Navigate
<1>3. QED
  BY <1>1, <1>2 DEF CorrectUrl

LEMMA EffectLands ==
  ASSUME Effect, Len(hist') >= 2, NEW n, Len(parseFunnelAnswers(hist'[2])) <= n
  PROVE  LandingSound(hist', pos', pending', n)
<1>1. CASE pending' = NoNavigation
  <2>1. pending'.kind # "replace"
    BY <1>1 DEF NoNavigation
  <2>2. QED
    BY <2>1 DEF LandingSound
<1>2. CASE reconcileUrlAnswers(hist'[pos'])
  <2>1. CorrectUrl(hist'[pos'])
    BY <1>2 DEF reconcileUrlAnswers
  <2>2. CASE pos' = 2
    BY <2>1, <2>2, CorrectUrlLands DEF LandingSound
  <2>3. CASE pos' # 2
    BY <2>3 DEF LandingSound
  <2>4. QED
    BY <2>2, <2>3
<1>3. QED
  BY <1>1, <1>2 DEF Effect

LEMMA CommitLands ==
  ASSUME FunnelSound, LandingSound(hist, pos, pending, landing), OnSite, Commit
  PROVE  LandingSound(hist', pos', pending', landing')
<1> DEFINE url == pending.url
<1>1. /\ pending # NoNavigation /\ Effect /\ landing' = landing
      /\ IF pending.kind = "push" /\ url # hist[pos]
         THEN hist' = Append(Take(hist, pos), url) /\ pos' = pos + 1
         ELSE hist' = [hist EXCEPT ![pos] = url] /\ pos' = pos
  BY DEF Commit
<1>2. HistorySound(hist, pos) /\ pending \in Navigations /\ landing \in Nat
  BY DEF FunnelSound, NavigationSound
<1>3. /\ hist \in Seq(Seq(Entry) \cup {Outside}) /\ Len(hist) \in Nat /\ DOMAIN hist = 1..Len(hist)
      /\ pos \in 1..Len(hist) /\ pos \in Nat /\ pos >= 2
  BY <1>2, HistoryParts DEF OnSite
<1>4. /\ Len(hist) >= 2 /\ Len(parseFunnelAnswers(hist[2])) <= landing
      /\ pos = 2 /\ pending.kind = "replace" => Len(url) <= landing
  BY DEF LandingSound
<1>5. url \in Histories /\ url \in Seq(Entry)
  BY CommitShows, ReducerParts
<1>6. pending.kind \in {"push", "replace"}
  BY <1>1, <1>2 DEF Navigations
<1>7. Len(parseFunnelAnswers(url)) <= Len(url) /\ Len(url) \in Nat
      /\ Len(parseFunnelAnswers(url)) \in Nat
  <2>1. parseFunnelAnswers(url) \in Seq(Answer) /\ url \in Seq(Answer)
    BY <1>5, ParseIsHistory DEF Short, Histories
  <2>2. QED
    BY <1>5, <2>1, ParseShortens, LenProperties
<1> HIDE DEF url
<1>8. Len(hist') >= 2 /\ Len(parseFunnelAnswers(hist'[2])) <= landing
  <2>1. CASE pending.kind = "push" /\ url # hist[pos]
    <3> DEFINE Pages == Seq(Entry) \cup {Outside}
               t == Take(hist, pos)
    <3>1. /\ t \in Seq(Pages) /\ Len(t) = (IF Len(hist) < pos THEN Len(hist) ELSE pos)
          /\ \A i \in 1..Len(t) : t[i] = hist[i]
      BY <1>3, TakeIsPrefix
    <3>2. Len(t) = pos /\ 2 \in 1..Len(t)
      <4> DEFINE N == Len(hist)
      <4>1. N \in Nat /\ pos \in 1..N /\ pos \in Nat /\ pos >= 2
        BY <1>3
      <4>2. Len(t) = IF N < pos THEN N ELSE pos
        BY <3>1
      <4> HIDE DEF N, t
      <4>3. Len(t) = pos
        BY <4>1, <4>2
      <4>4. QED
        BY <4>1, <4>3
    <3>3. url \in Pages
      BY <1>5
    <3> HIDE DEF t, Pages
    <3>4. Len(Append(t, url)) = pos + 1 /\ \A i \in 1..Len(t) : Append(t, url)[i] = t[i]
      BY <3>1, <3>2, <3>3, AppendProperties
    <3>5. Append(t, url)[2] = hist[2]
      BY <3>1, <3>2, <3>4
    <3>6. hist' = Append(t, url)
      BY <1>1, <2>1 DEF t
    <3>7. QED
      BY <1>3, <1>4, <3>4, <3>5, <3>6
  <2>2. CASE ~(pending.kind = "push" /\ url # hist[pos])
    <3>1. hist' = [hist EXCEPT ![pos] = url] /\ 2 \in DOMAIN hist
      BY <1>1, <1>3, <1>4, <2>2
    <3>2. Len(hist') = Len(hist)
      BY <1>3, <3>1
    <3>3. CASE pos # 2
      <4>1. hist'[2] = hist[2]
        BY <1>3, <3>1, <3>3
      <4>2. QED
        BY <1>4, <3>2, <4>1
    <3>4. CASE pos = 2 /\ pending.kind = "push"
      <4>1. hist'[2] = hist[2]
        BY <1>3, <3>1, <3>4, <2>2
      <4>2. QED
        BY <1>4, <3>2, <4>1
    <3>5. CASE pos = 2 /\ pending.kind = "replace"
      <4>1. hist'[2] = url
        BY <1>3, <3>1, <3>5
      <4>2. Len(url) <= landing
        BY <1>4, <3>5
      <4>3. QED
        BY <1>2, <1>4, <1>7, <3>2, <4>1, <4>2
    <3>6. QED
      BY <1>6, <3>3, <3>4, <3>5
  <2>3. QED
    BY <2>1, <2>2
<1>9. QED
  BY <1>1, <1>8, EffectLands

LEMMA BackLands ==
  ASSUME FunnelSound, LandingSound(hist, pos, pending, landing), handleBack
  PROVE  LandingSound(hist', pos', pending', landing')
<1> DEFINE h == SubSeq(answers, 1, Len(answers) - 1)
<1>1. answers # <<>> /\ landing' = landing /\ hist' = hist
  BY DEF handleBack, OffersSteps, canGoBack, Traverse
<1>2. \/ backNavigation(Len(answers)) = "rewrite" /\ Navigate("replace", h)
      \/ pending' = NoNavigation
      \/ CorrectUrl(hist[pos'])
  BY DEF handleBack
<1>3. answers \in Seq(Answer) /\ landing \in Nat
  BY ReducerParts DEF Histories, FunnelSound
<1>4. Len(answers) \in Nat \ {0}
  BY <1>1, <1>3, EmptySeq
<1>5. Len(hist') >= 2 /\ Len(parseFunnelAnswers(hist'[2])) <= landing
  BY <1>1 DEF LandingSound
<1>6. CASE backNavigation(Len(answers)) = "rewrite" /\ Navigate("replace", h)
  <2>1. ~(Len(answers) > landing)
    BY <1>4, <1>6 DEF backNavigation
  <2>2. Len(h) <= Len(answers)
    <3>1. Len(answers) - 1 \in Nat /\ ~(Len(answers) < Len(answers) - 1)
      BY <1>4
    <3>2. h = Take(answers, Len(answers) - 1)
      BY <3>1 DEF Take
    <3>3. Len(h) = Len(answers) - 1
      BY <1>3, <3>1, <3>2, TakeIsPrefix
    <3> HIDE DEF h
    <3>4. QED
      BY <1>4, <3>3
  <2>3. pending'.url = h
    BY <1>6 DEF Navigate
  <2>4. Len(h) \in Int
    <3>1. Len(answers) - 1 \in Nat /\ ~(Len(answers) < Len(answers) - 1)
      BY <1>4
    <3>2. h = Take(answers, Len(answers) - 1)
      BY <3>1 DEF Take
    <3>3. h \in Seq(Answer)
      BY <1>3, <3>1, <3>2, TakeIsPrefix
    <3> HIDE DEF h
    <3>4. QED
      BY <3>3, LenProperties
  <2> HIDE DEF h
  <2>5. Len(pending'.url) <= landing
    BY <1>3, <1>4, <2>1, <2>2, <2>3, <2>4
  <2>6. QED
    BY <1>1, <1>5, <2>5 DEF LandingSound
<1>7. CASE CorrectUrl(hist[pos'])
  <2>1. CASE pos' = 2
    <3>1. hist[pos'] = hist'[2]
      BY <1>1, <2>1
    <3>2. pending'.kind = "replace" => Len(pending'.url) <= landing
      BY <1>5, <1>7, <3>1, CorrectUrlLands
    <3>3. QED
      BY <1>1, <1>5, <3>2 DEF LandingSound
  <2>2. CASE pos' # 2
    BY <1>1, <1>5, <2>2 DEF LandingSound
  <2>3. QED
    BY <2>1, <2>2
<1>8. CASE pending' = NoNavigation
  <2>1. pending'.kind # "replace"
    BY <1>8 DEF NoNavigation
  <2>2. QED
    BY <1>1, <1>5, <2>1 DEF LandingSound
<1>9. QED
  BY <1>2, <1>6, <1>7, <1>8

LEMMA LandingKept ==
  ASSUME FunnelSound, LandingSound(hist, pos, pending, landing), [FunnelNext]_funnelVars
  PROVE  LandingSound(hist', pos', pending', landing')
<1>1. ASSUME UNCHANGED browserVars PROVE LandingSound(hist', pos', pending', landing')
  BY <1>1 DEF browserVars
<1>2. ASSUME NEW r, Resolved(r) \/ Failed(r)
      PROVE  LandingSound(hist', pos', pending', landing')
  BY <1>1, <1>2 DEF Resolved, Failed
<1>3. ASSUME BrowserButton PROVE LandingSound(hist', pos', pending', landing')
  <2>1. Effect /\ hist' = hist /\ landing' = landing
    BY <1>3 DEF BrowserButton, Traverse
  <2>2. Len(hist') >= 2 /\ Len(parseFunnelAnswers(hist'[2])) <= landing
    BY <2>1 DEF LandingSound
  <2>3. QED
    BY <2>1, <2>2, EffectLands
<1>4. ASSUME NEW h, Navigate("push", h), UNCHANGED <<hist, pos, landing>>
      PROVE  LandingSound(hist', pos', pending', landing')
  <2>1. pending'.kind # "replace"
    BY <1>4 DEF Navigate
  <2>2. QED
    BY <1>4, <2>1 DEF LandingSound
<1>5. ASSUME (\E value \in Values : handleAnswer(value)) \/ handleRestart
      PROVE  LandingSound(hist', pos', pending', landing')
  BY <1>4, <1>5 DEF handleAnswer, handleRestart
<1>6. ASSUME handleShowResults \/ TryAgain
      PROVE  LandingSound(hist', pos', pending', landing')
  BY <1>1, <1>6 DEF handleShowResults, TryAgain
<1>7. ASSUME ChallengeAnswers \/ AwaitToken \/ PostOutcome \/ UNCHANGED funnelVars
      PROVE  LandingSound(hist', pos', pending', landing')
  BY <1>1, <1>7 DEF ChallengeAnswers, AwaitToken, PostOutcome, funnelVars
<1>8. ASSUME NEW kind, Report(kind) PROVE LandingSound(hist', pos', pending', landing')
  BY <1>1, <1>8 DEF Report
<1>9. QED
  BY <1>2, <1>3, <1>5, <1>6, <1>7, <1>8, CommitLands, BackLands DEF FunnelNext, Answered

-----------------------------------------------------------------------------
\* The entry that a commit shows is read as what the funnel holds.
LEMMA CommitIsFree ==
  ASSUME FunnelSound, FunnelAsks, OnSite, Commit, ~failed, Len(answers) <= MaxForwarded
  PROVE  inflight' = inflight
<1>1. hist'[pos'] = answers /\ answers \in Histories
  BY CommitShows, ReducerParts
<1>2. parseFunnelAnswers(hist'[pos']) = answers
  BY <1>1, ParseOfHistory DEF Short
<1>3. result # Null \/ loading
  BY DEF FunnelAsks
<1>4. Effect
  BY DEF Commit
<1>5. CASE UNCHANGED reducerVars
  BY <1>5 DEF reducerVars
<1>6. CASE reconcileUrlAnswers(hist'[pos'])
  BY <1>2, <1>3, <1>6 DEF reconcileUrlAnswers
<1>7. QED
  BY <1>4, <1>5, <1>6 DEF Effect

LEMMA BackStays ==
  ASSUME FunnelSound, LandingSound(hist, pos, pending, landing), handleBack,
         pending = NoNavigation, Readable
  PROVE  pos' > 1
<1>1. OnSite /\ (pos' = pos \/ (backNavigation(Len(answers)) = "pop" /\ pos' = pos - 1))
  BY DEF handleBack, Click, Traverse
<1>2. pos \in Nat /\ pos >= 2
  <2>1. HistorySound(hist, pos)
    BY DEF FunnelSound
  <2>2. QED
    BY <1>1, <2>1, HistoryParts DEF OnSite
<1>3. ASSUME pos = 2, backNavigation(Len(answers)) = "pop" PROVE FALSE
  <2>1. NavigationSound(hist, pos, pending, answers) /\ landing \in Nat
    BY DEF FunnelSound
  <2>2. parseFunnelAnswers(hist[2]) = answers
    BY <1>1, <1>3, <2>1 DEF NavigationSound, Readable, Distinguishable, OnSite
  <2>3. Len(answers) <= landing
    BY <2>2 DEF LandingSound
  <2>4. Len(answers) \in Nat
    BY ReducerParts, LenProperties DEF Histories
  <2>5. Len(answers) > landing
    BY <1>3, <2>1, <2>4 DEF backNavigation
  <2>6. QED
    BY <2>1, <2>3, <2>4, <2>5
<1>4. QED
  BY <1>1, <1>2, <1>3

LEMMA WalkStarts ==
  ASSUME FunnelInit
  PROVE  FunnelAsks /\ LandingSound(hist, pos, pending, landing)
<1>1. PICK url \in Landings : \E reached \in BOOLEAN :
        LET restored == parseFunnelAnswers(url)
            initialResult == IF url = <<>> /\ reached THEN Engine(<<>>, FALSE) ELSE Null
        IN /\ hist = <<Outside, url>> /\ pos = 2
           /\ landing = Len(restored)
           /\ answers = restored /\ result = initialResult
           /\ loading = (initialResult = Null)
           /\ inflight = IF initialResult # Null THEN {}
                         ELSE {[id |-> 1, answers |-> restored, force |-> FALSE]}
           /\ pending = IF url # restored THEN [kind |-> "replace", url |-> restored]
                                          ELSE NoNavigation
  BY DEF FunnelInit
<1> DEFINE restored == parseFunnelAnswers(url)
<1>2. /\ hist = <<Outside, url>> /\ pos = 2 /\ landing = Len(restored)
      /\ loading = (result = Null)
      /\ pending = IF url # restored THEN [kind |-> "replace", url |-> restored]
                                     ELSE NoNavigation
  BY <1>1
<1>3. FunnelAsks
  BY <1>2 DEF FunnelAsks
<1>4. Len(restored) \in Nat
  BY FunnelData, ParseIsHistory, LenProperties DEF Short, Histories
<1> HIDE DEF restored
<1>5. Len(hist) >= 2 /\ hist[2] = url
  BY <1>2
<1>6. pending.kind = "replace" => Len(pending.url) = landing
  BY <1>2 DEF NoNavigation
<1>7. Len(parseFunnelAnswers(hist[2])) <= landing
  BY <1>2, <1>4, <1>5 DEF restored
<1>8. QED
  BY <1>2, <1>3, <1>4, <1>5, <1>6, <1>7 DEF LandingSound

\* Committing a navigation asks nothing anew, and the in-page Back stays on the site.
THEOREM HistoryIsKept == FunnelSpec => HistoryKept
<1> DEFINE Walked == FunnelSound /\ FunnelAsks /\ LandingSound(hist, pos, pending, landing)
<1>1. FunnelInit => Walked
  BY FunnelStarts, WalkStarts
<1>2. Walked /\ [FunnelNext]_funnelVars => Walked'
  BY FunnelSteps, FunnelAsksKept, LandingKept
<1>3. ASSUME Walked, [FunnelNext]_funnelVars
      PROVE  Commit /\ ~failed /\ Len(answers) <= MaxForwarded => inflight' = inflight
  <2>1. CASE OnSite
    BY <1>3, <2>1, CommitIsFree
  <2>2. CASE ~OnSite
    <3>1. AwaitToken \/ PostOutcome \/ UNCHANGED funnelVars
      BY <1>3, <2>2 DEF FunnelNext, BrowserButton, handleAnswer, handleBack, handleShowResults,
                        handleRestart, TryAgain, Report, Click
    <3>2. QED
      BY <3>1 DEF AwaitToken, PostOutcome, funnelVars, reducerVars
  <2>3. QED
    BY <2>1, <2>2
<1>4. ASSUME Walked, [FunnelNext]_funnelVars
      PROVE  handleBack /\ pending = NoNavigation /\ Readable => pos' > 1
  BY <1>4, BackStays
<1>5. Walked /\ [FunnelNext]_funnelVars =>
        [Commit /\ ~failed /\ Len(answers) <= MaxForwarded => inflight' = inflight]_funnelVars
  BY <1>3
<1>6. Walked /\ [FunnelNext]_funnelVars =>
        [handleBack /\ pending = NoNavigation /\ Readable => pos' > 1]_funnelVars
  BY <1>4
<1> HIDE DEF Walked
<1>7. QED
  BY <1>1, <1>2, <1>5, <1>6, PTL DEF FunnelSpec, HistoryKept, CommitAsksNothing, BackStaysOnSite
================================================================================
