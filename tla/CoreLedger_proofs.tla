------------------------- MODULE CoreLedger_proofs -------------------------
(***************************************************************************)
(* Proofs about CoreLedger, for any number of workers, requests, keys and  *)
(* days and any amounts: its type invariant, the safety of every balance   *)
(* whatever runs concurrently, the agreement of the payment account with   *)
(* the transactions when create_transaction is not raced, and that of the  *)
(* budgets when create_budget is not raced.                                *)
(***************************************************************************)
EXTENDS CoreLedger, SequenceTheorems, TLAPS

(* Types *)

LEMMA IdleType == Idle \in Jobs
BY ConstantsAssumption DEF Idle, Jobs, Days

LEMMA JobFacts ==
    ASSUME TypeOK, NEW w \in Workers
    PROVE  /\ job[w] \in Jobs
           /\ job[w].amount \in Int
           /\ job[w].balance \in Int
           /\ job[w].day \in Days
           /\ job[w].day \in Nat
           /\ job[w].key \in Keys \cup {NoKey}
           /\ job[w].category \in Categories
           /\ job[w].spent \in Seq(Int)
<1>1. job[w] \in Jobs
  BY DEF TypeOK
<1> QED
  BY <1>1 DEF Jobs, Days

LEMMA SavingsFacts ==
    ASSUME TypeOK
    PROVE  /\ savings \in SavingsRows
           /\ savings.open \in BOOLEAN
           /\ savings.balance \in Int
           /\ savings.minimum \in Int
           /\ savings.last \in Nat
BY DEF TypeOK, SavingsRows

LEMMA DayFacts == ASSUME TypeOK PROVE now.day \in Days /\ now.day \in Nat
BY ConstantsAssumption DEF TypeOK, Days

\* What a commit does to keys, locks and the worker.
LEMMA CommitTypes ==
    ASSUME TypeOK, NEW w \in Workers, NEW kind \in Endpoints, Commit(w, kind)
    PROVE  /\ keys' \subseteq Endpoints \X Keys
           /\ applied' \in [Endpoints \X Keys -> Nat]
           /\ holder' \in [Rows -> Workers \cup {Nobody}]
           /\ job' \in [Workers -> Jobs]
<1>1. job[w].key \in Keys \cup {NoKey}
  BY JobFacts
<1>2. keys' \subseteq Endpoints \X Keys
  BY <1>1 DEF Commit, TypeOK
<1>3. applied' \in [Endpoints \X Keys -> Nat]
  <2>1. CASE job[w].key = NoKey
    BY <2>1 DEF Commit, TypeOK
  <2>2. CASE job[w].key # NoKey
    <3> DEFINE operation == <<kind, job[w].key>>
    <3>1. operation \in Endpoints \X Keys
      BY <1>1, <2>2
    <3>2. applied' = [applied EXCEPT ![operation] = @ + 1]
      BY <2>2 DEF Commit
    <3>3. applied[operation] + 1 \in Nat
      BY <3>1 DEF TypeOK
    <3> HIDE DEF operation
    <3> QED
      BY <3>1, <3>2, <3>3 DEF TypeOK
  <2> QED
    BY <2>1, <2>2
<1>4. holder' \in [Rows -> Workers \cup {Nobody}]
  BY DEF Commit, Unlocked, TypeOK
<1>5. job' \in [Workers -> Jobs]
  BY IdleType DEF Commit, TypeOK
<1> QED
  BY <1>2, <1>3, <1>4, <1>5

\* A step that only reads into the worker's job, and perhaps takes a lock.
LEMMA ReadTypes ==
    ASSUME TypeOK, NEW w \in Workers, NEW j \in Jobs,
           job' = [job EXCEPT ![w] = j],
           UNCHANGED <<tables, now, swept, applied>>,
           requests' \in {requests, requests + 1},
           holder' = holder \/ \E row \in Rows : holder' = [holder EXCEPT ![row] = w]
    PROVE  TypeOK'
<1>1. job' \in [Workers -> Jobs]
  BY DEF TypeOK
<1>2. holder' \in [Rows -> Workers \cup {Nobody}]
  BY DEF TypeOK
<1>3. requests' \in Nat
  BY DEF TypeOK
<1> QED
  BY <1>1, <1>2, <1>3 DEF TypeOK, tables

LEMMA RecordedFacts ==
    ASSUME TypeOK, NEW x \in Int, NEW c \in Categories
    PROVE  /\ Recorded(x, c) \in Statements
           /\ Recorded(x, c).net = statement.net + x
           /\ Recorded(x, c).saved = statement.saved
           /\ Recorded(x, c).drawn = statement.drawn
BY DEF Recorded, TypeOK, Statements

\* The sums over the transactions after a transfer of x to M-Sinh loi.
LEMMA SavedFacts ==
    ASSUME TypeOK, NEW x \in Int
    PROVE  /\ Saved(x) \in Statements
           /\ Saved(x).net = statement.net - x
           /\ Saved(x).saved = statement.saved + x
           /\ Saved(x).drawn = statement.drawn
<1>1. Transfer \in Categories /\ -x \in Int /\ statement \in Statements
  BY ConstantsAssumption DEF TypeOK
<1>2. PICK r \in Statements : r = Recorded(-x, Transfer)
  BY <1>1, RecordedFacts
<1>3. /\ r.net = statement.net - x
      /\ r.saved = statement.saved
      /\ r.drawn = statement.drawn
      /\ statement.net \in Int
  BY <1>1, <1>2, RecordedFacts DEF Statements
<1>4. Saved(x) = [r EXCEPT !.saved = @ + x]
  BY <1>2 DEF Saved
<1> HIDE DEF Saved
<1> QED
  BY <1>3, <1>4 DEF Statements

LEMMA ExcessFacts ==
    ASSUME TypeOK
    PROVE  /\ Excess \in Nat
           /\ Excess = 0 \/ Excess = payment - savings.minimum
BY SavingsFacts DEF Excess, TypeOK

LEMMA ChargedType ==
    ASSUME TypeOK, NEW c \in Categories, NEW spent \in Seq(Int), NEW x \in Int
    PROVE  Charged(c, spent, x) \in Seq(Int)
<1>1. budgets[c] \in Seq(Int)
  BY DEF TypeOK
<1>2. PICK n \in Nat : DOMAIN budgets[c] = 1..n
  BY <1>1
<1>3. \A i \in 1..n : budgets[c][i] \in Int
  BY <1>1, <1>2
<1>4. \A i \in DOMAIN spent : spent[i] \in Int
  OBVIOUS
<1>5. Charged(c, spent, x) \in [1..n -> Int]
  BY <1>2, <1>3, <1>4 DEF Charged
<1>6. \A m \in Nat : \A f \in [1..m -> Int] : f \in Seq(Int)
  OBVIOUS
<1> QED
  BY <1>2, <1>5, <1>6

LEMMA InitType == Init => TypeOK
<1> SUFFICES ASSUME Init PROVE TypeOK
  OBVIOUS
<1> USE ConstantsAssumption DEF Init
<1>1. payment \in Int /\ savings \in SavingsRows /\ used \in Int
  BY DEF NoSavings, SavingsRows
<1>2. budgets \in [Categories -> Seq(Int)] /\ statement \in Statements
  BY DEF Statements
<1>3. job \in [Workers -> Jobs] /\ holder \in [Rows -> Workers \cup {Nobody}]
  BY IdleType
<1>4. now \in [day : Days, evening : BOOLEAN] /\ swept \in [Days -> Nat]
  BY DEF Days
<1> QED
  BY <1>1, <1>2, <1>3, <1>4 DEF TypeOK

LEMMA SingletonType == ASSUME NEW n \in Int PROVE <<n>> \in Seq(Int)
OBVIOUS

LEMMA TransfersType ==
    ASSUME TypeOK, NEW w \in Workers, Transfers(w)
    PROVE  TypeOK'
<1>0. /\ job[w] \in Jobs
      /\ job[w].amount \in Int
      /\ job[w].day \in Nat
      /\ now.day \in Nat
      /\ "savings" \in Rows /\ "facility" \in Rows
  BY JobFacts, DayFacts DEF Rows
<1>1. ASSUME NEW minimum \in Minimums, NEW k \in Keys \cup {NoKey},
             ActivateBegin(w, minimum, k)
      PROVE  TypeOK'
  <2>1. minimum \in Int
    BY ConstantsAssumption
  <2>2. [Idle EXCEPT !.step = "activate", !.amount = minimum, !.key = k] \in Jobs
    BY <2>1, IdleType DEF Jobs, Endpoints
  <2> QED
    BY <1>1, <2>2, ReadTypes DEF ActivateBegin, Begin
<1>2. CASE ActivateCommit(w)
  <2>1. payment - job[w].amount \in Int
    BY <1>0 DEF TypeOK
  <2>2. statement' \in Statements
    BY <1>2, <2>1, SavedFacts DEF ActivateCommit
  <2>3. "activate" \in Endpoints /\ Commit(w, "activate")
    BY <1>2 DEF ActivateCommit, Endpoints
  <2>4. /\ payment' \in Int
        /\ savings' \in SavingsRows
        /\ swept' \in [Days -> Nat]
    BY <1>0, <1>2, <2>1, DayFacts DEF ActivateCommit, TypeOK, SavingsRows
  <2> QED
    BY <1>2, <2>2, <2>3, <2>4, CommitTypes DEF ActivateCommit, TypeOK
<1>3. ASSUME NEW kind \in Kinds, SweepLock(w, kind)
      PROVE  TypeOK'
  <2>1. [Idle EXCEPT !.step = kind, !.day = now.day] \in Jobs
    BY <1>0, DayFacts, IdleType, ConstantsAssumption DEF Jobs
  <2> QED
    BY <1>0, <1>3, <2>1, ReadTypes DEF SweepLock, Begin, Lock
<1>4. ASSUME NEW kind \in Kinds, SweepCommit(w, kind)
      PROVE  TypeOK'
  <2>1. statement' \in Statements
    BY <1>4, ExcessFacts, SavedFacts DEF SweepCommit
  <2>2. payment' \in Int
    BY <1>4, ExcessFacts DEF SweepCommit, TypeOK
  <2>3. savings' \in SavingsRows
    <3>1. PICK e \in Int, d \in Nat : e = Excess /\ d = job[w].day
      BY <1>0, ExcessFacts
    <3>2. savings' = [[savings EXCEPT !.balance = @ + e] EXCEPT !.last = d]
      BY <1>4, <3>1, SavingsFacts DEF SweepCommit, SavingsRows
    <3>3. [savings EXCEPT !.balance = @ + e] \in SavingsRows
      BY SavingsFacts DEF SavingsRows
    <3> QED
      BY <3>2, <3>3 DEF SavingsRows
  <2>4. swept' \in [Days -> Nat]
    BY <1>4, JobFacts DEF SweepCommit, TypeOK
  <2>5. kind \in Endpoints /\ Commit(w, kind)
    BY <1>4, ConstantsAssumption DEF SweepCommit
  <2> QED
    BY <1>4, <2>1, <2>2, <2>3, <2>4, <2>5, CommitTypes DEF SweepCommit, TypeOK
<1>5. ASSUME NEW x \in Amounts, WithdrawLock(w, x)
      PROVE  TypeOK'
  <2>1. x \in Int
    BY ConstantsAssumption
  <2>2. [Idle EXCEPT !.step = "withdraw", !.amount = x] \in Jobs
    BY <2>1, IdleType DEF Jobs, Endpoints
  <2> QED
    BY <1>0, <1>5, <2>2, ReadTypes DEF WithdrawLock, Begin, Lock
<1>6. CASE WithdrawCommit(w)
  <2>1. statement' \in Statements
    BY <1>0, <1>6, SavedFacts DEF WithdrawCommit
  <2>2. payment' \in Int
    BY <1>0, <1>6 DEF WithdrawCommit, TypeOK
  <2>3. savings' \in SavingsRows
    BY <1>0, <1>6, SavingsFacts DEF WithdrawCommit, SavingsRows
  <2>4. "withdraw" \in Endpoints /\ Commit(w, "withdraw")
    BY <1>6 DEF WithdrawCommit, Endpoints
  <2> QED
    BY <1>6, <2>1, <2>2, <2>3, <2>4, CommitTypes DEF WithdrawCommit, TypeOK
<1>7. ASSUME NEW x \in Amounts, NEW k \in Keys \cup {NoKey}, DrawBegin(w, x, k)
      PROVE  TypeOK'
  <2>1. x \in Int
    BY ConstantsAssumption
  <2>2. [Idle EXCEPT !.step = "asked", !.amount = x, !.key = k] \in Jobs
    BY <2>1, IdleType DEF Jobs
  <2> QED
    BY <1>7, <2>2, ReadTypes DEF DrawBegin, Begin
<1>8. CASE DrawLock(w)
  <2>1. [job[w] EXCEPT !.step = "draw"] \in Jobs
    BY <1>0 DEF Jobs, Endpoints
  <2>2. job' = [job EXCEPT ![w] = [job[w] EXCEPT !.step = "draw"]]
    BY <1>8 DEF DrawLock
  <2> QED
    BY <1>0, <1>8, <2>1, <2>2, ReadTypes DEF DrawLock, Lock
<1>9. CASE DrawCommit(w)
  <2>1. statement' \in Statements
    <3>1. PICK r \in Statements : r = Recorded(job[w].amount, Transfer)
      BY <1>0, RecordedFacts, ConstantsAssumption
    <3>2. statement' = [r EXCEPT !.drawn = @ + job[w].amount]
      BY <1>9, <3>1 DEF DrawCommit
    <3> QED
      BY <1>0, <3>2 DEF Statements
  <2>2. payment' \in Int /\ used' \in Int
    BY <1>0, <1>9 DEF DrawCommit, TypeOK
  <2>3. "draw" \in Endpoints /\ Commit(w, "draw")
    BY <1>9 DEF DrawCommit, Endpoints
  <2> QED
    BY <1>9, <2>1, <2>2, <2>3, CommitTypes DEF DrawCommit, TypeOK
<1> QED
  BY <1>1, <1>2, <1>3, <1>4, <1>5, <1>6, <1>7, <1>8, <1>9 DEF Transfers

LEMMA SpendingType ==
    ASSUME TypeOK, NEW w \in Workers, Spending(w)
    PROVE  TypeOK'
<1>0. /\ job[w].amount \in Int
      /\ job[w].balance \in Int
      /\ job[w].category \in Categories
      /\ job[w].spent \in Seq(Int)
  BY JobFacts
<1>1. ASSUME NEW x \in Int, NEW c \in Categories, NEW k \in Keys \cup {NoKey},
             PostBegin(w, x, c, k)
      PROVE  TypeOK'
  <2> DEFINE seen == IF x < 0 THEN budgets[c] ELSE <<>>
  <2>1. seen \in Seq(Int) /\ payment \in Int
    BY DEF TypeOK
  <2>2. PICK spent \in Seq(Int) : spent = seen
    BY <2>1
  <2>3. [Idle EXCEPT !.step = "post", !.amount = x, !.category = c, !.key = k,
                     !.balance = payment, !.spent = spent] \in Jobs
    BY <2>1, IdleType DEF Jobs, Endpoints
  <2> QED
    BY <1>1, <2>2, <2>3, ReadTypes DEF PostBegin, Begin
<1>2. CASE PostCommit(w)
  <2>1. "post" \in Endpoints /\ Commit(w, "post")
    BY <1>2 DEF PostCommit, Endpoints
  <2>2. budgets' \in [Categories -> Seq(Int)]
    BY <1>0, <1>2, ChargedType DEF PostCommit, TypeOK
  <2>3. payment' \in Int
    BY <1>0, <1>2 DEF PostCommit, NewBalance
  <2>4. statement' \in Statements
    BY <1>0, <1>2, RecordedFacts DEF PostCommit
  <2> QED
    BY <1>2, <2>1, <2>2, <2>3, <2>4, CommitTypes DEF PostCommit, TypeOK
<1>3. ASSUME NEW c \in Categories, NEW k \in Keys \cup {NoKey}, BudgetBegin(w, c, k)
      PROVE  TypeOK'
  <2>1. SpentSoFar(c) \in Int
    BY DEF SpentSoFar, TypeOK, Statements
  <2>2. PICK spent \in Seq(Int) : spent = <<SpentSoFar(c)>>
    BY <2>1, SingletonType
  <2>3. [Idle EXCEPT !.step = "budget", !.category = c, !.key = k,
                     !.spent = spent] \in Jobs
    BY IdleType DEF Jobs, Endpoints
  <2> QED
    BY <1>3, <2>2, <2>3, ReadTypes DEF BudgetBegin, Begin
<1>4. CASE BudgetCommit(w)
  <2>1. "budget" \in Endpoints /\ Commit(w, "budget")
    BY <1>4 DEF BudgetCommit, Endpoints
  <2>2. budgets' \in [Categories -> Seq(Int)]
    BY <1>0, <1>4 DEF BudgetCommit, TypeOK
  <2> QED
    BY <1>4, <2>1, <2>2, CommitTypes DEF BudgetCommit, TypeOK
<1>5. \A x \in Amounts : x \in Int /\ -x \in Int
  BY ConstantsAssumption
<1> QED
  BY <1>1, <1>2, <1>3, <1>4, <1>5 DEF Spending

LEMMA TypeStep ==
    ASSUME TypeOK, [Next]_vars
    PROVE  TypeOK'
<1>1. CASE UNCHANGED vars
  BY <1>1 DEF vars, TypeOK
<1>2. ASSUME NEW w \in Workers, Rollback(w) PROVE TypeOK'
  <2>1. job' \in [Workers -> Jobs]
    BY <1>2, IdleType DEF Rollback, TypeOK
  <2>2. holder' \in [Rows -> Workers \cup {Nobody}]
    BY <1>2 DEF Rollback, Unlocked, TypeOK
  <2> QED
    BY <1>2, <2>1, <2>2 DEF Rollback, tables, TypeOK
<1>3. CASE Tick
  <2>1. now' \in [day : Days, evening : BOOLEAN]
    <3>1. CASE now.evening
      BY <1>3, <3>1, DayFacts, ConstantsAssumption DEF Tick, Days
    <3>2. CASE ~now.evening
      BY <1>3, <3>2, DayFacts DEF Tick, TypeOK
    <3> QED
      BY <3>1, <3>2
  <2> QED
    BY <1>3, <2>1 DEF Tick, tables, TypeOK
<1> QED
  BY <1>1, <1>2, <1>3, TransfersType, SpendingType DEF Next

\* The type invariant: no handler stores a value outside a column's domain.
THEOREM TypeCorrect == Spec => []TypeOK
<1>1. TypeOK /\ [Next]_vars => TypeOK'
  BY TypeStep
<1> QED
  BY InitType, <1>1, PTL DEF Spec

-----------------------------------------------------------------------------
(* Safety under every interleaving: the inductive invariant *)

BalancesSafe ==
    /\ payment >= 0
    /\ savings.balance >= 0
    /\ savings.minimum >= 0
    /\ savings.balance = statement.saved
    /\ ~savings.open => savings.balance = 0
    /\ used = statement.drawn
    /\ used <= Limit

\* The days already swept are not after the day the row remembers.
SweepsSafe ==
    /\ \A d \in Days : swept[d] <= 1
    /\ \A d \in Days : swept[d] # 0 => savings.open /\ d <= savings.last
    /\ savings.last <= now.day

KeysSafe ==
    \A operation \in Endpoints \X Keys :
        /\ applied[operation] <= 1
        /\ operation \notin keys => applied[operation] = 0

\* What a handler checked still holds when it commits: the row it checked is
\* locked by it, or it writes no more than it read.
JobSafe(w) ==
    /\ job[w].step \in {"sweep", "demo", "withdraw"} =>
           holder["savings"] = w /\ savings.open
    /\ job[w].step = "draw" => holder["facility"] = w /\ job[w].amount <= Limit - used
    /\ job[w].step \in {"activate", "withdraw", "asked", "draw"} => job[w].amount >= 0
    /\ job[w].step = "withdraw" => job[w].amount <= savings.balance
    /\ job[w].step = "post" => job[w].balance + job[w].amount >= 0
    /\ job[w].step = "sweep" => savings.last < job[w].day
    /\ job[w].step \in {"sweep", "demo"} =>
           savings.last <= job[w].day /\ job[w].day <= now.day

TablesSafe == BalancesSafe /\ SweepsSafe /\ KeysSafe
Safe == TablesSafe /\ \A w \in Workers : JobSafe(w)
IInv == TypeOK /\ Safe

LEMMA InitSafe == Init => Safe
<1> SUFFICES ASSUME Init PROVE Safe
  OBVIOUS
<1>1. TablesSafe
  BY ConstantsAssumption DEF Init, NoSavings, TablesSafe, BalancesSafe, SweepsSafe, KeysSafe
<1>2. \A w \in Workers : JobSafe(w)
  BY DEF Init, Idle, JobSafe
<1> QED
  BY <1>1, <1>2 DEF Safe

\* A worker that only reads disturbs nobody: it takes a lock only if it is free.
LEMMA ReadSafe ==
    ASSUME IInv, NEW w \in Workers, NEW j \in Jobs, job' = [job EXCEPT ![w] = j],
           UNCHANGED <<tables, now, swept, applied>>,
           holder' = holder \/ \E row \in Rows : Lock(w, row),
           JobSafe(w)'
    PROVE  Safe'
<1>1. TablesSafe'
  BY DEF IInv, Safe, TablesSafe, BalancesSafe, SweepsSafe, KeysSafe, tables
<1>2. ASSUME NEW v \in Workers, v # w PROVE JobSafe(v)'
  <2>1. job'[v] = job[v]
    BY <1>2 DEF IInv, TypeOK
  <2>2. \A row \in Rows : holder[row] = v => holder'[row] = v
    BY ConstantsAssumption DEF Lock, Free, IInv, TypeOK
  <2> QED
    BY <2>1, <2>2 DEF IInv, Safe, JobSafe, tables, Rows
<1> QED
  BY <1>1, <1>2 DEF Safe

\* A worker that commits, or rolls back, changes a row that others may rely on
\* only if it holds its lock.
LEMMA CommitSafe ==
    ASSUME IInv, NEW w \in Workers,
           job' = [job EXCEPT ![w] = Idle], holder' = Unlocked(w), now' = now,
           \/ savings' = savings
           \/ holder["savings"] = w
           \/ ~savings.open,
           used' = used \/ holder["facility"] = w,
           TablesSafe'
    PROVE  Safe'
<1>1. JobSafe(w)'
  BY DEF IInv, TypeOK, JobSafe, Idle
<1>2. ASSUME NEW v \in Workers, v # w PROVE JobSafe(v)'
  <2>1. job'[v] = job[v]
    BY <1>2 DEF IInv, TypeOK
  <2>2. \A row \in Rows : holder[row] = v => holder'[row] = v
    BY <1>2 DEF Unlocked
  <2>3. job[v].step \in {"sweep", "demo", "withdraw"} => savings' = savings
    BY <1>2 DEF IInv, Safe, JobSafe
  <2>4. job[v].step = "draw" => used' = used
    BY <1>2 DEF IInv, Safe, JobSafe
  <2> QED
    BY <2>1, <2>2, <2>3, <2>4 DEF IInv, Safe, JobSafe, Rows
<1> QED
  BY <1>1, <1>2 DEF Safe

LEMMA CommitKeys ==
    ASSUME IInv, NEW w \in Workers, NEW kind \in Endpoints, Commit(w, kind)
    PROVE  KeysSafe'
<1>1. CASE job[w].key = NoKey
  BY <1>1 DEF Commit, IInv, Safe, TablesSafe, KeysSafe
<1>2. CASE job[w].key # NoKey
  <2> DEFINE mine == <<kind, job[w].key>>
  <2>1. mine \in Endpoints \X Keys
    BY <1>2, JobFacts DEF IInv
  <2>2. mine \notin keys /\ keys' = keys \cup {mine} /\ applied' = [applied EXCEPT ![mine] = @ + 1]
    BY <1>2 DEF Commit, Unique
  <2> HIDE DEF mine
  <2> QED
    BY <2>1, <2>2 DEF IInv, TypeOK, Safe, TablesSafe, KeysSafe
<1> QED
  BY <1>1, <1>2

LEMMA TransfersSafe ==
    ASSUME IInv, NEW w \in Workers, Transfers(w)
    PROVE  Safe'
<1> USE DEF IInv, At
<1>0. /\ job[w] \in Jobs
      /\ job[w].amount \in Int
      /\ job[w].day \in Days
      /\ job[w].day \in Nat
      /\ now.day \in Days
      /\ now.day \in Nat
      /\ payment \in Int
      /\ used \in Int
      /\ savings.balance \in Int
      /\ savings.minimum \in Int
      /\ savings.last \in Nat
      /\ statement.saved \in Int
      /\ statement.drawn \in Int
      /\ "savings" \in Rows /\ "facility" \in Rows
  BY JobFacts, DayFacts, SavingsFacts DEF Rows, TypeOK, Statements
<1>j. JobSafe(w) /\ BalancesSafe /\ SweepsSafe
  BY DEF Safe, TablesSafe
<1>e. Endpoints = {"activate", "sweep", "demo", "withdraw", "draw", "post", "budget"}
  BY DEF Endpoints
<1>1. ASSUME NEW minimum \in Minimums, NEW k \in Keys \cup {NoKey},
             ActivateBegin(w, minimum, k)
      PROVE  Safe'
  <2> DEFINE j == [Idle EXCEPT !.step = "activate", !.amount = minimum, !.key = k]
  <2>1. minimum \in Int /\ minimum >= 0
    BY ConstantsAssumption
  <2>2. j \in Jobs /\ j.step = "activate" /\ j.amount = minimum
    BY <2>1, <1>e, IdleType DEF Jobs
  <2>3. job' = [job EXCEPT ![w] = j] /\ holder' = holder
    BY <1>1 DEF ActivateBegin
  <2>4. job'[w] = j
    BY <2>3 DEF TypeOK
  <2> HIDE DEF j
  <2>5. JobSafe(w)'
    BY <2>1, <2>2, <2>4 DEF JobSafe
  <2> QED
    BY <1>1, <2>2, <2>3, <2>5, ReadSafe DEF ActivateBegin
<1>2. CASE ActivateCommit(w)
  <2>0. PICK x \in Int : x = payment - job[w].amount
    BY <1>0
  <2>1. /\ job[w].amount >= 0 /\ x >= 0
        /\ payment' = job[w].amount
        /\ savings'.open /\ savings'.last = now.day
        /\ savings'.balance = x /\ savings'.minimum = job[w].amount
        /\ used' = used
        /\ statement' = Saved(x)
    BY <1>0, <1>j, <1>2, <2>0 DEF ActivateCommit, JobSafe
  <2>a. /\ statement'.saved = statement.saved + x
        /\ statement'.drawn = statement.drawn
    BY <2>1, SavedFacts
  <2>b. statement.saved = 0
    BY <1>j, <1>2 DEF BalancesSafe, ActivateCommit
  <2>2. BalancesSafe'
    BY <1>0, <1>j, <2>0, <2>1, <2>a, <2>b DEF BalancesSafe
  <2>3. SweepsSafe'
    BY <1>0, <1>j, <1>2, <2>1 DEF SweepsSafe, ActivateCommit, TypeOK
  <2>4. Commit(w, "activate") /\ ~savings.open /\ now' = now
    BY <1>2 DEF ActivateCommit
  <2>5. KeysSafe'
    BY <1>e, <2>4, CommitKeys
  <2> QED
    BY <2>1, <2>2, <2>3, <2>4, <2>5, CommitSafe DEF Commit, TablesSafe
<1>3. ASSUME NEW kind \in Kinds, SweepLock(w, kind)
      PROVE  Safe'
  <2> DEFINE j == [Idle EXCEPT !.step = kind, !.day = now.day]
  <2>1. j \in Jobs /\ j.step = kind /\ j.day = now.day /\ kind \in {"sweep", "demo"}
    BY <1>0, <1>3, <1>e, IdleType DEF Jobs, SweepLock
  <2>2. job' = [job EXCEPT ![w] = j] /\ Lock(w, "savings") /\ savings.open
    BY <1>3 DEF SweepLock
  <2>3. kind = "sweep" => savings.last # now.day
    BY <1>3 DEF SweepLock, Due
  <2>4. job'[w] = j /\ holder'["savings"] = w
    BY <1>0, <2>2 DEF TypeOK, Lock
  <2> HIDE DEF j
  <2>5. UNCHANGED <<tables, now, swept, applied>>
    BY <1>3 DEF SweepLock
  <2>6. JobSafe(w)'
    BY <1>0, <1>j, <2>1, <2>2, <2>3, <2>4, <2>5 DEF JobSafe, SweepsSafe, tables
  <2> QED
    BY <1>0, <2>1, <2>2, <2>5, <2>6, ReadSafe
<1>4. ASSUME NEW kind \in Kinds, SweepCommit(w, kind)
      PROVE  Safe'
  <2>1. /\ kind \in {"sweep", "demo"}
        /\ job[w].step = kind
        /\ holder["savings"] = w /\ savings.open
        /\ Commit(w, kind)
        /\ now' = now /\ used' = used
    BY <1>4, <1>j DEF SweepCommit, JobSafe
  <2>2. PICK e \in Nat : e = Excess
    BY ExcessFacts
  <2>3. /\ payment' = payment - e /\ payment - e >= 0
        /\ statement' = Saved(e)
    BY <1>0, <1>4, <1>j, <2>2, ConstantsAssumption DEF SweepCommit, Excess, BalancesSafe
  <2>4. /\ savings'.open = savings.open
        /\ savings'.balance = savings.balance + e
        /\ savings'.last = job[w].day
        /\ savings'.minimum = savings.minimum
    BY <1>4, <2>2, SavingsFacts DEF SweepCommit, SavingsRows
  <2>5. BalancesSafe'
    BY <1>0, <1>j, <2>1, <2>2, <2>3, <2>4, SavedFacts DEF BalancesSafe
  <2>6. SweepsSafe'
    <3>1. savings.last <= job[w].day /\ job[w].day <= now.day
      BY <1>j, <2>1 DEF JobSafe
    <3>2. CASE kind = "sweep"
      <4>1. savings.last < job[w].day
        BY <1>j, <2>1, <3>2 DEF JobSafe
      <4>2. swept[job[w].day] = 0
        BY <1>0, <1>j, <4>1 DEF SweepsSafe
      <4>3. swept' = [swept EXCEPT ![job[w].day] = 1]
        BY <1>4, <3>2, <4>2 DEF SweepCommit
      <4>4. swept \in [Days -> Nat]
        BY <1>0 DEF TypeOK
      <4>5. savings.last <= savings'.last /\ savings'.last <= now'.day /\ savings'.open
        BY <2>1, <2>4, <3>1
      <4>6. ASSUME NEW d \in Days, d # job[w].day
            PROVE  /\ swept'[d] <= 1
                   /\ swept'[d] # 0 => d <= savings'.last
        <5>1. swept'[d] = swept[d]
          BY <4>3, <4>4, <4>6
        <5>2. swept[d] <= 1 /\ (swept[d] # 0 => d <= savings.last)
          BY <1>j DEF SweepsSafe
        <5>3. savings.last \in Int /\ savings'.last \in Int /\ d \in Int
          BY <1>0, <2>4, <1>e DEF TypeOK, Days
        <5> QED
          BY <4>5, <5>1, <5>2, <5>3
      <4>7. job[w].day \in Days => swept'[job[w].day] = 1
        BY <4>3, <4>4
      <4>8. job[w].day <= savings'.last
        BY <1>0, <1>e, <2>4 DEF Days
      <4> QED
        BY <4>5, <4>6, <4>7, <4>8 DEF SweepsSafe
    <3>3. CASE kind = "demo"
      <4>1. swept' = swept
        BY <1>4, <3>3 DEF SweepCommit
      <4> QED
        BY <1>0, <1>j, <2>1, <2>4, <3>1, <4>1 DEF SweepsSafe, TypeOK, Days
    <3> QED
      BY <2>1, <3>2, <3>3
  <2>7. KeysSafe'
    BY <1>e, <2>1, CommitKeys
  <2> QED
    BY <2>1, <2>5, <2>6, <2>7, CommitSafe DEF Commit, TablesSafe
<1>5. ASSUME NEW x \in Amounts, WithdrawLock(w, x)
      PROVE  Safe'
  <2> DEFINE j == [Idle EXCEPT !.step = "withdraw", !.amount = x]
  <2>1. x \in Int /\ x >= 0
    BY ConstantsAssumption
  <2>2. j \in Jobs /\ j.step = "withdraw" /\ j.amount = x
    BY <2>1, <1>e, IdleType DEF Jobs
  <2>3. /\ job' = [job EXCEPT ![w] = j] /\ Lock(w, "savings")
        /\ savings.open /\ x <= savings.balance
    BY <1>5 DEF WithdrawLock
  <2>4. job'[w] = j /\ holder'["savings"] = w
    BY <1>0, <2>3 DEF TypeOK, Lock
  <2> HIDE DEF j
  <2>5. UNCHANGED <<tables, now, swept, applied>>
    BY <1>5 DEF WithdrawLock
  <2>6. JobSafe(w)'
    BY <2>1, <2>2, <2>3, <2>4, <2>5 DEF JobSafe, tables
  <2> QED
    BY <1>0, <2>2, <2>3, <2>5, <2>6, ReadSafe
<1>6. CASE WithdrawCommit(w)
  <2>0. PICK x \in Int : x = -job[w].amount
    BY <1>0
  <2>1. /\ job[w].amount >= 0 /\ job[w].amount <= savings.balance
        /\ holder["savings"] = w /\ savings.open
        /\ payment' = payment + job[w].amount
        /\ statement' = Saved(x)
        /\ now' = now /\ used' = used /\ swept' = swept
        /\ Commit(w, "withdraw")
    BY <1>6, <1>j, <2>0 DEF WithdrawCommit, JobSafe
  <2>2. /\ savings'.open = savings.open
        /\ savings'.balance = savings.balance + x
        /\ savings'.last = savings.last
        /\ savings'.minimum = savings.minimum
    BY <1>0, <1>6, <2>0, SavingsFacts DEF WithdrawCommit, SavingsRows
  <2>3. BalancesSafe'
    BY <1>0, <1>j, <2>0, <2>1, <2>2, SavedFacts DEF BalancesSafe
  <2>4. SweepsSafe'
    BY <1>j, <2>1, <2>2 DEF SweepsSafe
  <2>5. KeysSafe'
    BY <1>e, <2>1, CommitKeys
  <2> QED
    BY <2>1, <2>3, <2>4, <2>5, CommitSafe DEF Commit, TablesSafe
<1>7. ASSUME NEW x \in Amounts, NEW k \in Keys \cup {NoKey}, DrawBegin(w, x, k)
      PROVE  Safe'
  <2> DEFINE j == [Idle EXCEPT !.step = "asked", !.amount = x, !.key = k]
  <2>1. x \in Int /\ x >= 0
    BY ConstantsAssumption
  <2>2. j \in Jobs /\ j.step = "asked" /\ j.amount = x
    BY <2>1, IdleType DEF Jobs
  <2>3. job' = [job EXCEPT ![w] = j] /\ holder' = holder
    BY <1>7 DEF DrawBegin
  <2>4. job'[w] = j
    BY <2>3 DEF TypeOK
  <2> HIDE DEF j
  <2>5. JobSafe(w)'
    BY <2>1, <2>2, <2>4 DEF JobSafe
  <2> QED
    BY <1>7, <2>2, <2>3, <2>5, ReadSafe DEF DrawBegin
<1>8. CASE DrawLock(w)
  <2> DEFINE j == [job[w] EXCEPT !.step = "draw"]
  <2>1. /\ job[w].step = "asked" /\ job[w].amount >= 0
        /\ job[w].amount <= Limit - used
        /\ job' = [job EXCEPT ![w] = j] /\ Lock(w, "facility")
    BY <1>8, <1>j DEF DrawLock, JobSafe
  <2>2. j \in Jobs /\ j.step = "draw" /\ j.amount = job[w].amount
    BY <1>0, <1>e DEF Jobs
  <2>3. job'[w] = j /\ holder'["facility"] = w
    BY <1>0, <2>1 DEF TypeOK, Lock
  <2> HIDE DEF j
  <2>4. UNCHANGED <<tables, now, swept, applied>>
    BY <1>8 DEF DrawLock
  <2>5. JobSafe(w)'
    BY <2>1, <2>2, <2>3, <2>4 DEF JobSafe, tables
  <2> QED
    BY <1>0, <2>1, <2>2, <2>4, <2>5, ReadSafe
<1>9. CASE DrawCommit(w)
  <2>1. /\ job[w].amount >= 0 /\ job[w].amount <= Limit - used
        /\ holder["facility"] = w
        /\ used' = used + job[w].amount
        /\ payment' = payment + job[w].amount
        /\ now' = now /\ savings' = savings /\ swept' = swept
        /\ Commit(w, "draw")
    BY <1>9, <1>j DEF DrawCommit, JobSafe
  <2>2. PICK r \in Statements : r = Recorded(job[w].amount, Transfer)
    BY <1>0, RecordedFacts, ConstantsAssumption
  <2>3. r.saved = statement.saved /\ r.drawn = statement.drawn
    BY <1>0, <2>2, RecordedFacts, ConstantsAssumption
  <2>4. statement' = [r EXCEPT !.drawn = @ + job[w].amount]
    BY <1>9, <2>2 DEF DrawCommit
  <2>5. /\ statement'.saved = statement.saved
        /\ statement'.drawn = statement.drawn + job[w].amount
    BY <2>3, <2>4 DEF Statements
  <2>6. BalancesSafe'
    BY <1>0, <1>j, <2>1, <2>5, ConstantsAssumption DEF BalancesSafe
  <2>7. SweepsSafe'
    BY <1>j, <2>1 DEF SweepsSafe
  <2>8. KeysSafe'
    BY <1>e, <2>1, CommitKeys
  <2> QED
    BY <2>1, <2>6, <2>7, <2>8, CommitSafe DEF Commit, TablesSafe
<1> QED
  BY <1>1, <1>2, <1>3, <1>4, <1>5, <1>6, <1>7, <1>8, <1>9 DEF Transfers

LEMMA SpendingSafe ==
    ASSUME IInv, NEW w \in Workers, Spending(w)
    PROVE  Safe'
<1> USE DEF IInv, At
<1>0. /\ job[w].amount \in Int /\ job[w].balance \in Int
      /\ job[w].category \in Categories
      /\ payment \in Int
  BY JobFacts DEF TypeOK
<1>j. JobSafe(w) /\ BalancesSafe /\ SweepsSafe
  BY DEF Safe, TablesSafe
<1>e. Endpoints = {"activate", "sweep", "demo", "withdraw", "draw", "post", "budget"}
  BY DEF Endpoints
<1>1. ASSUME NEW x \in Int, NEW c \in Categories, NEW k \in Keys \cup {NoKey},
             PostBegin(w, x, c, k)
      PROVE  Safe'
  <2>0. (IF x < 0 THEN budgets[c] ELSE <<>>) \in Seq(Int)
    BY DEF TypeOK
  <2>1. PICK spent \in Seq(Int) : spent = IF x < 0 THEN budgets[c] ELSE <<>>
    BY <2>0
  <2> DEFINE j == [Idle EXCEPT !.step = "post", !.amount = x, !.category = c, !.key = k,
                               !.balance = payment, !.spent = spent]
  <2>2. j \in Jobs /\ j.step = "post" /\ j.amount = x /\ j.balance = payment
    BY <1>0, <1>e, IdleType DEF Jobs
  <2>3. job' = [job EXCEPT ![w] = j] /\ holder' = holder
    BY <1>1, <2>1 DEF PostBegin
  <2>4. payment + x >= 0
    BY <1>0, <1>1, <1>j DEF PostBegin, Covered, BalancesSafe
  <2>5. job'[w] = j
    BY <2>3 DEF TypeOK
  <2> HIDE DEF j
  <2>6. JobSafe(w)'
    BY <2>2, <2>4, <2>5 DEF JobSafe
  <2> QED
    BY <1>1, <2>2, <2>3, <2>6, ReadSafe DEF PostBegin
<1>2. CASE PostCommit(w)
  <2>1. /\ payment' = job[w].balance + job[w].amount
        /\ payment' >= 0
        /\ now' = now /\ savings' = savings /\ used' = used /\ swept' = swept
        /\ statement' = Recorded(job[w].amount, job[w].category)
        /\ Commit(w, "post")
    BY <1>2, <1>j DEF PostCommit, NewBalance, JobSafe
  <2>2. /\ statement'.saved = statement.saved
        /\ statement'.drawn = statement.drawn
    BY <1>0, <2>1, RecordedFacts
  <2>3. BalancesSafe'
    BY <1>j, <2>1, <2>2 DEF BalancesSafe
  <2>4. SweepsSafe'
    BY <1>j, <2>1 DEF SweepsSafe
  <2>5. KeysSafe'
    BY <1>e, <2>1, CommitKeys
  <2> QED
    BY <2>1, <2>3, <2>4, <2>5, CommitSafe DEF Commit, TablesSafe
<1>3. ASSUME NEW c \in Categories, NEW k \in Keys \cup {NoKey}, BudgetBegin(w, c, k)
      PROVE  Safe'
  <2>1. SpentSoFar(c) \in Int
    BY DEF SpentSoFar, TypeOK, Statements
  <2>2. PICK spent \in Seq(Int) : spent = <<SpentSoFar(c)>>
    BY <2>1, SingletonType
  <2> DEFINE j == [Idle EXCEPT !.step = "budget", !.category = c, !.key = k,
                               !.spent = spent]
  <2>3. j \in Jobs /\ j.step = "budget"
    BY <1>e, IdleType DEF Jobs
  <2>4. job' = [job EXCEPT ![w] = j] /\ holder' = holder
    BY <1>3, <2>2 DEF BudgetBegin
  <2>5. job'[w] = j
    BY <2>4 DEF TypeOK
  <2> HIDE DEF j
  <2>6. JobSafe(w)'
    BY <2>3, <2>5 DEF JobSafe
  <2> QED
    BY <1>3, <2>3, <2>4, <2>6, ReadSafe DEF BudgetBegin
<1>4. CASE BudgetCommit(w)
  <2>1. /\ UNCHANGED <<payment, savings, used, statement, now, swept>>
        /\ Commit(w, "budget")
    BY <1>4 DEF BudgetCommit
  <2>2. BalancesSafe' /\ SweepsSafe'
    BY <1>j, <2>1 DEF BalancesSafe, SweepsSafe
  <2>3. KeysSafe'
    BY <1>e, <2>1, CommitKeys
  <2> QED
    BY <2>1, <2>2, <2>3, CommitSafe DEF Commit, TablesSafe
<1>5. \A x \in Amounts : x \in Int /\ -x \in Int
  BY ConstantsAssumption
<1> QED
  BY <1>1, <1>2, <1>3, <1>4, <1>5 DEF Spending

LEMMA NextSafe ==
    ASSUME IInv, [Next]_vars
    PROVE  Safe'
<1>1. CASE UNCHANGED vars
  BY <1>1 DEF vars, IInv, Safe, TablesSafe, BalancesSafe, SweepsSafe, KeysSafe, JobSafe
<1>2. ASSUME NEW w \in Workers, Rollback(w) PROVE Safe'
  <2>1. UNCHANGED <<tables, now, swept, applied>>
    BY <1>2 DEF Rollback
  <2>2. TablesSafe'
    BY <2>1 DEF tables, IInv, Safe, TablesSafe, BalancesSafe, SweepsSafe, KeysSafe
  <2> QED
    BY <1>2, <2>1, <2>2, CommitSafe DEF Rollback, tables
<1>3. CASE Tick
  <2>1. now'.day \in Nat /\ now'.day >= now.day
    BY <1>3, DayFacts DEF Tick, IInv, TypeOK
  <2>2. UNCHANGED <<tables, holder, job, swept, applied>>
    BY <1>3 DEF Tick
  <2>3. TablesSafe'
    BY <2>1, <2>2, DayFacts, SavingsFacts DEF tables, IInv, Safe, TablesSafe, BalancesSafe,
       SweepsSafe, KeysSafe
  <2>4. ASSUME NEW w \in Workers PROVE JobSafe(w)'
    BY <2>1, <2>2, DayFacts, JobFacts DEF tables, IInv, Safe, JobSafe
  <2> QED
    BY <2>3, <2>4 DEF Safe
<1> QED
  BY <1>1, <1>2, <1>3, TransfersSafe, SpendingSafe DEF Next

LEMMA Invariance == Spec => []IInv
<1>1. Init => IInv
  BY InitType, InitSafe DEF IInv
<1>2. IInv /\ [Next]_vars => IInv'
  BY TypeStep, NextSafe DEF IInv
<1> QED
  BY <1>1, <1>2, PTL DEF Spec

\* No balance goes below zero, not even with create_transaction raced.
LEMMA BalancesNonNegative == Spec => []NeverOverdrawn
<1>1. IInv => NeverOverdrawn
  BY DEF IInv, Safe, TablesSafe, BalancesSafe, NeverOverdrawn
<1> QED
  BY <1>1, Invariance, PTL

\* The overdraft facility stays within its limit under any concurrency.
LEMMA OverdraftIsBounded == Spec => []OverdraftWithinLimit
<1>1. IInv => OverdraftWithinLimit
  BY DEF IInv, Safe, TablesSafe, BalancesSafe, OverdraftWithinLimit
<1> QED
  BY <1>1, Invariance, PTL

\* No balance goes below zero and no facility beyond its limit.
THEOREM LimitsAreKept == Spec => []LimitsKept
<1>1. NeverOverdrawn /\ OverdraftWithinLimit => LimitsKept
  BY DEF LimitsKept
<1> QED
  BY <1>1, BalancesNonNegative, OverdraftIsBounded, PTL

\* The balance of M-Sinh loi is what the transactions moved there.
THEOREM SavingsAreExplained == Spec => []SavingsExplained
<1>1. IInv => SavingsExplained
  BY DEF IInv, Safe, TablesSafe, BalancesSafe, SavingsExplained
<1> QED
  BY <1>1, Invariance, PTL

\* Surplus is swept once a day at most, whenever midnight falls.
THEOREM SweepsOncePerDay == Spec => []OneSweepPerDay
<1>1. IInv => OneSweepPerDay
  BY DEF IInv, Safe, TablesSafe, SweepsSafe, OneSweepPerDay
<1> QED
  BY <1>1, Invariance, PTL

\* An operation is applied once per idempotency key.
THEOREM KeysApplyOnce == Spec => []KeyedOnce
<1>1. IInv => KeyedOnce
  BY DEF IInv, Safe, TablesSafe, KeysSafe, KeyedOnce
<1> QED
  BY <1>1, Invariance, PTL

-----------------------------------------------------------------------------
(* The payment account and its transactions *)

MoneyFacts ==
    /\ payment \in Int
    /\ statement.net \in Int
    /\ savings.balance \in Int
    /\ savings.minimum \in Int
    /\ \A w \in Workers : job[w].amount \in Int /\ job[w].balance \in Int

LEMMA MoneyTypes == TypeOK => MoneyFacts
BY JobFacts, SavingsFacts DEF TypeOK, Statements, MoneyFacts

\* Every step but the commit of create_transaction changes the balance and the
\* sum of the transactions alike.
LEMMA NetConserved ==
    ASSUME IInv, [Next]_vars, \A w \in Workers : ~PostCommit(w)
    PROVE  payment' - statement'.net = payment - statement.net
<1> USE MoneyTypes DEF IInv, MoneyFacts
<1>q. CASE UNCHANGED <<payment, statement>>
  BY <1>q
<1>1. ASSUME NEW w \in Workers, ActivateCommit(w)
      PROVE  payment' - statement'.net = payment - statement.net
  <2>1. PICK x \in Int : x = payment - job[w].amount
    OBVIOUS
  <2>2. payment' = job[w].amount /\ statement' = Saved(x)
    BY <1>1, <2>1 DEF ActivateCommit
  <2> QED
    BY <2>1, <2>2, SavedFacts
<1>2. ASSUME NEW w \in Workers, NEW kind \in Kinds, SweepCommit(w, kind)
      PROVE  payment' - statement'.net = payment - statement.net
  <2>1. PICK e \in Int : e = Excess
    BY ExcessFacts
  <2>2. payment' = payment - e /\ statement' = Saved(e)
    BY <1>2, <2>1 DEF SweepCommit
  <2> QED
    BY <2>2, SavedFacts
<1>3. ASSUME NEW w \in Workers, WithdrawCommit(w)
      PROVE  payment' - statement'.net = payment - statement.net
  <2>1. PICK x \in Int : x = -job[w].amount
    OBVIOUS
  <2>2. payment' = payment - x /\ statement' = Saved(x)
    BY <1>3, <2>1 DEF WithdrawCommit
  <2> QED
    BY <2>2, SavedFacts
<1>4. ASSUME NEW w \in Workers, DrawCommit(w)
      PROVE  payment' - statement'.net = payment - statement.net
  <2>1. PICK r \in Statements : r = Recorded(job[w].amount, Transfer)
    BY RecordedFacts, ConstantsAssumption
  <2>2. r.net = statement.net + job[w].amount
    BY <2>1, RecordedFacts, ConstantsAssumption
  <2>3. /\ payment' = payment + job[w].amount
        /\ statement' = [r EXCEPT !.drawn = @ + job[w].amount]
    BY <1>4, <2>1 DEF DrawCommit
  <2> QED
    BY <2>2, <2>3 DEF Statements
<1>5. ASSUME NEW w \in Workers, Transfers(w)
      PROVE  payment' - statement'.net = payment - statement.net
  <2>1. CASE UNCHANGED tables
    BY <1>q, <2>1 DEF tables
  <2>2. \/ UNCHANGED tables
        \/ ActivateCommit(w) \/ WithdrawCommit(w) \/ DrawCommit(w)
        \/ \E kind \in Kinds : SweepCommit(w, kind)
    BY <1>5 DEF Transfers, ActivateBegin, SweepLock, WithdrawLock, DrawBegin, DrawLock
  <2> QED
    BY <1>1, <1>2, <1>3, <1>4, <2>1, <2>2
<1>6. ASSUME NEW w \in Workers, Spending(w) \/ Rollback(w)
      PROVE  UNCHANGED <<payment, statement>>
  BY <1>6 DEF Spending, PostBegin, BudgetBegin, BudgetCommit, Rollback, tables
<1>7. CASE Tick \/ UNCHANGED vars
  BY <1>q, <1>7 DEF Tick, tables, vars
<1> QED
  BY <1>5, <1>6, <1>7, <1>q DEF Next

\* create_transaction is not raced: it is not called, or there is one thread.
Uncontended == "post" \notin Kinds \/ \A v, w \in Workers : v = w

NetSafe ==
    /\ payment = Opening + statement.net
    /\ \A w \in Workers : job[w].step = "post" => "post" \in Kinds /\ job[w].balance = payment

\* What a worker does by itself never leaves it in create_transaction or in
\* create_budget, except their beginnings.
LEMMA OthersLeavePost ==
    ASSUME TypeOK, NEW w \in Workers, Transfers(w) \/ Rollback(w) \/ BudgetCommit(w) \/ PostCommit(w)
    PROVE  job'[w].step \notin {"post", "budget"}
<1>0. \A step, amount, key, day :
         /\ [Idle EXCEPT !.step = step, !.amount = amount, !.key = key].step = step
         /\ [Idle EXCEPT !.step = step, !.amount = amount].step = step
         /\ [Idle EXCEPT !.step = step, !.day = day].step = step
  BY DEF Idle
<1>1. job \in [Workers -> Jobs]
  BY DEF TypeOK
<1>2. CASE Rollback(w) \/ BudgetCommit(w) \/ PostCommit(w) \/ ActivateCommit(w)
           \/ WithdrawCommit(w) \/ DrawCommit(w) \/ \E kind \in Kinds : SweepCommit(w, kind)
  <2>1. job' = [job EXCEPT ![w] = Idle]
    BY <1>2 DEF Rollback, BudgetCommit, PostCommit, ActivateCommit, WithdrawCommit,
       DrawCommit, SweepCommit, Commit
  <2> QED
    BY <1>1, <2>1 DEF Idle
<1>3. ASSUME NEW minimum \in Minimums, NEW k \in Keys \cup {NoKey},
             ActivateBegin(w, minimum, k)
      PROVE  job'[w].step \notin {"post", "budget"}
  BY <1>0, <1>1, <1>3 DEF ActivateBegin
<1>4. ASSUME NEW kind \in Kinds, SweepLock(w, kind)
      PROVE  job'[w].step \notin {"post", "budget"}
  BY <1>0, <1>1, <1>4 DEF SweepLock
<1>5. ASSUME NEW x \in Amounts, WithdrawLock(w, x)
      PROVE  job'[w].step \notin {"post", "budget"}
  BY <1>0, <1>1, <1>5 DEF WithdrawLock
<1>6. ASSUME NEW x \in Amounts, NEW k \in Keys \cup {NoKey}, DrawBegin(w, x, k)
      PROVE  job'[w].step \notin {"post", "budget"}
  BY <1>0, <1>1, <1>6 DEF DrawBegin
<1>7. CASE DrawLock(w)
  <2>1. job' = [job EXCEPT ![w] = [job[w] EXCEPT !.step = "draw"]] /\ job[w] \in Jobs
    BY <1>1, <1>7 DEF DrawLock
  <2> QED
    BY <1>1, <2>1 DEF Jobs
<1> QED
  BY <1>2, <1>3, <1>4, <1>5, <1>6, <1>7 DEF Transfers

\* A worker in create_transaction either has just read the balance, or is
\* where it was; in that case the step is another worker's or moves no money.
LEMMA InPost ==
    ASSUME TypeOK, [Next]_vars, NEW w \in Workers, job'[w].step = "post"
    PROVE  \/ "post" \in Kinds /\ job'[w].balance = payment /\ payment' = payment
           \/ /\ job'[w] = job[w]
              /\ payment' = payment \/ \E v \in Workers : v # w
<1>1. job \in [Workers -> Jobs] /\ payment \in Int /\ Idle \in Jobs
  BY IdleType DEF TypeOK
<1>2. CASE Tick \/ UNCHANGED vars
  BY <1>2 DEF Tick, tables, vars
<1>3. ASSUME NEW v \in Workers, v # w, Transfers(v) \/ Spending(v) \/ Rollback(v)
      PROVE  job'[w] = job[w]
  BY <1>1, <1>3 DEF Transfers, Spending, Rollback, ActivateBegin, ActivateCommit, SweepLock,
     SweepCommit, WithdrawLock, WithdrawCommit, DrawBegin, DrawLock, DrawCommit, PostBegin,
     PostCommit, BudgetBegin, BudgetCommit, Commit
<1>4. CASE Transfers(w) \/ Rollback(w) \/ BudgetCommit(w) \/ PostCommit(w)
  BY <1>4, OthersLeavePost
<1>5. ASSUME NEW x \in Int, NEW c \in Categories, NEW k \in Keys \cup {NoKey},
             PostBegin(w, x, c, k)
      PROVE  "post" \in Kinds /\ job'[w].balance = payment /\ payment' = payment
  <2>1. /\ "post" \in Kinds /\ payment' = payment
        /\ job' = [job EXCEPT ![w] =
                      [Idle EXCEPT !.step = "post", !.amount = x, !.category = c, !.key = k,
                                   !.balance = payment,
                                   !.spent = IF x < 0 THEN budgets[c] ELSE <<>>]]
    BY <1>5 DEF PostBegin, Begin, tables
  <2> QED
    BY <1>1, <2>1 DEF Idle
<1>6. ASSUME NEW c \in Categories, NEW k \in Keys \cup {NoKey}, BudgetBegin(w, c, k)
      PROVE  FALSE
  <2>1. job' = [job EXCEPT ![w] =
                   [Idle EXCEPT !.step = "budget", !.category = c, !.key = k,
                                !.spent = <<SpentSoFar(c)>>]]
    BY <1>6 DEF BudgetBegin
  <2> QED
    BY <1>1, <2>1 DEF Idle
<1>7. CASE Spending(w)
  <2>1. \A x \in Amounts : x \in Int /\ -x \in Int
    BY ConstantsAssumption
  <2> QED
    BY <1>4, <1>5, <1>6, <1>7, <2>1 DEF Spending
<1> QED
  BY <1>2, <1>3, <1>4, <1>7 DEF Next

LEMMA NetStep ==
    ASSUME Uncontended, IInv, NetSafe, [Next]_vars
    PROVE  NetSafe'
<1> USE MoneyTypes DEF IInv, MoneyFacts
<1>t. payment' \in Int /\ statement'.net \in Int
  BY TypeStep DEF TypeOK, Statements
<1>1. ASSUME NEW w \in Workers, PostCommit(w) PROVE payment' = Opening + statement'.net
  <2>1. /\ payment' = payment + job[w].amount
        /\ statement' = Recorded(job[w].amount, job[w].category)
    BY <1>1 DEF PostCommit, NewBalance, NetSafe, At
  <2>2. statement'.net = statement.net + job[w].amount
    BY <2>1, RecordedFacts, JobFacts
  <2> QED
    BY <2>1, <2>2, ConstantsAssumption DEF NetSafe
<1>2. payment' = Opening + statement'.net
  <2>1. CASE \A w \in Workers : ~PostCommit(w)
    <3>1. payment' - statement'.net = payment - statement.net
      BY <2>1, NetConserved
    <3> QED
      BY <1>t, <3>1, ConstantsAssumption DEF NetSafe
  <2> QED
    BY <1>1, <2>1
<1>3. ASSUME NEW w \in Workers, job'[w].step = "post"
      PROVE  "post" \in Kinds /\ job'[w].balance = payment'
  BY <1>3, InPost DEF NetSafe, Uncontended
<1> QED
  BY <1>2, <1>3 DEF NetSafe

\* The balance of the payment account is its opening balance plus the credits
\* minus the debits, unless two threads run while create_transaction is called.
THEOREM StatementsAddUp == Uncontended => (Spec => []StatementExplainsBalance)
<1> SUFFICES ASSUME Uncontended PROVE Spec => []StatementExplainsBalance
  OBVIOUS
<1>1. Init => NetSafe
  BY ConstantsAssumption DEF Init, NetSafe, Idle
<1>2. IInv /\ NetSafe /\ [Next]_vars => NetSafe'
  BY NetStep
<1>3. NetSafe => StatementExplainsBalance
  BY DEF NetSafe, StatementExplainsBalance
<1> QED
  BY <1>1, <1>2, <1>3, Invariance, PTL DEF Spec

KeepsMinimum == savings'.balance > savings.balance => payment' >= savings'.minimum

LEMMA MinimumStep ==
    ASSUME IInv, [Next]_vars
    PROVE  KeepsMinimum
<1> USE DEF KeepsMinimum
<1> USE MoneyTypes DEF IInv, MoneyFacts
<1>1. CASE savings' = savings
  BY <1>1
<1>2. ASSUME NEW w \in Workers, ActivateCommit(w) PROVE KeepsMinimum
  BY <1>2 DEF ActivateCommit
<1>3. ASSUME NEW w \in Workers, NEW kind \in Kinds, SweepCommit(w, kind) PROVE KeepsMinimum
  <2>1. PICK e \in Int : e = Excess
    BY ExcessFacts
  <2>2. e = 0 \/ payment - e = savings.minimum
    BY <2>1, ExcessFacts
  <2>3. /\ payment' = payment - e
        /\ savings'.balance = savings.balance + e
        /\ savings'.minimum = savings.minimum
    BY <1>3, <2>1, SavingsFacts DEF SweepCommit, SavingsRows
  <2> QED
    BY <2>2, <2>3
<1>4. ASSUME NEW w \in Workers, WithdrawCommit(w) PROVE KeepsMinimum
  <2>1. job[w].amount >= 0
    BY <1>4 DEF Safe, JobSafe, WithdrawCommit, At
  <2>2. savings'.balance = savings.balance - job[w].amount
    BY <1>4, SavingsFacts DEF WithdrawCommit, SavingsRows
  <2> QED
    BY <2>1, <2>2
<1>5. ASSUME NEW w \in Workers, Spending(w) \/ Rollback(w) PROVE savings' = savings
  <2>1. CASE Spending(w)
    BY <2>1 DEF Spending, tables, PostBegin, PostCommit, BudgetBegin, BudgetCommit
  <2>2. CASE Rollback(w)
    BY <2>2 DEF Rollback, tables
  <2> QED
    BY <1>5, <2>1, <2>2
<1>6. ASSUME NEW w \in Workers, Transfers(w) PROVE KeepsMinimum
  <2>1. CASE \/ \E minimum \in Minimums, k \in Keys \cup {NoKey} : ActivateBegin(w, minimum, k)
             \/ \E x \in Amounts : WithdrawLock(w, x)
             \/ \E x \in Amounts, k \in Keys \cup {NoKey} : DrawBegin(w, x, k)
             \/ DrawLock(w) \/ DrawCommit(w)
    <3>1. savings' = savings
      BY <2>1 DEF tables, ActivateBegin, WithdrawLock, DrawBegin, DrawLock, DrawCommit
    <3> QED
      BY <1>1, <3>1
  <2>2. CASE \E kind \in Kinds : SweepLock(w, kind)
    <3>1. savings' = savings
      BY <2>2 DEF tables, SweepLock
    <3> QED
      BY <1>1, <3>1
  <2>3. CASE \/ ActivateCommit(w) \/ WithdrawCommit(w)
             \/ \E kind \in Kinds : SweepCommit(w, kind)
    BY <1>2, <1>3, <1>4, <2>3
  <2> QED
    BY <1>6, <2>1, <2>2, <2>3 DEF Transfers
<1>7. CASE Tick \/ UNCHANGED vars
  <2>1. savings' = savings
    BY <1>7 DEF Tick, vars, tables
  <2> QED
    BY <1>1, <2>1
<1>8. \/ \E w \in Workers : Transfers(w) \/ Spending(w) \/ Rollback(w)
      \/ Tick \/ UNCHANGED vars
  BY DEF Next
<1> QED
  BY <1>1, <1>5, <1>6, <1>7, <1>8

\* A transfer to M-Sinh loi leaves the customer's minimum in the payment account.
THEOREM MinimumIsKept == Spec => MinimumKept
<1>1. IInv /\ [Next]_vars => [KeepsMinimum]_vars
  BY MinimumStep
<1> QED
  BY <1>1, Invariance, PTL DEF Spec, MinimumKept, KeepsMinimum

-----------------------------------------------------------------------------
(* The budgets, as long as create_budget is not raced *)

\* Budgets are created by one thread at a time, if there are any.
BudgetsUnraced == "budget" \notin Kinds \/ \A v, w \in Workers : v = w

\* What create_transaction and create_budget have read is still so.
ReadsHold(w) ==
    LET c == job[w].category IN
    /\ job[w].step = "post" =>
          job[w].spent = IF job[w].amount < 0 THEN budgets[c] ELSE <<>>
    /\ job[w].step = "budget" =>
          /\ "budget" \in Kinds
          /\ budgets[c] = <<>>
          /\ job[w].spent = <<statement.spent[c]>>

BudgetSafe ==
    /\ BudgetsExact
    /\ "budget" \notin Kinds => \A c \in Categories : budgets[c] = <<>>
    /\ \A w \in Workers : ReadsHold(w)

LEMMA RecordedSpent ==
    ASSUME TypeOK, NEW x \in Int, NEW c \in Categories
    PROVE  /\ Recorded(x, c).spent[c] = statement.spent[c] + (IF x < 0 THEN -x ELSE 0)
           /\ \A d \in Categories \ {c} : Recorded(x, c).spent[d] = statement.spent[d]
<1>1. statement.spent \in [Categories -> Int]
  BY DEF TypeOK, Statements
<1>2. Recorded(x, c).spent = [statement.spent EXCEPT ![c] = @ + (IF x < 0 THEN -x ELSE 0)]
  BY DEF Recorded
<1> QED
  BY <1>1, <1>2

LEMMA SavedSpent ==
    ASSUME TypeOK, NEW x \in Int
    PROVE  \A d \in Categories \ {Transfer} : Saved(x).spent[d] = statement.spent[d]
<1>1. Transfer \in Categories /\ -x \in Int
  BY ConstantsAssumption
<1>2. PICK r \in Statements : r = Recorded(-x, Transfer)
  BY <1>1, RecordedFacts
<1>3. \A d \in Categories \ {Transfer} : r.spent[d] = statement.spent[d]
  BY <1>1, <1>2, RecordedSpent
<1>4. Saved(x).spent = r.spent
  <2>1. Saved(x) = [r EXCEPT !.saved = @ + x]
    BY <1>2 DEF Saved
  <2> HIDE DEF Saved
  <2> QED
    BY <2>1 DEF Statements
<1> QED
  BY <1>3, <1>4

\* Nothing but create_transaction and create_budget touches a budget, and
\* transfers count as spending of their own category only.
SpendingKept ==
    /\ budgets' = budgets
    /\ \A c \in Categories \ {Transfer} : statement'.spent[c] = statement.spent[c]

LEMMA TransfersKeepSpending ==
    ASSUME TypeOK, NEW w \in Workers, Transfers(w)
    PROVE  SpendingKept
<1> USE DEF SpendingKept
<1>1. CASE \/ \E minimum \in Minimums, k \in Keys \cup {NoKey} : ActivateBegin(w, minimum, k)
           \/ \E kind \in Kinds : SweepLock(w, kind)
           \/ \E x \in Amounts : WithdrawLock(w, x)
           \/ \E x \in Amounts, k \in Keys \cup {NoKey} : DrawBegin(w, x, k)
           \/ DrawLock(w)
  <2>1. UNCHANGED <<budgets, statement>>
    BY <1>1 DEF tables, ActivateBegin, SweepLock, WithdrawLock, DrawBegin, DrawLock
  <2> QED
    BY <2>1
<1>2. CASE \/ ActivateCommit(w) \/ WithdrawCommit(w)
           \/ \E kind \in Kinds : SweepCommit(w, kind)
  <2>1. /\ payment - job[w].amount \in Int
        /\ -job[w].amount \in Int
        /\ Excess \in Int
    BY JobFacts, ExcessFacts DEF TypeOK
  <2>2. PICK x \in Int : statement' = Saved(x)
    BY <1>2, <2>1 DEF ActivateCommit, WithdrawCommit, SweepCommit
  <2>3. budgets' = budgets
    BY <1>2 DEF ActivateCommit, WithdrawCommit, SweepCommit
  <2> QED
    BY <2>2, <2>3, SavedSpent
<1>3. CASE DrawCommit(w)
  <2>1. PICK x \in Int : x = job[w].amount
    BY JobFacts
  <2>2. PICK r \in Statements : r = Recorded(x, Transfer)
    BY RecordedFacts, ConstantsAssumption
  <2>3. \A d \in Categories \ {Transfer} : r.spent[d] = statement.spent[d]
    BY <2>2, RecordedSpent, ConstantsAssumption
  <2>4. statement' = [r EXCEPT !.drawn = @ + x] /\ budgets' = budgets
    BY <1>3, <2>1, <2>2 DEF DrawCommit
  <2>5. statement'.spent = r.spent
    BY <2>4 DEF Statements
  <2> QED
    BY <2>3, <2>4, <2>5
<1> QED
  BY <1>1, <1>2, <1>3 DEF Transfers

\* Where the spending is kept, the budgets stay exact.
LEMMA KeptExact ==
    ASSUME BudgetsExact, SpendingKept
    PROVE  BudgetsExact'
BY DEF BudgetsExact, OneBudgetPerCategory, SpendingKept

\* A debit reaches the one budget of its category, and no other.
LEMMA PostExact ==
    ASSUME TypeOK, BudgetSafe, NEW w \in Workers, PostCommit(w)
    PROVE  /\ BudgetsExact'
           /\ \A c \in Categories : budgets[c] = <<>> => budgets'[c] = <<>>
<1>1. PICK x \in Int, c \in Categories, spent \in Seq(Int) :
         x = job[w].amount /\ c = job[w].category /\ spent = job[w].spent
  BY JobFacts
<1>2. /\ budgets \in [Categories -> Seq(Int)]
      /\ statement.spent \in [Categories -> Int]
  BY DEF TypeOK, Statements
<1>3. PICK charged \in Seq(Int) : charged = Charged(c, spent, x)
  BY ChargedType
<1>4. /\ budgets' = [budgets EXCEPT ![c] = charged]
      /\ statement' = Recorded(x, c)
  BY <1>1, <1>3 DEF PostCommit
<1>5. /\ budgets'[c] = charged
      /\ \A d \in Categories \ {c} : budgets'[d] = budgets[d]
  BY <1>2, <1>4
<1>6. /\ DOMAIN charged = DOMAIN budgets[c]
      /\ Len(charged) = Len(budgets[c])
      /\ \A i \in DOMAIN budgets[c] :
            charged[i] = IF x < 0 THEN budgets[c][i] - x ELSE budgets[c][i]
  <2>1. spent = IF x < 0 THEN budgets[c] ELSE <<>>
    BY <1>1 DEF PostCommit, At, BudgetSafe, ReadsHold
  <2>2. charged = [i \in DOMAIN budgets[c] |->
                      IF i \in DOMAIN spent THEN spent[i] - x ELSE budgets[c][i]]
    BY <1>3 DEF Charged
  <2>3. DOMAIN <<>> = {}
    OBVIOUS
  <2>4. budgets[c] \in Seq(Int)
    BY <1>2
  <2>5. DOMAIN charged = DOMAIN budgets[c]
    BY <2>2
  <2>6. DOMAIN charged = 1..Len(charged) /\ DOMAIN budgets[c] = 1..Len(budgets[c])
        /\ Len(charged) \in Nat /\ Len(budgets[c]) \in Nat
    BY <2>4, LenProperties
  <2> QED
    BY <2>1, <2>2, <2>3, <2>5, <2>6
<1>7. /\ statement'.spent[c] = statement.spent[c] + (IF x < 0 THEN -x ELSE 0)
      /\ \A d \in Categories \ {c} : statement'.spent[d] = statement.spent[d]
  BY <1>4, RecordedSpent
<1>8. OneBudgetPerCategory'
  BY <1>5, <1>6 DEF BudgetSafe, BudgetsExact, OneBudgetPerCategory
<1>9. ASSUME NEW d \in Categories \ {Transfer}, NEW i \in DOMAIN budgets'[d]
      PROVE  budgets'[d][i] = statement'.spent[d]
  <2>1. \A j \in DOMAIN budgets[d] : budgets[d][j] = statement.spent[d]
    BY DEF BudgetSafe, BudgetsExact
  <2>2. statement.spent[d] \in Int
    BY <1>2
  <2>3. CASE d = c
    BY <1>5, <1>6, <1>7, <2>1, <2>2, <2>3
  <2>4. CASE d # c
    BY <1>5, <1>7, <2>1, <2>4
  <2> QED
    BY <2>3, <2>4
<1>10. ASSUME NEW d \in Categories, budgets[d] = <<>>
       PROVE  budgets'[d] = <<>>
  <2>1. Len(budgets'[d]) = 0 /\ budgets'[d] \in Seq(Int)
    BY <1>2, <1>5, <1>6, <1>10
  <2> QED
    BY <2>1, EmptySeq
<1> QED
  BY <1>8, <1>9, <1>10 DEF BudgetsExact

\* The first budget of a category starts with what was spent so far.
LEMMA BudgetExact ==
    ASSUME TypeOK, BudgetSafe, NEW w \in Workers, BudgetCommit(w)
    PROVE  BudgetsExact' /\ "budget" \in Kinds
<1>1. PICK c \in Categories : c = job[w].category
  BY JobFacts
<1>2. /\ "budget" \in Kinds
      /\ budgets[c] = <<>>
      /\ job[w].spent = <<statement.spent[c]>>
  BY <1>1 DEF BudgetCommit, At, BudgetSafe, ReadsHold
<1>3. budgets' = [budgets EXCEPT ![c] = budgets[c] \o job[w].spent] /\ statement' = statement
  BY <1>1 DEF BudgetCommit
<1>4. statement.spent[c] \in Int /\ budgets \in [Categories -> Seq(Int)]
  BY DEF TypeOK, Statements
<1>5. PICK n \in Int : n = statement.spent[c]
  BY <1>4
<1>6. /\ budgets'[c] = <<n>>
      /\ \A d \in Categories \ {c} : budgets'[d] = budgets[d]
  BY <1>2, <1>3, <1>4, <1>5
<1>7. Len(<<n>>) = 1 /\ DOMAIN <<n>> = {1} /\ <<n>>[1] = n
  OBVIOUS
<1>8. OneBudgetPerCategory'
  <2>1. Len(budgets'[c]) <= 1
    BY <1>6, <1>7
  <2>2. \A d \in Categories \ {c} : Len(budgets'[d]) <= 1
    BY <1>6 DEF BudgetSafe, BudgetsExact, OneBudgetPerCategory
  <2> QED
    BY <2>1, <2>2 DEF OneBudgetPerCategory
<1>9. ASSUME NEW d \in Categories \ {Transfer}, NEW i \in DOMAIN budgets'[d]
      PROVE  budgets'[d][i] = statement'.spent[d]
  BY <1>3, <1>5, <1>6, <1>7 DEF BudgetSafe, BudgetsExact
<1> QED
  BY <1>2, <1>8, <1>9 DEF BudgetsExact

\* The beginnings of the two read what they need, and change nothing.
LEMMA SpendingReads ==
    ASSUME TypeOK, NEW w \in Workers,
           \/ \E x \in Int, c \in Categories, k \in Keys \cup {NoKey} : PostBegin(w, x, c, k)
           \/ \E c \in Categories, k \in Keys \cup {NoKey} : BudgetBegin(w, c, k)
    PROVE  ReadsHold(w)' /\ UNCHANGED <<budgets, statement>>
<1>1. job \in [Workers -> Jobs]
  BY DEF TypeOK
<1>2. ASSUME NEW x \in Int, NEW c \in Categories, NEW k \in Keys \cup {NoKey},
             PostBegin(w, x, c, k)
      PROVE  ReadsHold(w)' /\ UNCHANGED <<budgets, statement>>
  <2>1. /\ UNCHANGED <<budgets, statement>>
        /\ job' = [job EXCEPT ![w] =
                      [Idle EXCEPT !.step = "post", !.amount = x, !.category = c, !.key = k,
                                   !.balance = payment,
                                   !.spent = IF x < 0 THEN budgets[c] ELSE <<>>]]
    BY <1>2 DEF PostBegin, tables
  <2>2. /\ job'[w].step = "post" /\ job'[w].amount = x /\ job'[w].category = c
        /\ job'[w].spent = IF x < 0 THEN budgets[c] ELSE <<>>
    BY <1>1, <2>1 DEF Idle
  <2> QED
    BY <2>1, <2>2 DEF ReadsHold
<1>3. ASSUME NEW c \in Categories, NEW k \in Keys \cup {NoKey}, BudgetBegin(w, c, k)
      PROVE  ReadsHold(w)' /\ UNCHANGED <<budgets, statement>>
  <2>1. /\ UNCHANGED <<budgets, statement>>
        /\ "budget" \in Kinds /\ budgets[c] = <<>>
        /\ job' = [job EXCEPT ![w] =
                      [Idle EXCEPT !.step = "budget", !.category = c, !.key = k,
                                   !.spent = <<statement.spent[c]>>]]
    BY <1>3 DEF BudgetBegin, Begin, NoOverlap, SpentSoFar, tables
  <2>2. /\ job'[w].step = "budget" /\ job'[w].category = c
        /\ job'[w].spent = <<statement.spent[c]>>
    BY <1>1, <2>1 DEF Idle
  <2> QED
    BY <2>1, <2>2 DEF ReadsHold
<1> QED
  BY <1>2, <1>3

LEMMA BudgetStep ==
    ASSUME BudgetsUnraced, TypeOK, BudgetSafe, [Next]_vars
    PROVE  BudgetSafe'
<1>1. \A x \in Amounts : x \in Int /\ -x \in Int
  BY ConstantsAssumption
<1>2. CASE Tick \/ UNCHANGED vars
  <2>1. UNCHANGED <<budgets, statement, job>>
    BY <1>2 DEF Tick, vars, tables
  <2> QED
    BY <2>1 DEF BudgetSafe, BudgetsExact, OneBudgetPerCategory, ReadsHold
<1>3. ASSUME NEW w \in Workers, Transfers(w) \/ Spending(w) \/ Rollback(w)
      PROVE  BudgetSafe'
  <2>1. SpendingKept \/ PostCommit(w) \/ BudgetCommit(w)
    <3>1. CASE Transfers(w)
      BY <3>1, TransfersKeepSpending
    <3>2. CASE Rollback(w)
      BY <3>2 DEF Rollback, tables, SpendingKept
    <3>3. CASE Spending(w)
      BY <1>1, <3>3, SpendingReads DEF Spending, SpendingKept
    <3> QED
      BY <1>3, <3>1, <3>2, <3>3
  <2>2. BudgetsExact'
    BY <2>1, KeptExact, PostExact, BudgetExact DEF BudgetSafe
  <2>3. "budget" \notin Kinds => \A c \in Categories : budgets'[c] = <<>>
    BY <2>1, PostExact, BudgetExact DEF BudgetSafe, SpendingKept
  <2>4. ReadsHold(w)'
    <3>1. CASE Transfers(w) \/ Rollback(w) \/ BudgetCommit(w) \/ PostCommit(w)
      BY <3>1, OthersLeavePost DEF ReadsHold
    <3>2. CASE Spending(w)
      BY <1>1, <3>1, <3>2, SpendingReads DEF Spending
    <3> QED
      BY <1>3, <3>1, <3>2
  <2>5. ASSUME NEW v \in Workers, v # w
        PROVE  ReadsHold(v)'
    <3>1. "budget" \notin Kinds
      BY <2>5 DEF BudgetsUnraced
    <3>2. job'[v] = job[v]
      BY <1>3, <2>5 DEF TypeOK, Transfers, Spending, Rollback, ActivateBegin, ActivateCommit,
         SweepLock, SweepCommit, WithdrawLock, WithdrawCommit, DrawBegin, DrawLock, DrawCommit,
         PostBegin, PostCommit, BudgetBegin, BudgetCommit, Commit
    <3>3. job[v].category \in Categories
      BY JobFacts
    <3>4. budgets[job[v].category] = <<>> /\ budgets'[job[v].category] = <<>>
      BY <2>3, <3>1, <3>3 DEF BudgetSafe
    <3>5. ReadsHold(v)
      BY DEF BudgetSafe
    <3> QED
      BY <3>1, <3>2, <3>4, <3>5 DEF ReadsHold
  <2> QED
    BY <2>2, <2>3, <2>4, <2>5 DEF BudgetSafe
<1> QED
  BY <1>2, <1>3 DEF Next

\* A category has one budget, and it shows what the transactions of the
\* category add up to, unless two threads run while create_budget is called:
\* with one thread neither a charge nor a second budget slips in between what
\* a handler reads and what it writes.
THEOREM BudgetsAddUp == BudgetsUnraced => (Spec => []BudgetsExact)
<1> SUFFICES ASSUME BudgetsUnraced PROVE Spec => []BudgetsExact
  OBVIOUS
<1>1. Init => BudgetSafe
  <2> SUFFICES ASSUME Init PROVE BudgetSafe
    OBVIOUS
  <2>1. \A c \in Categories : budgets[c] = <<>>
    BY DEF Init
  <2>2. DOMAIN <<>> = {} /\ Len(<<>>) = 0
    OBVIOUS
  <2>3. \A w \in Workers : job[w].step = "idle"
    BY DEF Init, Idle
  <2> QED
    BY <2>1, <2>2, <2>3 DEF BudgetSafe, BudgetsExact, OneBudgetPerCategory, ReadsHold
<1>2. TypeOK /\ BudgetSafe /\ [Next]_vars => BudgetSafe'
  BY BudgetStep
<1>3. BudgetSafe => BudgetsExact
  BY DEF BudgetSafe
<1> QED
  BY <1>1, <1>2, <1>3, TypeCorrect, PTL DEF Spec
=============================================================================
