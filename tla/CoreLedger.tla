----------------------------- MODULE CoreLedger -----------------------------
(***************************************************************************)
(* The money of one customer in Mock Core Banking: the payment account,    *)
(* the M-Sinh loi account, the overdraft facility, the budgets and the     *)
(* table of transactions, and the write endpoints that change them.        *)
(*                                                                         *)
(* Every request runs in a thread with a MySQL transaction of its own      *)
(* (InnoDB, REPEATABLE READ).  A plain SELECT reads the snapshot taken by  *)
(* the transaction's first one; SELECT ... FOR UPDATE reads the row as     *)
(* committed and locks it until the commit; an UPDATE writes the values    *)
(* the handler computed, whatever the row holds by then.  So the plain     *)
(* reads of a handler are one step, its first row lock is one, and the     *)
(* lock of the payment account, which every handler takes last, is one     *)
(* with the writes and the commit that follow it.                          *)
(*                                                                         *)
(* Requests that are refused, or answered from an idempotency record,      *)
(* change nothing and take no step.  All dates of transactions and budgets *)
(* fall into one period; facility and account stay ACTIVE.                 *)
(***************************************************************************)
EXTENDS Integers, Sequences, FiniteSets

CONSTANTS
    Workers,      \* threads of the Core Banking service
    Nobody,       \* the holder of a row lock that is free
    Kinds,        \* the endpoints that are called
    Amounts,      \* amounts of money in requests
    Minimums,     \* minimum_payment_balance of an activation
    Keys, NoKey,  \* Idempotency-Key headers, and its absence
    Categories,   \* categories of spending
    Transfer,     \* the category of transfers to M-Sinh loi
    Opening,      \* the payment account's first balance
    Limit,        \* credit_limit of the overdraft facility
    MaxDay,       \* bound on the calendar
    MaxRequests   \* bound on the requests served

Endpoints == {"activate", "sweep", "demo", "withdraw", "draw", "post", "budget"}

ASSUME ConstantsAssumption ==
    /\ Kinds \subseteq Endpoints
    /\ Amounts \subseteq Nat \ {0}
    /\ Minimums \subseteq Nat
    /\ Nobody \notin Workers
    /\ NoKey \notin Keys
    /\ Transfer \in Categories
    /\ Opening \in Nat
    /\ Limit \in Nat
    /\ MaxDay \in Nat \ {0}
    /\ MaxRequests \in Nat

VARIABLES
    payment,    \* available_balance of the payment account
    savings,    \* the M-Sinh loi row: open, balance, minimum, last sweep
    used,       \* used_amount of the overdraft facility
    budgets,    \* [Categories -> spent_amount of each ACTIVE budget]
    statement,  \* sums over the transactions table
    keys,       \* the idempotency records: pairs of operation and key
    holder,     \* which worker holds the row lock of savings and facility
    job,        \* what each worker is doing, and the values it has read
    now,        \* the day, and whether it is past sweep_hour
    requests,   \* how many requests have begun
    swept,      \* history: [day -> scheduled sweeps and activations]
    applied     \* history: [operation and key -> how often it was applied]

tables == <<payment, savings, used, budgets, statement, keys>>
vars == <<payment, savings, used, budgets, statement, keys, holder, job, now,
          requests, swept, applied>>

Days == 1..MaxDay

NoSavings == [open |-> FALSE, balance |-> 0, minimum |-> 0, last |-> 0]

\* step names the handler the worker is in; "asked" is draw_overdraft before
\* it has the lock of the facility.
Idle == [step |-> "idle", amount |-> 0, key |-> NoKey, category |-> Transfer,
         day |-> 1, balance |-> 0, spent |-> <<>>]

Jobs == [step : Endpoints \cup {"idle", "asked"}, amount : Int,
         key : Keys \cup {NoKey}, category : Categories,
         day : Days, balance : Int, spent : Seq(Int)]

SavingsRows == [open : BOOLEAN, balance : Int, minimum : Int, last : Nat]

Statements == [net : Int, spent : [Categories -> Int], saved : Int, drawn : Int]

Rows == {"savings", "facility"}

TypeOK ==
    /\ payment \in Int
    /\ savings \in SavingsRows
    /\ used \in Int
    /\ budgets \in [Categories -> Seq(Int)]
    /\ statement \in Statements
    /\ keys \subseteq Endpoints \X Keys
    /\ holder \in [Rows -> Workers \cup {Nobody}]
    /\ job \in [Workers -> Jobs]
    /\ now \in [day : Days, evening : BOOLEAN]
    /\ requests \in Nat
    /\ swept \in [Days -> Nat]
    /\ applied \in [Endpoints \X Keys -> Nat]

\* seed_core_banking_demo: no M-Sinh loi account, an unused facility.
Init ==
    /\ payment = Opening
    /\ savings = NoSavings
    /\ used = 0
    /\ budgets = [c \in Categories |-> <<>>]
    /\ statement = [net |-> 0, spent |-> [c \in Categories |-> 0], saved |-> 0, drawn |-> 0]
    /\ keys = {}
    /\ holder = [row \in Rows |-> Nobody]
    /\ job = [w \in Workers |-> Idle]
    /\ now = [day |-> 1, evening |-> FALSE]
    /\ requests = 0
    /\ swept = [d \in Days |-> 0]
    /\ applied = [operation \in Endpoints \X Keys |-> 0]

-----------------------------------------------------------------------------
(* What the handlers share *)

At(w, step) == job[w].step = step

\* A request of this kind starts: its worker is idle and the bound not reached.
Begin(w, kind) ==
    /\ At(w, "idle")
    /\ kind \in Kinds
    /\ requests < MaxRequests
    /\ requests' = requests + 1

\* replay: no record, so the request has to be served.
Fresh(kind, k) == <<kind, k>> \notin keys

Free(row) == holder[row] = Nobody

Lock(w, row) ==
    /\ Free(row)
    /\ holder' = [holder EXCEPT ![row] = w]

Unlocked(w) == [row \in Rows |-> IF holder[row] = w THEN Nobody ELSE holder[row]]

\* Mutant: the table has no unique constraint.
Unique_Unconstrained(kind, k) == TRUE

\* UniqueConstraint("operation", "idempotency_key")
Unique(kind, k) == <<kind, k>> \notin keys

\* remember and commit: with a key, the record must be the first of its kind.
Commit(w, kind) ==
    LET k == job[w].key IN
    /\ IF k = NoKey
       THEN UNCHANGED <<keys, applied>>
       ELSE /\ Unique(kind, k)
            /\ keys' = keys \cup {<<kind, k>>}
            /\ applied' = [applied EXCEPT ![<<kind, k>>] = @ + 1]
    /\ holder' = Unlocked(w)
    /\ job' = [job EXCEPT ![w] = Idle]

\* A transaction of category c is recorded: x is its amount, negative for a
\* DEBIT.
Recorded(x, c) ==
    [net   |-> statement.net + x,
     spent |-> [statement.spent EXCEPT ![c] = @ + (IF x < 0 THEN -x ELSE 0)],
     saved |-> statement.saved,
     drawn |-> statement.drawn]

\* A transfer of x to M-Sinh loi, or back if x is negative.
Saved(x) == [Recorded(-x, Transfer) EXCEPT !.saved = @ + x]

-----------------------------------------------------------------------------
(* create_m_sinh_loi *)

ActivateBegin(w, minimum, k) ==
    /\ Begin(w, "activate")
    /\ Fresh("activate", k)
    /\ ~savings.open
    /\ job' = [job EXCEPT ![w] =
                  [Idle EXCEPT !.step = "activate", !.amount = minimum, !.key = k]]
    /\ UNCHANGED <<tables, holder, now, swept, applied>>

\* A row inserted meanwhile has the same primary key: the insert fails.
ActivateCommit(w) ==
    LET minimum == job[w].amount IN
    /\ At(w, "activate")
    /\ ~savings.open
    /\ minimum <= payment
    /\ payment' = minimum
    /\ savings' = [open |-> TRUE, balance |-> payment - minimum,
                     minimum |-> minimum, last |-> now.day]
    /\ statement' = Saved(payment - minimum)
    /\ swept' = [swept EXCEPT ![now.day] = @ + 1]
    /\ Commit(w, "activate")
    /\ UNCHANGED <<used, budgets, now, requests>>

-----------------------------------------------------------------------------
(* sweep_m_sinh_loi, by the scheduler or with demo_now *)

\* Mutant: the date of the last sweep is not compared.
Due_EveryTime == now.evening

Due == now.evening /\ savings.last # now.day

SweepLock(w, kind) ==
    /\ kind \in {"sweep", "demo"}
    /\ Begin(w, kind)
    /\ Lock(w, "savings")
    /\ savings.open
    /\ kind = "sweep" => Due
    /\ job' = [job EXCEPT ![w] = [Idle EXCEPT !.step = kind, !.day = now.day]]
    /\ UNCHANGED <<tables, now, swept, applied>>

\* Mutant: everything is moved, the minimum included.
Excess_Everything == payment

Excess == IF payment > savings.minimum THEN payment - savings.minimum ELSE 0

SweepCommit(w, kind) ==
    /\ kind \in {"sweep", "demo"}
    /\ At(w, kind)
    /\ payment' = payment - Excess
    /\ savings' = [savings EXCEPT !.balance = @ + Excess, !.last = job[w].day]
    /\ statement' = Saved(Excess)
    /\ swept' = IF kind = "sweep" THEN [swept EXCEPT ![job[w].day] = @ + 1] ELSE swept
    /\ Commit(w, kind)
    /\ UNCHANGED <<used, budgets, now, requests>>

-----------------------------------------------------------------------------
(* withdraw_m_sinh_loi, which takes no Idempotency-Key *)

WithdrawLock(w, x) ==
    /\ Begin(w, "withdraw")
    /\ Lock(w, "savings")
    /\ savings.open
    /\ x <= savings.balance
    /\ job' = [job EXCEPT ![w] = [Idle EXCEPT !.step = "withdraw", !.amount = x]]
    /\ UNCHANGED <<tables, now, swept, applied>>

\* Mutant: the transaction is recorded, the account is not debited.
WithdrawCommit_KeepsSavings(w) ==
    LET x == job[w].amount IN
    /\ At(w, "withdraw")
    /\ payment' = payment + x
    /\ statement' = Saved(-x)
    /\ Commit(w, "withdraw")
    /\ UNCHANGED <<savings, used, budgets, now, requests, swept>>

WithdrawCommit(w) ==
    LET x == job[w].amount IN
    /\ At(w, "withdraw")
    /\ payment' = payment + x
    /\ savings' = [savings EXCEPT !.balance = @ - x]
    /\ statement' = Saved(-x)
    /\ Commit(w, "withdraw")
    /\ UNCHANGED <<used, budgets, now, requests, swept>>

-----------------------------------------------------------------------------
(* draw_overdraft *)

DrawBegin(w, x, k) ==
    /\ Begin(w, "draw")
    /\ Fresh("draw", k)
    /\ job' = [job EXCEPT ![w] = [Idle EXCEPT !.step = "asked", !.amount = x, !.key = k]]
    /\ UNCHANGED <<tables, holder, now, swept, applied>>

\* Mutant: the limit is checked on a row read without FOR UPDATE.
DrawLock_Plain(w) ==
    /\ At(w, "asked")
    /\ job[w].amount <= Limit - used
    /\ job' = [job EXCEPT ![w].step = "draw"]
    /\ UNCHANGED <<tables, holder, now, requests, swept, applied>>

DrawLock(w) ==
    /\ At(w, "asked")
    /\ Lock(w, "facility")
    /\ job[w].amount <= Limit - used
    /\ job' = [job EXCEPT ![w].step = "draw"]
    /\ UNCHANGED <<tables, now, requests, swept, applied>>

DrawCommit(w) ==
    LET x == job[w].amount IN
    /\ At(w, "draw")
    /\ used' = used + x
    /\ payment' = payment + x
    /\ statement' = [Recorded(x, Transfer) EXCEPT !.drawn = @ + x]
    /\ Commit(w, "draw")
    /\ UNCHANGED <<savings, budgets, now, requests, swept>>

-----------------------------------------------------------------------------
(* create_transaction and create_budget *)

\* Mutant: the balance is not validated.
Covered_Unchecked(x) == TRUE

\* A debit must be covered by the balance, a credit (x > 0) is always.
Covered(x) == x < 0 => payment >= -x

\* The account and the matching budgets are read without FOR UPDATE.
PostBegin(w, x, c, k) ==
    /\ Begin(w, "post")
    /\ Fresh("post", k)
    /\ Covered(x)
    /\ job' = [job EXCEPT ![w] =
                  [Idle EXCEPT !.step = "post", !.amount = x, !.category = c, !.key = k,
                               !.balance = payment,
                               !.spent = IF x < 0 THEN budgets[c] ELSE <<>>]]
    /\ UNCHANGED <<tables, holder, now, swept, applied>>

\* Mutant: the spending of budgets is left to their creation.
Charged_Never(c, spent, x) == budgets[c]

\* The rows the handler read get the sum it computed from what it read.
Charged(c, spent, x) ==
    [i \in DOMAIN budgets[c] |-> IF i \in DOMAIN spent THEN spent[i] - x ELSE budgets[c][i]]

\* Mutant: credits and debits are swapped.
NewBalance_Swapped(balance, x) == balance - x

NewBalance(balance, x) == balance + x

PostCommit(w) ==
    LET x == job[w].amount
        c == job[w].category
    IN /\ At(w, "post")
       /\ payment' = NewBalance(job[w].balance, x)
       /\ budgets' = [budgets EXCEPT ![c] = Charged(c, job[w].spent, x)]
       /\ statement' = Recorded(x, c)
       /\ Commit(w, "post")
       /\ UNCHANGED <<savings, used, now, requests, swept>>

NoOverlap(c) == budgets[c] = <<>>

\* Mutant: the sum over no rows is not zero but NULL.
SpentSoFar_Null(c) == IF statement.spent[c] = 0 THEN NoKey ELSE statement.spent[c]

\* What was spent so far is summed over the transactions of the snapshot.
SpentSoFar(c) == statement.spent[c]

BudgetBegin(w, c, k) ==
    /\ Begin(w, "budget")
    /\ Fresh("budget", k)
    /\ NoOverlap(c)
    /\ job' = [job EXCEPT ![w] =
                  [Idle EXCEPT !.step = "budget", !.category = c, !.key = k,
                               !.spent = <<SpentSoFar(c)>>]]
    /\ UNCHANGED <<tables, holder, now, swept, applied>>

BudgetCommit(w) ==
    /\ At(w, "budget")
    /\ budgets' = [budgets EXCEPT ![job[w].category] = @ \o job[w].spent]
    /\ Commit(w, "budget")
    /\ UNCHANGED <<payment, savings, used, statement, now, requests, swept>>

-----------------------------------------------------------------------------
(* The environment *)

\* The transaction is rolled back: a business rule refuses the request after
\* its first read, a unique constraint fails, InnoDB breaks a deadlock or a
\* long wait, or the service stops.
Rollback(w) ==
    /\ ~At(w, "idle")
    /\ job' = [job EXCEPT ![w] = Idle]
    /\ holder' = Unlocked(w)
    /\ UNCHANGED <<tables, now, requests, swept, applied>>

Tick ==
    /\ now' = IF now.evening THEN [day |-> now.day + 1, evening |-> FALSE]
                             ELSE [now EXCEPT !.evening = TRUE]
    /\ now'.day <= MaxDay
    /\ UNCHANGED <<tables, holder, job, requests, swept, applied>>

Transfers(w) ==
    \/ \E minimum \in Minimums, k \in Keys \cup {NoKey} : ActivateBegin(w, minimum, k)
    \/ ActivateCommit(w)
    \/ \E kind \in Kinds : SweepLock(w, kind) \/ SweepCommit(w, kind)
    \/ \E x \in Amounts : WithdrawLock(w, x)
    \/ WithdrawCommit(w)
    \/ \E x \in Amounts, k \in Keys \cup {NoKey} : DrawBegin(w, x, k)
    \/ DrawLock(w)
    \/ DrawCommit(w)

Spending(w) ==
    \/ \E x \in Amounts, c \in Categories, k \in Keys \cup {NoKey} :
          PostBegin(w, x, c, k) \/ PostBegin(w, -x, c, k)
    \/ PostCommit(w)
    \/ \E c \in Categories, k \in Keys \cup {NoKey} : BudgetBegin(w, c, k)
    \/ BudgetCommit(w)

Next ==
    \/ \E w \in Workers : Transfers(w) \/ Spending(w) \/ Rollback(w)
    \/ Tick

Spec == Init /\ [][Next]_vars

-----------------------------------------------------------------------------
(* What holds whatever runs concurrently *)

\* No balance goes below zero: every handler checks the balance it writes from,
\* and the ones that could be raced lock the row.
NeverOverdrawn == payment >= 0 /\ savings.balance >= 0

\* The facility is never drawn beyond its limit, and what is owed is what the
\* transactions say was drawn.
OverdraftWithinLimit == used = statement.drawn /\ used <= Limit

\* No amount passes its limit, although some handlers check what they read
\* without a lock.
LimitsKept == NeverOverdrawn /\ OverdraftWithinLimit

\* The M-Sinh loi balance is what transactions moved there and not yet back.
SavingsExplained == savings.balance = statement.saved

\* Surplus is swept at most once a day, and not on the day of the activation,
\* however many schedulers ask for it and whenever midnight falls.
OneSweepPerDay == \A d \in Days : swept[d] <= 1

\* A transfer to M-Sinh loi leaves the customer's minimum in the payment account.
MinimumKept ==
    [][savings'.balance > savings.balance => payment' >= savings'.minimum]_vars

\* An operation is applied once per idempotency key.
KeyedOnce == \A operation \in Endpoints \X Keys : applied[operation] <= 1

-----------------------------------------------------------------------------
(* What holds unless create_transaction or create_budget is raced *)

\* The transactions explain the balance of the payment account.
StatementExplainsBalance == payment = Opening + statement.net

\* A category has one active budget.
OneBudgetPerCategory == \A c \in Categories : Len(budgets[c]) <= 1

\* A category has one active budget, which shows what the transactions of its
\* category add up to.  Sweeps are debits of the category TRANSFER that no
\* budget is charged for.
BudgetsExact ==
    /\ OneBudgetPerCategory
    /\ \A c \in Categories \ {Transfer} :
          \A i \in DOMAIN budgets[c] : budgets[c][i] = statement.spent[c]
=============================================================================
