----------------------------- MODULE CoreRecords -----------------------------
(***************************************************************************)
(* The rows of Core Banking's customers under the admin API: customers     *)
(* come and go, with their accounts, M-Sinh loi accounts, rows that refer  *)
(* to an account (transactions and overdraft facilities), rows that do not *)
(* (reminders stand for them), and the idempotency records of the write    *)
(* endpoints, which no foreign key ties to a customer.                     *)
(*                                                                         *)
(* A request reads and checks rows in the snapshot of its transaction, and *)
(* later writes, by primary key, to the rows as they are then; foreign     *)
(* keys, primary keys and unique constraints are checked at that time.     *)
(* The customer stands for the id of its M-Sinh loi account.               *)
(***************************************************************************)
EXTENDS Naturals, FiniteSets

CONSTANTS
    Workers,      \* threads of Core Banking that serve requests
    Ids,          \* customer ids
    Accounts,     \* account ids
    Links,        \* ids of transactions and overdraft facilities
    Keys,         \* idempotency keys
    Within,       \* pairs of ids of which the first is contained in the
                  \* operations of the second
    MaxRequests   \* bound on the number of requests

None == "NONE"
Kinds == {"PAYMENT", "SAVING"}

ASSUME ConstantsAssumption ==
    /\ None \notin Accounts \cup Ids
    /\ Within \subseteq Ids \X Ids
    /\ \A c \in Ids : <<c, c>> \in Within
    /\ MaxRequests \in Nat

VARIABLES
    customers,   \* rows of customers
    accounts,    \* owner and account_type of each account, None if there is none
    savings,     \* payment_account_id of each customer's M-Sinh loi account
    links,       \* owner and account_id of each transaction or facility
    keys,        \* idempotency records
    job,         \* the request each worker has checked and not yet written
    requests,    \* requests accepted so far
    life,        \* history: how often a customer was created
    applied,     \* history: effects of each keyed write in the customer's life
    lost,        \* history: keyed writes whose record another deletion took
    moved        \* history: ids given to a row of another customer while a
                 \* request that names them is pending

tables == <<customers, accounts, savings, links, keys>>
history == <<life, applied, lost, moved>>
vars == <<customers, accounts, savings, links, keys, job, requests,
          life, applied, lost, moved>>

NoRow == [owner |-> None, kind |-> None, account |-> None]
Account(c, kind) == [NoRow EXCEPT !.owner = c, !.kind = kind]
Link(c, a) == [NoRow EXCEPT !.owner = c, !.account = a]

\* Customers, accounts, M-Sinh loi accounts and links are created, changed and
\* deleted by the admin; a reminder is created by a keyed write.
Requests ==
    [op : {"createCustomer", "deleteCustomer", "deleteSavings"}, c : Ids]
    \cup [op : {"createAccount", "updateAccount"}, c : Ids, a : Accounts, kind : Kinds]
    \cup [op : {"deleteAccount", "createSavings", "updateSavings"}, c : Ids, a : Accounts]
    \cup [op : {"createLink", "updateLink"}, c : Ids, l : Links, a : Accounts]
    \cup [op : {"deleteLink"}, c : Ids, l : Links]
    \cup [op : {"createReminder"}, c : Ids, key : Keys]

Idle == [op |-> "idle"]

\* Every row refers to rows that exist.
TypeOK ==
    /\ customers \subseteq Ids
    /\ \A a \in Accounts : accounts[a] = NoRow \/ accounts[a].owner \in customers
    /\ \A l \in Links : links[l] = NoRow \/
          /\ links[l].owner \in customers
          /\ accounts[links[l].account] # NoRow
    /\ \A c \in Ids : savings[c] = None \/ (c \in customers /\ accounts[savings[c]] # NoRow)
    /\ keys \subseteq [owner : Ids, key : Keys, life : Nat]
    /\ job \in [Workers -> Requests \cup {Idle}]

Init ==
    /\ customers = {}
    /\ accounts = [a \in Accounts |-> NoRow]
    /\ savings = [c \in Ids |-> None]
    /\ links = [l \in Links |-> NoRow]
    /\ keys = {}
    /\ job = [w \in Workers |-> Idle]
    /\ requests = 0
    /\ life = [c \in Ids |-> 0]
    /\ applied = [c \in Ids |-> [k \in Keys |-> 0]]
    /\ lost = {}
    /\ moved = {}

-----------------------------------------------------------------------------
(* What a request checks *)

\* Mutant: any account that exists will do.
PaymentAccount_Any(c, a) == accounts[a] # NoRow

\* _validate_m_sinh_loi
PaymentAccount(c, a) == accounts[a] = Account(c, "PAYMENT")

\* Mutant: the row's owner is not compared.
Belongs_Any(row, c) == row.owner # None

\* _item: the row is the customer's of the path.
Belongs(row, c) == row.owner = c

\* replay finds a record.
Replayed(c, key) == \E r \in keys : r.owner = c /\ r.key = key

Accepted(r) ==
    CASE r.op = "createCustomer" -> r.c \notin customers
      [] r.op = "deleteCustomer" -> r.c \in customers
      [] r.op = "createAccount" -> r.c \in customers /\ accounts[r.a] = NoRow
      [] r.op \in {"updateAccount", "deleteAccount"} -> Belongs(accounts[r.a], r.c)
      [] r.op = "createSavings" ->
            r.c \in customers /\ savings[r.c] = None /\ PaymentAccount(r.c, r.a)
      [] r.op = "updateSavings" -> savings[r.c] # None /\ PaymentAccount(r.c, r.a)
      [] r.op = "deleteSavings" -> savings[r.c] # None
      [] r.op = "createLink" -> r.c \in customers /\ links[r.l] = NoRow
      [] r.op \in {"updateLink", "deleteLink"} -> Belongs(links[r.l], r.c)
      [] r.op = "createReminder" -> r.c \in customers /\ ~Replayed(r.c, r.key)

\* What is refused or replayed changes nothing and is left out.
Begin(w) ==
    /\ job[w] = Idle
    /\ requests < MaxRequests
    /\ \E r \in Requests : Accepted(r) /\ job' = [job EXCEPT ![w] = r]
    /\ requests' = requests + 1
    /\ UNCHANGED <<tables, history>>

-----------------------------------------------------------------------------
(* What a request writes *)

Commits(w, op) ==
    /\ job[w].op = op
    /\ job' = [job EXCEPT ![w] = Idle]
    /\ UNCHANGED requests

CreateCustomer(w) ==
    LET c == job[w].c IN
    /\ Commits(w, "createCustomer")
    /\ c \notin customers
    /\ customers' = customers \cup {c}
    /\ life' = [life EXCEPT ![c] = @ + 1]
    /\ applied' = [applied EXCEPT ![c] = [k \in Keys |-> 0]]
    /\ lost' = {p \in lost : p[1] # c}
    /\ UNCHANGED <<accounts, savings, links, keys, moved>>

\* Mutant: the records of the customer are left.
Forgotten_None(c) == {}

\* The records with an operation that contains the id.
Forgotten(c) == {r \in keys : <<c, r.owner>> \in Within}

Owned(c) == {a \in Accounts : accounts[a].owner = c}

\* The rows go in an order that the foreign keys allow, unless a row of another
\* customer refers to one of the accounts; that a DELETE finds none is no error.
DeleteCustomer(w) ==
    LET c == job[w].c
        others == {links[l].account : l \in {l \in Links : links[l].owner # c}}
                  \cup {savings[d] : d \in Ids \ {c}}
    IN /\ Commits(w, "deleteCustomer")
       /\ Owned(c) \cap others = {}
       /\ customers' = customers \ {c}
       /\ accounts' = [a \in Accounts |-> IF a \in Owned(c) THEN NoRow ELSE accounts[a]]
       /\ savings' = [savings EXCEPT ![c] = None]
       /\ links' = [l \in Links |-> IF links[l].owner = c THEN NoRow ELSE links[l]]
       /\ keys' = keys \ Forgotten(c)
       /\ lost' = lost \cup {<<r.owner, r.key>> : r \in {r \in Forgotten(c) : r.owner # c}}
       /\ UNCHANGED <<life, applied, moved>>

\* The id of a row that was deleted may be given to another customer's.
Reuse(w, id) ==
    moved' = IF \E v \in Workers \ {w} :
                   job[v].op # "idle" /\ job[v].c # job[w].c
                   /\ \E f \in DOMAIN job[v] : job[v][f] = id
             THEN moved \cup {id} ELSE moved

CreateAccount(w) ==
    LET r == job[w] IN
    /\ Commits(w, "createAccount")
    /\ r.c \in customers
    /\ accounts[r.a] = NoRow
    /\ accounts' = [accounts EXCEPT ![r.a] = Account(r.c, r.kind)]
    /\ Reuse(w, r.a)
    /\ UNCHANGED <<customers, savings, links, keys, life, applied, lost>>

\* UPDATE ... WHERE account_id: whoever owns the row by now.
UpdateAccount(w) ==
    LET r == job[w] IN
    /\ Commits(w, "updateAccount")
    /\ accounts[r.a] # NoRow
    /\ accounts' = [accounts EXCEPT ![r.a].kind = r.kind]
    /\ UNCHANGED <<customers, savings, links, keys, history>>

DeleteAccount(w) ==
    LET r == job[w] IN
    /\ Commits(w, "deleteAccount")
    /\ \A l \in Links : links[l].account # r.a
    /\ \A c \in Ids : savings[c] # r.a
    /\ accounts' = [accounts EXCEPT ![r.a] = NoRow]
    /\ UNCHANGED <<customers, savings, links, keys, history>>

CreateSavings(w) ==
    LET r == job[w] IN
    /\ Commits(w, "createSavings")
    /\ r.c \in customers
    /\ savings[r.c] = None
    /\ accounts[r.a] # NoRow
    /\ savings' = [savings EXCEPT ![r.c] = r.a]
    /\ UNCHANGED <<customers, accounts, links, keys, history>>

UpdateSavings(w) ==
    LET r == job[w] IN
    /\ Commits(w, "updateSavings")
    /\ savings[r.c] # None
    /\ accounts[r.a] # NoRow
    /\ savings' = [savings EXCEPT ![r.c] = r.a]
    /\ UNCHANGED <<customers, accounts, links, keys, history>>

DeleteSavings(w) ==
    /\ Commits(w, "deleteSavings")
    /\ savings' = [savings EXCEPT ![job[w].c] = None]
    /\ UNCHANGED <<customers, accounts, links, keys, history>>

CreateLink(w) ==
    LET r == job[w] IN
    /\ Commits(w, "createLink")
    /\ r.c \in customers
    /\ links[r.l] = NoRow
    /\ accounts[r.a] # NoRow
    /\ links' = [links EXCEPT ![r.l] = Link(r.c, r.a)]
    /\ Reuse(w, r.l)
    /\ UNCHANGED <<customers, accounts, savings, keys, life, applied, lost>>

UpdateLink(w) ==
    LET r == job[w] IN
    /\ Commits(w, "updateLink")
    /\ links[r.l] # NoRow
    /\ accounts[r.a] # NoRow
    /\ links' = [links EXCEPT ![r.l].account = r.a]
    /\ UNCHANGED <<customers, accounts, savings, keys, history>>

DeleteLink(w) ==
    /\ Commits(w, "deleteLink")
    /\ links' = [links EXCEPT ![job[w].l] = NoRow]
    /\ UNCHANGED <<customers, accounts, savings, keys, history>>

\* Mutant: no key is recorded.
Remembered_Never(c, key) == keys

Remembered(c, key) == keys \cup {[owner |-> c, key |-> key, life |-> life[c]]}

\* create_reminder with a key: the row and the record are one commit.
CreateReminder(w) ==
    LET r == job[w] IN
    /\ Commits(w, "createReminder")
    /\ r.c \in customers
    /\ ~Replayed(r.c, r.key)
    /\ keys' = Remembered(r.c, r.key)
    /\ applied' = [applied EXCEPT ![r.c][r.key] = @ + 1]
    /\ UNCHANGED <<customers, accounts, savings, links, life, lost, moved>>

\* A constraint fails, InnoDB breaks a deadlock, or the process stops.
Rollback(w) ==
    /\ job[w] # Idle
    /\ job' = [job EXCEPT ![w] = Idle]
    /\ UNCHANGED <<tables, requests, history>>

Next ==
    \E w \in Workers :
        \/ Begin(w) \/ Rollback(w)
        \/ CreateCustomer(w) \/ DeleteCustomer(w)
        \/ CreateAccount(w) \/ UpdateAccount(w) \/ DeleteAccount(w)
        \/ CreateSavings(w) \/ UpdateSavings(w) \/ DeleteSavings(w)
        \/ CreateLink(w) \/ UpdateLink(w) \/ DeleteLink(w)
        \/ CreateReminder(w)

Spec == Init /\ [][Next]_vars

-----------------------------------------------------------------------------
(* Properties *)

\* A retry under the same key is not applied twice in the life of a customer,
\* whatever deletions and other requests come between, unless the customer that
\* was deleted has an id contained in the operation: delete_customer then takes
\* the record of the other customer with it.
AppliedOnce ==
    \A c \in Ids, k \in Keys : applied[c][k] > 1 => <<c, k>> \in lost

\* No idempotency record outlives its customer, although no foreign key ties
\* the two: who is registered again under the id of a deleted customer is never
\* answered with what happened in an earlier life.
RecordsDieWithCustomer ==
    \A r \in keys : r.owner \in customers /\ r.life = life[r.owner]

\* The payment account that M-Sinh loi money is swept from and withdrawn to
\* belongs to the customer, though it is checked before the row is written and
\* the database does not check it again; the exception is an id that changes
\* hands in between.
SavingsLinked ==
    \A c \in Ids : savings[c] # None =>
        accounts[savings[c]].owner = c \/ savings[c] \in moved

RowsOf(c) ==
    <<c \in customers, savings[c], {<<a, accounts[a]>> : a \in Owned(c)},
      {<<l, links[l]>> : l \in {l \in Links : links[l].owner = c}}>>

\* The rows of a customer are changed by requests about this customer only,
\* even by those that have waited since they looked at the row: they are
\* written by primary key alone.  The exception is an id that changed hands.
OnlyOwnRows ==
    [][\A c \in Ids : RowsOf(c)' # RowsOf(c) =>
          \E w \in Workers : /\ job'[w] # job[w]
                              /\ \/ job[w].c = c
                                 \/ \E f \in DOMAIN job[w] : job[w][f] \in moved]_vars
=============================================================================
