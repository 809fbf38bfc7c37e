------------------------- MODULE CoreRecords_proofs -------------------------
(***************************************************************************)
(* Proofs about CoreRecords, for any number of workers, customers, rows    *)
(* and keys, and for every relation between ids and operations: the        *)
(* references between rows, the life of idempotency records, and what the  *)
(* checks made before a row is written still mean when it is.              *)
(***************************************************************************)
EXTENDS CoreRecords, TLAPS

(* Types *)

Rows == [owner : Ids \cup {None}, kind : Kinds \cup {None}, account : Accounts \cup {None}]

\* The types of the tables, and that a row that refers to an account names one.
RowsOK ==
    /\ accounts \in [Accounts -> Rows]
    /\ savings \in [Ids -> Accounts \cup {None}]
    /\ links \in [Links -> Rows]
    /\ \A l \in Links : links[l] # NoRow => links[l].account \in Accounts
    /\ life \in [Ids -> Nat]
    /\ applied \in [Ids -> [Keys -> Nat]]

Typed == TypeOK /\ RowsOK

LEMMA RequestFacts ==
    ASSUME NEW r \in Requests
    PROVE  /\ r.op # "idle"
           /\ r.c \in Ids
           /\ r.op \in {"createAccount", "updateAccount", "deleteAccount",
                        "createSavings", "updateSavings"}
              => r.a \in Accounts /\ "a" \in DOMAIN r
           /\ r.op \in {"createAccount", "updateAccount"} => r.kind \in Kinds
           /\ r.op \in {"createLink", "updateLink", "deleteLink"}
              => r.l \in Links /\ "l" \in DOMAIN r
           /\ r.op \in {"createLink", "updateLink"} => r.a \in Accounts
           /\ r.op = "createReminder" => r.key \in Keys
BY DEF Requests

LEMMA JobFacts ==
    ASSUME TypeOK, NEW w \in Workers, job[w].op # "idle"
    PROVE  job[w] \in Requests
BY DEF TypeOK, Idle

LEMMA RowFacts ==
    /\ NoRow \in Rows /\ NoRow.owner = None /\ NoRow.account = None
    /\ \A c \in Ids, kind \in Kinds :
          /\ Account(c, kind) \in Rows
          /\ Account(c, kind).owner = c
    /\ \A c \in Ids, a \in Accounts :
          /\ Link(c, a) \in Rows
          /\ Link(c, a).owner = c
          /\ Link(c, a).account = a
BY DEF Rows, NoRow, Account, Link

LEMMA OwnerFacts == \A c \in Ids, r \in Rows : r.owner = c => r # NoRow
BY ConstantsAssumption DEF NoRow

\* What every committed write does to the worker.
LEMMA CommitFacts ==
    ASSUME TypeOK, NEW w \in Workers, NEW op, op # "idle", Commits(w, op)
    PROVE  /\ job[w] \in Requests
           /\ job[w].op = op
           /\ job' \in [Workers -> Requests \cup {Idle}]
           /\ \A v \in Workers : v # w => job'[v] = job[v]
           /\ job'[w] = Idle
           /\ job'[w] # job[w]
<1>1. job[w].op = op /\ job' = [job EXCEPT ![w] = Idle]
  BY DEF Commits
<1>2. job[w] \in Requests
  BY <1>1, JobFacts
<1>3. job \in [Workers -> Requests \cup {Idle}]
  BY DEF TypeOK
<1>4. job' \in [Workers -> Requests \cup {Idle}]
  BY <1>1, <1>3
<1>5. job'[w] = Idle /\ \A v \in Workers : v # w => job'[v] = job[v]
  BY <1>1, <1>3
<1>6. Idle.op = "idle"
  BY DEF Idle
<1> QED
  BY <1>1, <1>2, <1>4, <1>5, <1>6

LEMMA InitTyped == Init => Typed
<1> SUFFICES ASSUME Init PROVE Typed
  OBVIOUS
<1>1. NoRow \in Rows
  BY RowFacts
<1>2. RowsOK
  BY <1>1 DEF Init, RowsOK
<1>3. TypeOK
  BY DEF Init, TypeOK
<1> QED
  BY <1>2, <1>3 DEF Typed

-----------------------------------------------------------------------------
(* Each write keeps the references *)

LEMMA CreateCustomerTyped ==
    ASSUME Typed, NEW w \in Workers, CreateCustomer(w)
    PROVE  Typed'
<1> DEFINE c == job[w].c
<1>1. /\ Commits(w, "createCustomer")
      /\ customers' = customers \cup {c}
      /\ life' = [life EXCEPT ![c] = @ + 1]
      /\ applied' = [applied EXCEPT ![c] = [k \in Keys |-> 0]]
      /\ UNCHANGED <<accounts, savings, links, keys>>
  BY DEF CreateCustomer
<1>2. c \in Ids /\ job' \in [Workers -> Requests \cup {Idle}]
  BY <1>1, CommitFacts, RequestFacts DEF Typed
<1> HIDE DEF c
<1>3. RowsOK'
  BY <1>1, <1>2 DEF Typed, RowsOK
<1>4. TypeOK'
  BY <1>1, <1>2 DEF Typed, TypeOK
<1> QED
  BY <1>3, <1>4 DEF Typed

LEMMA DeleteCustomerTyped ==
    ASSUME Typed, NEW w \in Workers, DeleteCustomer(w)
    PROVE  Typed'
<1> DEFINE c == job[w].c
<1>1. /\ Commits(w, "deleteCustomer")
      /\ customers' = customers \ {c}
      /\ accounts' = [a \in Accounts |-> IF a \in Owned(c) THEN NoRow ELSE accounts[a]]
      /\ savings' = [savings EXCEPT ![c] = None]
      /\ links' = [l \in Links |-> IF links[l].owner = c THEN NoRow ELSE links[l]]
      /\ keys' = keys \ Forgotten(c)
      /\ UNCHANGED <<life, applied>>
  BY DEF DeleteCustomer
<1>2. /\ \A l \in Links : links[l].owner # c => links[l].account \notin Owned(c)
      /\ \A d \in Ids : d # c => savings[d] \notin Owned(c)
  BY DEF DeleteCustomer
<1>3. c \in Ids /\ job' \in [Workers -> Requests \cup {Idle}]
  BY <1>1, CommitFacts, RequestFacts DEF Typed
<1>4. NoRow \in Rows /\ NoRow.owner = None
  BY RowFacts
<1> HIDE DEF c
<1>5. RowsOK'
  BY <1>1, <1>3, <1>4 DEF Typed, RowsOK
<1>6. \A a \in Accounts : accounts'[a] = NoRow \/ accounts'[a].owner \in customers'
  <2> SUFFICES ASSUME NEW a \in Accounts
               PROVE  accounts'[a] = NoRow \/ accounts'[a].owner \in customers'
    OBVIOUS
  <2>1. CASE a \in Owned(c)
    BY <2>1, <1>1
  <2>2. CASE a \notin Owned(c)
    <3>1. accounts'[a] = accounts[a] /\ accounts[a].owner # c
      BY <2>2, <1>1 DEF Owned
    <3> QED
      BY <3>1, <1>1 DEF Typed, TypeOK
  <2> QED
    BY <2>1, <2>2
<1>7. \A l \in Links : links'[l] = NoRow \/
          /\ links'[l].owner \in customers'
          /\ accounts'[links'[l].account] # NoRow
  <2> SUFFICES ASSUME NEW l \in Links, links'[l] # NoRow
               PROVE  /\ links'[l].owner \in customers'
                      /\ accounts'[links'[l].account] # NoRow
    OBVIOUS
  <2>1. links'[l] = links[l] /\ links[l].owner # c
    BY <1>1
  <2>2. /\ links[l].owner \in customers
        /\ accounts[links[l].account] # NoRow
        /\ links[l].account \in Accounts
    BY <2>1 DEF Typed, TypeOK, RowsOK
  <2>3. links[l].account \notin Owned(c)
    BY <2>1, <1>2
  <2> QED
    BY <2>1, <2>2, <2>3, <1>1
<1>8. \A d \in Ids : savings'[d] = None \/
          (d \in customers' /\ accounts'[savings'[d]] # NoRow)
  <2> SUFFICES ASSUME NEW d \in Ids, savings'[d] # None
               PROVE  d \in customers' /\ accounts'[savings'[d]] # NoRow
    OBVIOUS
  <2>1. d # c /\ savings'[d] = savings[d]
    BY <1>1, <1>3 DEF Typed, RowsOK
  <2>2. d \in customers /\ accounts[savings[d]] # NoRow /\ savings[d] \in Accounts
    BY <2>1 DEF Typed, TypeOK, RowsOK
  <2>3. savings[d] \notin Owned(c)
    BY <2>1, <1>2
  <2> QED
    BY <2>1, <2>2, <2>3, <1>1
<1>9. customers' \subseteq Ids /\ keys' \subseteq [owner : Ids, key : Keys, life : Nat]
  BY <1>1 DEF Typed, TypeOK
<1> QED
  BY <1>3, <1>5, <1>6, <1>7, <1>8, <1>9 DEF Typed, TypeOK

LEMMA AccountTyped ==
    ASSUME Typed, NEW w \in Workers,
           CreateAccount(w) \/ UpdateAccount(w) \/ DeleteAccount(w)
    PROVE  Typed'
<1> DEFINE r == job[w]
<1>1. /\ UNCHANGED <<customers, savings, links, keys, life, applied>>
      /\ r.a \in Accounts /\ r.c \in Ids
      /\ job' \in [Workers -> Requests \cup {Idle}]
  <2>1. CASE CreateAccount(w)
    BY <2>1, CommitFacts, RequestFacts DEF Typed, CreateAccount
  <2>2. CASE UpdateAccount(w)
    BY <2>2, CommitFacts, RequestFacts DEF Typed, UpdateAccount, history
  <2>3. CASE DeleteAccount(w)
    BY <2>3, CommitFacts, RequestFacts DEF Typed, DeleteAccount, history
  <2> QED
    BY <2>1, <2>2, <2>3
<1>2. ASSUME NEW row \in Rows,
             accounts' = [accounts EXCEPT ![r.a] = row],
             row = NoRow \/ row.owner \in customers,
             row = NoRow => /\ \A l \in Links : links[l].account # r.a
                            /\ \A c \in Ids : savings[c] # r.a
      PROVE  Typed'
  <2> HIDE DEF r
  <2>1. RowsOK'
    BY <1>1, <1>2 DEF Typed, RowsOK
  <2>2. \A a \in Accounts : accounts'[a] = IF a = r.a THEN row ELSE accounts[a]
    BY <1>1, <1>2 DEF Typed, RowsOK
  <2>3. \A a \in Accounts : accounts'[a] = NoRow \/ accounts'[a].owner \in customers
    BY <2>2, <1>2 DEF Typed, TypeOK
  <2>4. \A l \in Links : links[l] # NoRow => accounts'[links[l].account] # NoRow
    BY <2>2, <1>2 DEF Typed, TypeOK, RowsOK
  <2>5. \A c \in Ids : savings[c] # None => accounts'[savings[c]] # NoRow
    BY <2>2, <1>2 DEF Typed, TypeOK, RowsOK
  <2> QED
    BY <1>1, <2>1, <2>3, <2>4, <2>5 DEF Typed, TypeOK
<1>3. CASE CreateAccount(w)
  <2>1. r.kind \in Kinds
    BY <1>3, CommitFacts, RequestFacts DEF Typed, CreateAccount
  <2>2. accounts' = [accounts EXCEPT ![r.a] = Account(r.c, r.kind)] /\ r.c \in customers
    BY <1>3 DEF CreateAccount
  <2>3. Account(r.c, r.kind) \in Rows /\ Account(r.c, r.kind).owner = r.c
    BY <1>1, <2>1, RowFacts
  <2>4. Account(r.c, r.kind) # NoRow
    BY <1>1, <2>3, OwnerFacts
  <2> QED
    BY <1>2, <2>2, <2>3, <2>4
<1>4. CASE UpdateAccount(w)
  <2> DEFINE row == [accounts[r.a] EXCEPT !.kind = r.kind]
  <2>1. r.kind \in Kinds
    BY <1>4, CommitFacts, RequestFacts DEF Typed, UpdateAccount
  <2>2. accounts[r.a] # NoRow /\ accounts[r.a] \in Rows
    BY <1>1, <1>4 DEF UpdateAccount, Typed, RowsOK
  <2>3. row \in Rows /\ row.owner = accounts[r.a].owner
    BY <2>1, <2>2 DEF Rows
  <2>4. row.owner \in customers
    BY <1>1, <2>2, <2>3 DEF Typed, TypeOK
  <2>5. row # NoRow
    BY <2>3, <2>4, OwnerFacts DEF Typed, TypeOK
  <2>6. accounts' = [accounts EXCEPT ![r.a] = row]
    BY <1>4 DEF UpdateAccount
  <2> HIDE DEF row
  <2> QED
    BY <1>2, <2>3, <2>4, <2>5, <2>6
<1>5. CASE DeleteAccount(w)
  <2>1. /\ accounts' = [accounts EXCEPT ![r.a] = NoRow]
        /\ \A l \in Links : links[l].account # r.a
        /\ \A c \in Ids : savings[c] # r.a
    BY <1>5 DEF DeleteAccount
  <2> QED
    BY <1>2, <2>1, RowFacts
<1> QED
  BY <1>3, <1>4, <1>5

LEMMA SavingsTyped ==
    ASSUME Typed, NEW w \in Workers,
           CreateSavings(w) \/ UpdateSavings(w) \/ DeleteSavings(w)
    PROVE  Typed'
<1> DEFINE r == job[w]
<1>1. /\ UNCHANGED <<customers, accounts, links, keys, life, applied>>
      /\ r.c \in Ids
      /\ job' \in [Workers -> Requests \cup {Idle}]
  <2>1. CASE CreateSavings(w)
    BY <2>1, CommitFacts, RequestFacts DEF Typed, CreateSavings, history
  <2>2. CASE UpdateSavings(w)
    BY <2>2, CommitFacts, RequestFacts DEF Typed, UpdateSavings, history
  <2>3. CASE DeleteSavings(w)
    BY <2>3, CommitFacts, RequestFacts DEF Typed, DeleteSavings, history
  <2> QED
    BY <2>1, <2>2, <2>3
<1>2. ASSUME NEW a \in Accounts \cup {None},
             savings' = [savings EXCEPT ![r.c] = a],
             a = None \/ (r.c \in customers /\ accounts[a] # NoRow)
      PROVE  Typed'
  <2> HIDE DEF r
  <2>1. RowsOK'
    BY <1>1, <1>2 DEF Typed, RowsOK
  <2>2. \A c \in Ids : savings'[c] = None \/
            (c \in customers /\ accounts[savings'[c]] # NoRow)
    BY <1>1, <1>2 DEF Typed, TypeOK, RowsOK
  <2> QED
    BY <1>1, <2>1, <2>2 DEF Typed, TypeOK
<1>3. CASE CreateSavings(w)
  <2>1. r.a \in Accounts
    BY <1>3, CommitFacts, RequestFacts DEF Typed, CreateSavings
  <2> QED
    BY <1>2, <1>3, <2>1 DEF CreateSavings
<1>4. CASE UpdateSavings(w)
  <2>1. r.a \in Accounts
    BY <1>4, CommitFacts, RequestFacts DEF Typed, UpdateSavings
  <2>2. r.c \in customers
    BY <1>1, <1>4 DEF UpdateSavings, Typed, TypeOK
  <2> QED
    BY <1>2, <1>4, <2>1, <2>2 DEF UpdateSavings
<1>5. CASE DeleteSavings(w)
  BY <1>2, <1>5 DEF DeleteSavings
<1> QED
  BY <1>3, <1>4, <1>5

LEMMA LinkTyped ==
    ASSUME Typed, NEW w \in Workers,
           CreateLink(w) \/ UpdateLink(w) \/ DeleteLink(w)
    PROVE  Typed'
<1> DEFINE r == job[w]
<1>1. /\ UNCHANGED <<customers, accounts, savings, keys, life, applied>>
      /\ r.l \in Links /\ r.c \in Ids
      /\ job' \in [Workers -> Requests \cup {Idle}]
  <2>1. CASE CreateLink(w)
    BY <2>1, CommitFacts, RequestFacts DEF Typed, CreateLink
  <2>2. CASE UpdateLink(w)
    BY <2>2, CommitFacts, RequestFacts DEF Typed, UpdateLink, history
  <2>3. CASE DeleteLink(w)
    BY <2>3, CommitFacts, RequestFacts DEF Typed, DeleteLink, history
  <2> QED
    BY <2>1, <2>2, <2>3
<1>2. ASSUME NEW row \in Rows,
             links' = [links EXCEPT ![r.l] = row],
             row = NoRow \/ /\ row.owner \in customers
                            /\ row.account \in Accounts
                            /\ accounts[row.account] # NoRow
      PROVE  Typed'
  <2> HIDE DEF r
  <2>1. RowsOK'
    BY <1>1, <1>2 DEF Typed, RowsOK
  <2>2. \A l \in Links : links'[l] = IF l = r.l THEN row ELSE links[l]
    BY <1>1, <1>2 DEF Typed, RowsOK
  <2>3. \A l \in Links : links'[l] = NoRow \/
            /\ links'[l].owner \in customers
            /\ accounts[links'[l].account] # NoRow
    BY <2>2, <1>2 DEF Typed, TypeOK
  <2> QED
    BY <1>1, <2>1, <2>3 DEF Typed, TypeOK
<1>3. CASE CreateLink(w)
  <2>1. r.a \in Accounts
    BY <1>3, CommitFacts, RequestFacts DEF Typed, CreateLink
  <2>2. /\ links' = [links EXCEPT ![r.l] = Link(r.c, r.a)]
        /\ r.c \in customers
        /\ accounts[r.a] # NoRow
    BY <1>3 DEF CreateLink
  <2>3. /\ Link(r.c, r.a) \in Rows
        /\ Link(r.c, r.a).owner = r.c
        /\ Link(r.c, r.a).account = r.a
    BY <1>1, <2>1, RowFacts
  <2> QED
    BY <1>2, <2>1, <2>2, <2>3
<1>4. CASE UpdateLink(w)
  <2> DEFINE row == [links[r.l] EXCEPT !.account = r.a]
  <2>1. r.a \in Accounts
    BY <1>4, CommitFacts, RequestFacts DEF Typed, UpdateLink
  <2>2. /\ links[r.l] # NoRow /\ links[r.l] \in Rows
        /\ accounts[r.a] # NoRow
    BY <1>1, <1>4 DEF UpdateLink, Typed, RowsOK
  <2>3. row \in Rows /\ row.owner = links[r.l].owner /\ row.account = r.a
    BY <2>1, <2>2 DEF Rows
  <2>4. row.owner \in customers
    BY <1>1, <2>2, <2>3 DEF Typed, TypeOK
  <2>5. links' = [links EXCEPT ![r.l] = row]
    BY <1>4 DEF UpdateLink
  <2> HIDE DEF row
  <2> QED
    BY <1>2, <2>1, <2>2, <2>3, <2>4, <2>5
<1>5. CASE DeleteLink(w)
  <2>1. links' = [links EXCEPT ![r.l] = NoRow]
    BY <1>5 DEF DeleteLink
  <2> QED
    BY <1>2, <2>1, RowFacts
<1> QED
  BY <1>3, <1>4, <1>5

LEMMA CreateReminderTyped ==
    ASSUME Typed, NEW w \in Workers, CreateReminder(w)
    PROVE  Typed'
<1> DEFINE r == job[w]
           new == [owner |-> r.c, key |-> r.key, life |-> life[r.c]]
<1>1. /\ UNCHANGED <<customers, accounts, savings, links, life>>
      /\ keys' = keys \cup {new}
      /\ applied' = [applied EXCEPT ![r.c][r.key] = @ + 1]
  BY DEF CreateReminder, Remembered
<1>2. /\ r.c \in Ids /\ r.key \in Keys
      /\ job' \in [Workers -> Requests \cup {Idle}]
  BY CommitFacts, RequestFacts DEF Typed, CreateReminder
<1>3. new \in [owner : Ids, key : Keys, life : Nat]
  BY <1>2 DEF Typed, RowsOK
<1> HIDE DEF r, new
<1>4. applied' \in [Ids -> [Keys -> Nat]]
  BY <1>1, <1>2 DEF Typed, RowsOK
<1>5. RowsOK'
  BY <1>1, <1>4 DEF Typed, RowsOK
<1>6. TypeOK'
  BY <1>1, <1>2, <1>3 DEF Typed, TypeOK
<1> QED
  BY <1>5, <1>6 DEF Typed

LEMMA IdleTyped ==
    ASSUME Typed, NEW w \in Workers, Begin(w) \/ Rollback(w)
    PROVE  Typed'
<1>1. UNCHANGED <<tables, history>>
  BY DEF Begin, Rollback
<1>2. job' \in [Workers -> Requests \cup {Idle}]
  BY DEF Begin, Rollback, Typed, TypeOK
<1> QED
  BY <1>1, <1>2 DEF Typed, TypeOK, RowsOK, tables, history

LEMMA StepTyped == Typed /\ [Next]_vars => Typed'
<1> SUFFICES ASSUME Typed, [Next]_vars PROVE Typed'
  OBVIOUS
<1>1. CASE UNCHANGED vars
  BY <1>1 DEF vars, Typed, TypeOK, RowsOK
<1>2. CASE Next
  <2> PICK w \in Workers :
        \/ Begin(w) \/ Rollback(w)
        \/ CreateCustomer(w) \/ DeleteCustomer(w)
        \/ CreateAccount(w) \/ UpdateAccount(w) \/ DeleteAccount(w)
        \/ CreateSavings(w) \/ UpdateSavings(w) \/ DeleteSavings(w)
        \/ CreateLink(w) \/ UpdateLink(w) \/ DeleteLink(w)
        \/ CreateReminder(w)
    BY <1>2 DEF Next
  <2> QED
    BY IdleTyped, CreateCustomerTyped, DeleteCustomerTyped, AccountTyped,
       SavingsTyped, LinkTyped, CreateReminderTyped
<1> QED
  BY <1>1, <1>2

\* Every row refers to rows that exist, whatever the order in which requests
\* are checked and written: accounts and links of registered customers only,
\* no transaction, facility or M-Sinh loi account on an account that is gone.
THEOREM TypeCorrect == Spec => []TypeOK
<1>1. Init => Typed
  BY InitTyped
<1>2. Typed /\ [Next]_vars => Typed'
  BY StepTyped
<1>3. Typed => TypeOK
  BY DEF Typed
<1> QED
  BY <1>1, <1>2, <1>3, PTL DEF Spec

-----------------------------------------------------------------------------
(* Idempotency records *)

\* The steps that leave customers, their records and their keyed writes alone.
LEMMA OtherStepFacts ==
    ASSUME NEW w \in Workers,
           \/ Begin(w) \/ Rollback(w)
           \/ CreateAccount(w) \/ UpdateAccount(w) \/ DeleteAccount(w)
           \/ CreateSavings(w) \/ UpdateSavings(w) \/ DeleteSavings(w)
           \/ CreateLink(w) \/ UpdateLink(w) \/ DeleteLink(w)
    PROVE  UNCHANGED <<customers, keys, life, applied, lost>>
BY DEF Begin, Rollback, CreateAccount, UpdateAccount, DeleteAccount, CreateSavings,
       UpdateSavings, DeleteSavings, CreateLink, UpdateLink, DeleteLink, tables, history

RecordsInv == Typed /\ RecordsDieWithCustomer

LEMMA RecordsStep == RecordsInv /\ [Next]_vars => RecordsInv'
<1> SUFFICES ASSUME RecordsInv, [Next]_vars PROVE RecordsDieWithCustomer'
  BY StepTyped DEF RecordsInv
<1>1. CASE UNCHANGED vars
  BY <1>1 DEF vars, RecordsInv, RecordsDieWithCustomer
<1>2. CASE Next
  <2> PICK w \in Workers :
        \/ Begin(w) \/ Rollback(w)
        \/ CreateCustomer(w) \/ DeleteCustomer(w)
        \/ CreateAccount(w) \/ UpdateAccount(w) \/ DeleteAccount(w)
        \/ CreateSavings(w) \/ UpdateSavings(w) \/ DeleteSavings(w)
        \/ CreateLink(w) \/ UpdateLink(w) \/ DeleteLink(w)
        \/ CreateReminder(w)
    BY <1>2 DEF Next
  <2> DEFINE c == job[w].c
  <2>1. CASE CreateCustomer(w)
    <3>1. /\ c \notin customers
          /\ customers' = customers \cup {c}
          /\ life' = [life EXCEPT ![c] = @ + 1]
          /\ keys' = keys
      BY <2>1 DEF CreateCustomer
    <3>2. \A r \in keys : r.owner \in customers /\ r.life = life[r.owner]
      BY DEF RecordsInv, RecordsDieWithCustomer
    <3>3. life \in [Ids -> Nat] /\ customers \subseteq Ids
      BY DEF RecordsInv, Typed, TypeOK, RowsOK
    <3> HIDE DEF c
    <3> QED
      BY <3>1, <3>2, <3>3 DEF RecordsDieWithCustomer
  <2>2. CASE DeleteCustomer(w)
    <3>1. c \in Ids
      BY <2>2, CommitFacts, RequestFacts DEF RecordsInv, Typed, DeleteCustomer
    <3>2. /\ customers' = customers \ {c}
          /\ keys' = keys \ Forgotten(c)
          /\ life' = life
      BY <2>2 DEF DeleteCustomer
    <3>3. \A r \in keys : r.owner = c => r \in Forgotten(c)
      BY <3>1, ConstantsAssumption DEF Forgotten
    <3> HIDE DEF c
    <3> QED
      BY <3>2, <3>3 DEF RecordsInv, RecordsDieWithCustomer
  <2>3. CASE CreateReminder(w)
    <3> DEFINE new == [owner |-> c, key |-> job[w].key, life |-> life[c]]
    <3>1. /\ c \in customers
          /\ customers' = customers
          /\ life' = life
          /\ keys' = keys \cup {new}
      BY <2>3 DEF CreateReminder, Remembered
    <3>2. new.owner = c /\ new.life = life[c]
      OBVIOUS
    <3> HIDE DEF new, c
    <3> QED
      BY <3>1, <3>2 DEF RecordsInv, RecordsDieWithCustomer
  <2>4. CASE ~(CreateCustomer(w) \/ DeleteCustomer(w) \/ CreateReminder(w))
    BY <2>4, OtherStepFacts DEF RecordsInv, RecordsDieWithCustomer
  <2> QED
    BY <2>1, <2>2, <2>3, <2>4
<1> QED
  BY <1>1, <1>2

\* No idempotency record outlives its customer: delete_customer finds every
\* record of the customer through the text of its operation alone.
THEOREM RecordsDie == Spec => []RecordsDieWithCustomer
<1>1. Init => RecordsInv
  BY InitTyped DEF Init, RecordsInv, RecordsDieWithCustomer
<1>2. RecordsInv /\ [Next]_vars => RecordsInv'
  BY RecordsStep
<1>3. RecordsInv => RecordsDieWithCustomer
  BY DEF RecordsInv
<1> QED
  BY <1>1, <1>2, <1>3, PTL DEF Spec

\* A key that was used in the life of a customer still has its record, unless
\* another customer's deletion took it.
KeysKept ==
    \A c \in Ids, k \in Keys : <<c, k>> \in lost \/
        /\ applied[c][k] <= 1
        /\ applied[c][k] = 1 /\ c \in customers => Replayed(c, k)

OnceInv == Typed /\ KeysKept

LEMMA OnceStep == OnceInv /\ [Next]_vars => OnceInv'
<1> SUFFICES ASSUME OnceInv, [Next]_vars PROVE KeysKept'
  BY StepTyped DEF OnceInv
<1>1. CASE UNCHANGED vars
  BY <1>1 DEF vars, OnceInv, KeysKept, Replayed
<1>2. CASE Next
  <2> PICK w \in Workers :
        \/ Begin(w) \/ Rollback(w)
        \/ CreateCustomer(w) \/ DeleteCustomer(w)
        \/ CreateAccount(w) \/ UpdateAccount(w) \/ DeleteAccount(w)
        \/ CreateSavings(w) \/ UpdateSavings(w) \/ DeleteSavings(w)
        \/ CreateLink(w) \/ UpdateLink(w) \/ DeleteLink(w)
        \/ CreateReminder(w)
    BY <1>2 DEF Next
  <2> DEFINE c == job[w].c
  <2>a. /\ applied \in [Ids -> [Keys -> Nat]]
        /\ customers \subseteq Ids
        /\ keys \subseteq [owner : Ids, key : Keys, life : Nat]
    BY DEF OnceInv, Typed, TypeOK, RowsOK
  <2>1. CASE CreateCustomer(w)
    <3>1. /\ customers' = customers \cup {c}
          /\ applied' = [applied EXCEPT ![c] = [k \in Keys |-> 0]]
          /\ lost' = {p \in lost : p[1] # c}
          /\ keys' = keys
      BY <2>1 DEF CreateCustomer
    <3> HIDE DEF c
    <3> SUFFICES ASSUME NEW d \in Ids, NEW k \in Keys, <<d, k>> \notin lost'
                 PROVE  /\ applied'[d][k] <= 1
                        /\ applied'[d][k] = 1 /\ d \in customers' => Replayed(d, k)'
      BY DEF KeysKept
    <3>2. CASE d = c
      BY <3>1, <3>2, <2>a
    <3>3. CASE d # c
      <4>1. <<d, k>> \notin lost
        BY <3>1, <3>3
      <4>2. applied'[d] = applied[d]
        BY <3>1, <3>3, <2>a
      <4> QED
        BY <3>1, <3>3, <4>1, <4>2 DEF OnceInv, KeysKept, Replayed
    <3> QED
      BY <3>2, <3>3
  <2>2. CASE DeleteCustomer(w)
    <3>1. /\ customers' = customers \ {c}
          /\ keys' = keys \ Forgotten(c)
          /\ lost' = lost \cup {<<r.owner, r.key>> : r \in {r \in Forgotten(c) : r.owner # c}}
          /\ applied' = applied
      BY <2>2 DEF DeleteCustomer
    <3> HIDE DEF c
    <3> SUFFICES ASSUME NEW d \in Ids, NEW k \in Keys, <<d, k>> \notin lost'
                 PROVE  /\ applied'[d][k] <= 1
                        /\ applied'[d][k] = 1 /\ d \in customers' => Replayed(d, k)'
      BY DEF KeysKept
    <3>2. /\ applied[d][k] <= 1
          /\ applied[d][k] = 1 /\ d \in customers => Replayed(d, k)
      BY <3>1 DEF OnceInv, KeysKept
    <3>3. ASSUME d # c, Replayed(d, k) PROVE Replayed(d, k)'
      <4> PICK r \in keys : r.owner = d /\ r.key = k
        BY <3>3 DEF Replayed
      <4>1. r \notin Forgotten(c)
        BY <3>1, <3>3
      <4> QED
        BY <3>1, <4>1 DEF Replayed
    <3> QED
      BY <3>1, <3>2, <3>3
  <2>3. CASE CreateReminder(w)
    <3> DEFINE key == job[w].key
               new == [owner |-> c, key |-> key, life |-> life[c]]
    <3>1. /\ c \in customers /\ ~Replayed(c, key)
          /\ customers' = customers /\ lost' = lost
          /\ keys' = keys \cup {new}
          /\ applied' = [applied EXCEPT ![c][key] = @ + 1]
      BY <2>3 DEF CreateReminder, Remembered
    <3>2. c \in Ids /\ key \in Keys
      BY <2>3, CommitFacts, RequestFacts DEF OnceInv, Typed, CreateReminder
    <3>3. new.owner = c /\ new.key = key
      OBVIOUS
    <3> HIDE DEF c, key, new
    <3> SUFFICES ASSUME NEW d \in Ids, NEW k \in Keys, <<d, k>> \notin lost
                 PROVE  /\ applied'[d][k] <= 1
                        /\ applied'[d][k] = 1 /\ d \in customers => Replayed(d, k)'
      BY <3>1 DEF KeysKept
    <3>4. /\ applied[d][k] <= 1
          /\ applied[d][k] = 1 /\ d \in customers => Replayed(d, k)
      BY DEF OnceInv, KeysKept
    <3>5. CASE d = c /\ k = key
      <4>1. applied'[d][k] = applied[d][k] + 1
        BY <3>1, <3>2, <3>5, <2>a
      <4>2. applied[d][k] \in Nat
        BY <2>a
      <4>3. applied[d][k] = 0
        BY <3>1, <3>4, <3>5, <4>2
      <4>4. Replayed(d, k)'
        BY <3>1, <3>3, <3>5 DEF Replayed
      <4> QED
        BY <4>1, <4>3, <4>4
    <3>6. CASE ~(d = c /\ k = key)
      <4>1. applied'[d][k] = applied[d][k]
        BY <3>1, <3>2, <3>6, <2>a
      <4>2. Replayed(d, k) => Replayed(d, k)'
        BY <3>1 DEF Replayed
      <4> QED
        BY <3>4, <4>1, <4>2
    <3> QED
      BY <3>5, <3>6
  <2>4. CASE ~(CreateCustomer(w) \/ DeleteCustomer(w) \/ CreateReminder(w))
    <3>1. UNCHANGED <<customers, keys, life, applied, lost>>
      BY <2>4, OtherStepFacts
    <3> QED
      BY <3>1 DEF OnceInv, KeysKept, Replayed
  <2> QED
    BY <2>1, <2>2, <2>3, <2>4
<1> QED
  BY <1>1, <1>2

\* A keyed write takes effect at most once in the life of its customer, unless
\* the deletion of a customer whose id the operation contains came between.
THEOREM Once == Spec => []AppliedOnce
<1>1. Init => OnceInv
  <2> SUFFICES ASSUME Init PROVE OnceInv
    OBVIOUS
  <2>1. \A c \in Ids, k \in Keys : applied[c][k] = 0
    BY DEF Init
  <2>2. KeysKept
    BY <2>1 DEF KeysKept
  <2> QED
    BY <2>2, InitTyped DEF OnceInv
<1>2. OnceInv /\ [Next]_vars => OnceInv'
  BY OnceStep
<1>3. OnceInv => AppliedOnce
  <2> SUFFICES ASSUME OnceInv, NEW c \in Ids, NEW k \in Keys,
                      applied[c][k] > 1, <<c, k>> \notin lost
               PROVE  FALSE
    BY DEF AppliedOnce
  <2>1. applied[c][k] \in Nat /\ applied[c][k] <= 1
    BY DEF OnceInv, KeysKept, Typed, RowsOK
  <2> QED
    BY <2>1
<1> QED
  BY <1>1, <1>2, <1>3, PTL DEF Spec

-----------------------------------------------------------------------------
(* What a check still means when the row is written *)

\* The row a pending request is about is still the customer's, or gone, or its
\* id changed hands.
Pending ==
    \A w \in Workers :
        LET r == job[w] IN
        /\ r.op \in {"updateAccount", "deleteAccount", "createSavings", "updateSavings"}
           => accounts[r.a].owner \in {None, r.c} \/ r.a \in moved
        /\ r.op \in {"updateLink", "deleteLink"}
           => links[r.l].owner \in {None, r.c} \/ r.l \in moved

LEMMA ReuseFacts ==
    ASSUME NEW w \in Workers, NEW id, Reuse(w, id)
    PROVE  /\ moved \subseteq moved'
           /\ \A v \in Workers \ {w} :
                 /\ job[v].op # "idle"
                 /\ job[v].c # job[w].c
                 /\ \E f \in DOMAIN job[v] : job[v][f] = id
                 => id \in moved'
BY DEF Reuse

\* A row changes owner only by being deleted and created again.
LEMMA OwnersKept ==
    ASSUME Typed, NEW w \in Workers,
           \/ CreateCustomer(w) \/ DeleteCustomer(w)
           \/ CreateAccount(w) \/ UpdateAccount(w) \/ DeleteAccount(w)
           \/ CreateSavings(w) \/ UpdateSavings(w) \/ DeleteSavings(w)
           \/ CreateLink(w) \/ UpdateLink(w) \/ DeleteLink(w)
           \/ CreateReminder(w)
    PROVE  /\ moved \subseteq moved'
           /\ job'[w] = Idle
           /\ \A v \in Workers : v # w => job'[v] = job[v]
           /\ \A a \in Accounts :
                 \/ accounts'[a].owner \in {None, accounts[a].owner}
                 \/ /\ Reuse(w, a)
                    /\ accounts[a].owner = None
                    /\ accounts'[a].owner = job[w].c
           /\ \A l \in Links :
                 \/ links'[l].owner \in {None, links[l].owner}
                 \/ /\ Reuse(w, l)
                    /\ links[l].owner = None
                    /\ links'[l].owner = job[w].c
<1> DEFINE r == job[w]
<1>1. accounts \in [Accounts -> Rows] /\ links \in [Links -> Rows]
  BY DEF Typed, RowsOK
<1>2. NoRow.owner = None
  BY RowFacts
<1>3. PICK op : op # "idle" /\ Commits(w, op)
  BY DEF CreateCustomer, DeleteCustomer, CreateAccount, UpdateAccount, DeleteAccount,
         CreateSavings, UpdateSavings, DeleteSavings, CreateLink, UpdateLink, DeleteLink,
         CreateReminder
<1>4. job'[w] = Idle /\ \A v \in Workers : v # w => job'[v] = job[v]
  BY <1>3, CommitFacts DEF Typed
<1>5. CASE CreateAccount(w)
  <2>1. /\ accounts[r.a] = NoRow
        /\ accounts' = [accounts EXCEPT ![r.a] = Account(r.c, r.kind)]
        /\ Reuse(w, r.a)
        /\ links' = links
    BY <1>5 DEF CreateAccount
  <2>2. r.c \in Ids /\ r.kind \in Kinds
    BY <1>5, CommitFacts, RequestFacts DEF CreateAccount, Typed
  <2>3. Account(r.c, r.kind).owner = r.c
    BY <2>2, RowFacts
  <2>4. moved \subseteq moved'
    BY <2>1, ReuseFacts
  <2>5. \A a \in Accounts : a # r.a => accounts'[a] = accounts[a]
    BY <1>1, <2>1
  <2>6. r.a \in Accounts => /\ Reuse(w, r.a)
                            /\ accounts[r.a].owner = None
                            /\ accounts'[r.a].owner = r.c
    BY <1>1, <1>2, <2>1, <2>3
  <2> QED
    BY <1>4, <2>1, <2>4, <2>5, <2>6
<1>6. CASE CreateLink(w)
  <2>1. /\ links[r.l] = NoRow
        /\ links' = [links EXCEPT ![r.l] = Link(r.c, r.a)]
        /\ Reuse(w, r.l)
        /\ accounts' = accounts
    BY <1>6 DEF CreateLink
  <2>2. r.c \in Ids /\ r.a \in Accounts
    BY <1>6, CommitFacts, RequestFacts DEF CreateLink, Typed
  <2>3. Link(r.c, r.a).owner = r.c
    BY <2>2, RowFacts
  <2>4. moved \subseteq moved'
    BY <2>1, ReuseFacts
  <2>5. \A l \in Links : l # r.l => links'[l] = links[l]
    BY <1>1, <2>1
  <2>6. r.l \in Links => /\ Reuse(w, r.l)
                         /\ links[r.l].owner = None
                         /\ links'[r.l].owner = r.c
    BY <1>1, <1>2, <2>1, <2>3
  <2> QED
    BY <1>4, <2>1, <2>4, <2>5, <2>6
<1>7. CASE DeleteCustomer(w)
  BY <1>1, <1>2, <1>4, <1>7 DEF DeleteCustomer
<1>8. CASE UpdateAccount(w)
  <2>1. /\ accounts' = [accounts EXCEPT ![r.a].kind = r.kind]
        /\ links' = links /\ moved' = moved
    BY <1>8 DEF UpdateAccount, history
  <2>2. \A a \in Accounts : accounts'[a].owner = accounts[a].owner
    BY <1>1, <2>1 DEF Rows
  <2> QED
    BY <1>4, <2>1, <2>2
<1>9. CASE DeleteAccount(w)
  BY <1>1, <1>2, <1>4, <1>9 DEF DeleteAccount, history
<1>10. CASE UpdateLink(w)
  <2>1. /\ links' = [links EXCEPT ![r.l].account = r.a]
        /\ accounts' = accounts /\ moved' = moved
    BY <1>10 DEF UpdateLink, history
  <2>2. \A l \in Links : links'[l].owner = links[l].owner
    BY <1>1, <2>1 DEF Rows
  <2> QED
    BY <1>4, <2>1, <2>2
<1>11. CASE DeleteLink(w)
  BY <1>1, <1>2, <1>4, <1>11 DEF DeleteLink, history
<1>12. CASE \/ CreateCustomer(w) \/ CreateReminder(w)
            \/ CreateSavings(w) \/ UpdateSavings(w) \/ DeleteSavings(w)
  <2>1. accounts' = accounts /\ links' = links /\ moved' = moved
    BY <1>12 DEF CreateCustomer, CreateReminder, CreateSavings, UpdateSavings,
                 DeleteSavings, history
  <2> QED
    BY <1>4, <2>1
<1> QED
  BY <1>5, <1>6, <1>7, <1>8, <1>9, <1>10, <1>11, <1>12

LEMMA PendingStep == Typed /\ Pending /\ [Next]_vars => Pending'
<1> SUFFICES ASSUME Typed, Pending, [Next]_vars PROVE Pending'
  OBVIOUS
<1>1. CASE UNCHANGED vars
  BY <1>1 DEF vars, Pending
<1>2. CASE Next
  <2> PICK w \in Workers :
        \/ Begin(w) \/ Rollback(w)
        \/ CreateCustomer(w) \/ DeleteCustomer(w)
        \/ CreateAccount(w) \/ UpdateAccount(w) \/ DeleteAccount(w)
        \/ CreateSavings(w) \/ UpdateSavings(w) \/ DeleteSavings(w)
        \/ CreateLink(w) \/ UpdateLink(w) \/ DeleteLink(w)
        \/ CreateReminder(w)
    BY <1>2 DEF Next
  <2>a. job \in [Workers -> Requests \cup {Idle}] /\ Idle.op = "idle"
    BY DEF Typed, TypeOK, Idle
  <2>1. CASE Begin(w)
    <3> PICK r \in Requests : Accepted(r) /\ job' = [job EXCEPT ![w] = r]
      BY <2>1 DEF Begin
    <3>1. UNCHANGED <<accounts, links, moved>>
      BY <2>1 DEF Begin, tables, history
    <3>2. /\ r.op \in {"updateAccount", "deleteAccount", "createSavings", "updateSavings"}
             => accounts[r.a].owner = r.c
          /\ r.op \in {"updateLink", "deleteLink"} => links[r.l].owner = r.c
      <4>1. \A a : PaymentAccount(r.c, a) => accounts[a].owner = r.c
        BY RequestFacts, RowFacts DEF PaymentAccount, Kinds
      <4> QED
        BY <4>1 DEF Accepted, Belongs
    <3>3. job'[w] = r /\ \A v \in Workers : v # w => job'[v] = job[v]
      BY <2>a
    <3> QED
      BY <3>1, <3>2, <3>3 DEF Pending
  <2>2. CASE Rollback(w)
    <3>1. UNCHANGED <<accounts, links, moved>>
      BY <2>2 DEF Rollback, tables, history
    <3>2. job'[w] = Idle /\ \A v \in Workers : v # w => job'[v] = job[v]
      BY <2>2, <2>a DEF Rollback
    <3> QED
      BY <2>a, <3>1, <3>2 DEF Pending
  <2>3. CASE ~(Begin(w) \/ Rollback(w))
    <3>1. /\ moved \subseteq moved'
          /\ job'[w] = Idle
          /\ \A v \in Workers : v # w => job'[v] = job[v]
          /\ \A a \in Accounts :
                \/ accounts'[a].owner \in {None, accounts[a].owner}
                \/ /\ Reuse(w, a)
                   /\ accounts[a].owner = None
                   /\ accounts'[a].owner = job[w].c
          /\ \A l \in Links :
                \/ links'[l].owner \in {None, links[l].owner}
                \/ /\ Reuse(w, l)
                   /\ links[l].owner = None
                   /\ links'[l].owner = job[w].c
      BY <2>3, OwnersKept
    <3> SUFFICES ASSUME NEW v \in Workers
                 PROVE  LET r == job'[v] IN
                        /\ r.op \in {"updateAccount", "deleteAccount", "createSavings",
                                     "updateSavings"}
                           => accounts'[r.a].owner \in {None, r.c} \/ r.a \in moved'
                        /\ r.op \in {"updateLink", "deleteLink"}
                           => links'[r.l].owner \in {None, r.c} \/ r.l \in moved'
      BY DEF Pending
    <3>2. CASE v = w
      BY <2>a, <3>1, <3>2
    <3>3. CASE v # w
      <4> DEFINE r == job[v]
      <4>1. job'[v] = r
        BY <3>1, <3>3
      <4>2. ASSUME r.op \in {"updateAccount", "deleteAccount", "createSavings",
                             "updateSavings"}
            PROVE  accounts'[r.a].owner \in {None, r.c} \/ r.a \in moved'
        <5>1. /\ r.op # "idle" /\ r \in Requests
          BY <4>2, <2>a
        <5>2. r.a \in Accounts /\ "a" \in DOMAIN r
          BY <4>2, <5>1, RequestFacts
        <5>3. accounts[r.a].owner \in {None, r.c} \/ r.a \in moved
          BY <4>2 DEF Pending
        <5>4. CASE accounts'[r.a].owner \in {None, accounts[r.a].owner}
          BY <3>1, <5>3, <5>4
        <5>5. CASE Reuse(w, r.a) /\ accounts'[r.a].owner = job[w].c
          <6>1. r.c # job[w].c => r.a \in moved'
            BY <3>3, <5>1, <5>2, <5>5, ReuseFacts
          <6> QED
            BY <5>5, <6>1
        <5> QED
          BY <3>1, <5>2, <5>4, <5>5
      <4>3. ASSUME r.op \in {"updateLink", "deleteLink"}
            PROVE  links'[r.l].owner \in {None, r.c} \/ r.l \in moved'
        <5>1. /\ r.op # "idle" /\ r \in Requests
          BY <4>3, <2>a
        <5>2. r.l \in Links /\ "l" \in DOMAIN r
          BY <4>3, <5>1, RequestFacts
        <5>3. links[r.l].owner \in {None, r.c} \/ r.l \in moved
          BY <4>3 DEF Pending
        <5>4. CASE links'[r.l].owner \in {None, links[r.l].owner}
          BY <3>1, <5>3, <5>4
        <5>5. CASE Reuse(w, r.l) /\ links'[r.l].owner = job[w].c
          <6>1. r.c # job[w].c => r.l \in moved'
            BY <3>3, <5>1, <5>2, <5>5, ReuseFacts
          <6> QED
            BY <5>5, <6>1
        <5> QED
          BY <3>1, <5>2, <5>4, <5>5
      <4> QED
        BY <4>1, <4>2, <4>3
    <3> QED
      BY <3>2, <3>3
  <2> QED
    BY <2>1, <2>2, <2>3
<1> QED
  BY <1>1, <1>2

ChecksInv == Typed /\ Pending

LEMMA InitChecks == Init => ChecksInv
<1> SUFFICES ASSUME Init PROVE Pending
  BY InitTyped DEF ChecksInv
<1>1. \A w \in Workers : job[w].op = "idle"
  BY DEF Init, Idle
<1> QED
  BY <1>1 DEF Pending

LEMMA ChecksStep == ChecksInv /\ [Next]_vars => ChecksInv'
BY StepTyped, PendingStep DEF ChecksInv

LEMMA SavingsStep == ChecksInv /\ SavingsLinked /\ [Next]_vars => SavingsLinked'
<1> SUFFICES ASSUME ChecksInv, SavingsLinked, [Next]_vars PROVE SavingsLinked'
  OBVIOUS
<1>a. Typed /\ Pending
  BY DEF ChecksInv
<1>b. /\ accounts \in [Accounts -> Rows]
      /\ savings \in [Ids -> Accounts \cup {None}]
      /\ \A a \in Accounts : accounts[a] # NoRow => accounts[a].owner \in Ids
      /\ \A c \in Ids : savings[c] # None =>
            /\ savings[c] \in Accounts
            /\ accounts[savings[c]] # NoRow
  BY <1>a DEF Typed, TypeOK, RowsOK
<1>c. \A c \in Ids : savings[c] # None =>
        accounts[savings[c]].owner = c \/ savings[c] \in moved
  BY DEF SavingsLinked
<1>d. None \notin Ids
  BY ConstantsAssumption
<1>1. CASE UNCHANGED vars
  BY <1>1 DEF vars, SavingsLinked
<1>2. CASE Next
  <2> PICK w \in Workers :
        \/ Begin(w) \/ Rollback(w)
        \/ CreateCustomer(w) \/ DeleteCustomer(w)
        \/ CreateAccount(w) \/ UpdateAccount(w) \/ DeleteAccount(w)
        \/ CreateSavings(w) \/ UpdateSavings(w) \/ DeleteSavings(w)
        \/ CreateLink(w) \/ UpdateLink(w) \/ DeleteLink(w)
        \/ CreateReminder(w)
    BY <1>2 DEF Next
  <2> DEFINE r == job[w]
  <2>1. CASE UNCHANGED <<accounts, savings>> /\ moved \subseteq moved'
    BY <2>1, <1>c DEF SavingsLinked
  <2>2. CASE \/ Begin(w) \/ Rollback(w) \/ CreateCustomer(w) \/ CreateReminder(w)
             \/ CreateLink(w) \/ UpdateLink(w) \/ DeleteLink(w)
    <3>1. UNCHANGED <<accounts, savings>>
      BY <2>2 DEF Begin, Rollback, CreateCustomer, CreateReminder, CreateLink, UpdateLink,
                  DeleteLink, tables
    <3>2. CASE CreateLink(w)
      BY <3>1, <3>2, <2>1, ReuseFacts DEF CreateLink
    <3>3. CASE ~CreateLink(w)
      <4>1. moved' = moved
        BY <2>2, <3>3 DEF Begin, Rollback, CreateCustomer, CreateReminder, UpdateLink,
                          DeleteLink, history
      <4> QED
        BY <3>1, <4>1, <2>1
    <3> QED
      BY <3>2, <3>3
  <2>3. CASE DeleteCustomer(w)
    <3> DEFINE c == r.c
    <3>1. /\ accounts' = [a \in Accounts |-> IF a \in Owned(c) THEN NoRow ELSE accounts[a]]
          /\ savings' = [savings EXCEPT ![c] = None]
          /\ moved' = moved
          /\ \A d \in Ids : d # c => savings[d] \notin Owned(c)
      BY <2>3 DEF DeleteCustomer
    <3>2. c \in Ids
      BY <2>3, CommitFacts, RequestFacts, <1>a DEF DeleteCustomer, Typed
    <3> HIDE DEF c
    <3> SUFFICES ASSUME NEW d \in Ids, savings'[d] # None
                 PROVE  accounts'[savings'[d]].owner = d \/ savings'[d] \in moved'
      BY DEF SavingsLinked
    <3>3. d # c /\ savings'[d] = savings[d]
      BY <1>b, <3>1, <3>2
    <3>4. savings[d] \in Accounts /\ savings[d] \notin Owned(c)
      BY <1>b, <3>1, <3>3
    <3>5. accounts'[savings[d]] = accounts[savings[d]]
      BY <3>1, <3>4
    <3> QED
      BY <1>c, <3>1, <3>3, <3>5
  <2>4. CASE CreateAccount(w)
    <3>1. /\ accounts[r.a] = NoRow
          /\ accounts' = [accounts EXCEPT ![r.a] = Account(r.c, r.kind)]
          /\ savings' = savings
          /\ moved \subseteq moved'
      BY <2>4, ReuseFacts DEF CreateAccount
    <3>2. \A d \in Ids : savings[d] # None => accounts'[savings[d]] = accounts[savings[d]]
      BY <1>b, <3>1
    <3> QED
      BY <1>c, <3>1, <3>2 DEF SavingsLinked
  <2>5. CASE UpdateAccount(w)
    <3>1. /\ accounts' = [accounts EXCEPT ![r.a].kind = r.kind]
          /\ savings' = savings
          /\ moved' = moved
      BY <2>5 DEF UpdateAccount, history
    <3>2. \A a \in Accounts : accounts'[a].owner = accounts[a].owner
      BY <1>b, <3>1 DEF Rows
    <3> QED
      BY <1>b, <1>c, <3>1, <3>2 DEF SavingsLinked
  <2>6. CASE DeleteAccount(w)
    <3>1. /\ accounts' = [accounts EXCEPT ![r.a] = NoRow]
          /\ \A c \in Ids : savings[c] # r.a
          /\ savings' = savings
          /\ moved' = moved
      BY <2>6 DEF DeleteAccount, history
    <3>2. \A d \in Ids : savings[d] # None => accounts'[savings[d]] = accounts[savings[d]]
      BY <1>b, <3>1
    <3> QED
      BY <1>c, <3>1, <3>2 DEF SavingsLinked
  <2>7. CASE CreateSavings(w) \/ UpdateSavings(w)
    <3>1. /\ savings' = [savings EXCEPT ![r.c] = r.a]
          /\ accounts[r.a] # NoRow
          /\ accounts' = accounts /\ moved' = moved
          /\ r.op \in {"createSavings", "updateSavings"}
      BY <2>7 DEF CreateSavings, UpdateSavings, Commits, history
    <3>2. r.c \in Ids /\ r.a \in Accounts
      BY <2>7, CommitFacts, RequestFacts, <1>a DEF CreateSavings, UpdateSavings, Typed
    <3>3. accounts[r.a].owner \in {None, r.c} \/ r.a \in moved
      BY <1>a, <3>1 DEF Pending
    <3>4. accounts[r.a].owner = r.c \/ r.a \in moved
      BY <1>b, <1>d, <3>1, <3>2, <3>3
    <3> HIDE DEF r
    <3> QED
      BY <1>b, <1>c, <3>1, <3>2, <3>4 DEF SavingsLinked
  <2>8. CASE DeleteSavings(w)
    <3>1. /\ savings' = [savings EXCEPT ![r.c] = None]
          /\ accounts' = accounts /\ moved' = moved
      BY <2>8 DEF DeleteSavings, history
    <3> QED
      BY <1>b, <1>c, <3>1 DEF SavingsLinked
  <2> QED
    BY <2>2, <2>3, <2>4, <2>5, <2>6, <2>7, <2>8
<1> QED
  BY <1>1, <1>2

\* The account M-Sinh loi money is swept from and withdrawn to is the
\* customer's own, unless its id changed hands between the check and the write.
THEOREM Linked == Spec => []SavingsLinked
<1>1. Init => ChecksInv /\ SavingsLinked
  <2>1. Init => SavingsLinked
    BY DEF Init, SavingsLinked
  <2> QED
    BY <2>1, InitChecks
<1>2. ChecksInv /\ SavingsLinked /\ [Next]_vars => (ChecksInv /\ SavingsLinked)'
  BY ChecksStep, SavingsStep
<1> QED
  BY <1>1, <1>2, PTL DEF Spec

LEMMA RowsSame ==
    ASSUME NEW c \in Ids,
           c \in customers' <=> c \in customers,
           savings'[c] = savings[c],
           \A a \in Accounts : accounts'[a] = accounts[a]
               \/ (accounts'[a].owner # c /\ accounts[a].owner # c),
           \A l \in Links : links'[l] = links[l]
               \/ (links'[l].owner # c /\ links[l].owner # c)
    PROVE  RowsOf(c)' = RowsOf(c)
<1> DEFINE As == {<<a, accounts[a]>> : a \in Owned(c)}
           Ls == {<<l, links[l]>> : l \in {l \in Links : links[l].owner = c}}
<1>1. (c \in customers)' = (c \in customers)
  OBVIOUS
<1>2. Owned(c)' = Owned(c) /\ \A a \in Owned(c) : accounts'[a] = accounts[a]
  BY DEF Owned
<1>3. As' = As
  BY <1>2
<1>4. /\ {l \in Links : links'[l].owner = c} = {l \in Links : links[l].owner = c}
      /\ \A l \in Links : links[l].owner = c => links'[l] = links[l]
  OBVIOUS
<1>5. Ls' = Ls
  BY <1>4
<1>6. RowsOf(c) = <<c \in customers, savings[c], As, Ls>>
  BY DEF RowsOf
<1>7. RowsOf(c)' = <<(c \in customers)', savings'[c], As', Ls'>>
  BY DEF RowsOf
<1> HIDE DEF As, Ls
<1> QED
  BY <1>1, <1>3, <1>5, <1>6, <1>7, Zenon

\* A write about customer r.c of a row whose id did not change hands leaves the
\* rows of every other customer as they are.
LEMMA OwnRowsStep ==
    ASSUME ChecksInv, NEW w \in Workers, NEW c \in Ids, job[w].c # c,
           \A f \in DOMAIN job[w] : job[w][f] \notin moved,
           \/ CreateCustomer(w) \/ DeleteCustomer(w)
           \/ CreateAccount(w) \/ UpdateAccount(w) \/ DeleteAccount(w)
           \/ CreateSavings(w) \/ UpdateSavings(w) \/ DeleteSavings(w)
           \/ CreateLink(w) \/ UpdateLink(w) \/ DeleteLink(w)
           \/ CreateReminder(w)
    PROVE  RowsOf(c)' = RowsOf(c)
<1> DEFINE r == job[w]
<1>a. Typed /\ Pending
  BY DEF ChecksInv
<1>b. /\ accounts \in [Accounts -> Rows]
      /\ links \in [Links -> Rows]
      /\ savings \in [Ids -> Accounts \cup {None}]
  BY <1>a DEF Typed, RowsOK
<1>c. NoRow.owner = None /\ None \notin Ids
  BY RowFacts, ConstantsAssumption
<1>d. PICK op : op # "idle" /\ Commits(w, op)
  BY DEF CreateCustomer, DeleteCustomer, CreateAccount, UpdateAccount, DeleteAccount,
         CreateSavings, UpdateSavings, DeleteSavings, CreateLink, UpdateLink, DeleteLink,
         CreateReminder
<1>e. r \in Requests /\ r.op = op
  BY <1>a, <1>d, CommitFacts DEF Typed
<1>f. r.c \in Ids /\ r.c # c
  BY <1>e, RequestFacts
<1>1. CASE CreateCustomer(w) \/ CreateReminder(w)
  <2>1. UNCHANGED <<accounts, links, savings>>
    BY <1>1 DEF CreateCustomer, CreateReminder
  <2>2. c \in customers' <=> c \in customers
    BY <1>1, <1>f DEF CreateCustomer, CreateReminder
  <2> QED
    BY <2>1, <2>2, RowsSame
<1>2. CASE DeleteCustomer(w)
  <2>1. /\ customers' = customers \ {r.c}
        /\ accounts' = [a \in Accounts |-> IF a \in Owned(r.c) THEN NoRow ELSE accounts[a]]
        /\ savings' = [savings EXCEPT ![r.c] = None]
        /\ links' = [l \in Links |-> IF links[l].owner = r.c THEN NoRow ELSE links[l]]
    BY <1>2 DEF DeleteCustomer
  <2>2. (c \in customers' <=> c \in customers) /\ savings'[c] = savings[c]
    BY <1>b, <1>f, <2>1
  <2>3. \A a \in Accounts : accounts'[a] = accounts[a]
           \/ (accounts'[a].owner # c /\ accounts[a].owner # c)
    BY <1>c, <1>f, <2>1 DEF Owned
  <2>4. \A l \in Links : links'[l] = links[l]
           \/ (links'[l].owner # c /\ links[l].owner # c)
    BY <1>c, <1>f, <2>1
  <2> QED
    BY <2>2, <2>3, <2>4, RowsSame
<1>3. ASSUME NEW row, accounts' = [accounts EXCEPT ![r.a] = row], row.owner # c,
             accounts[r.a].owner # c, UNCHANGED <<customers, savings, links>>
      PROVE  RowsOf(c)' = RowsOf(c)
  <2>1. \A a \in Accounts : accounts'[a] = accounts[a]
           \/ (accounts'[a].owner # c /\ accounts[a].owner # c)
    BY <1>b, <1>3
  <2> QED
    BY <1>3, <2>1, RowsSame
<1>4. CASE CreateAccount(w)
  <2>1. r.kind \in Kinds
    BY <1>4, <1>a, CommitFacts, RequestFacts DEF CreateAccount, Typed
  <2>2. Account(r.c, r.kind).owner = r.c
    BY <1>f, <2>1, RowFacts
  <2> QED
    BY <1>3, <1>4, <1>c, <1>f, <2>2 DEF CreateAccount
<1>5. CASE UpdateAccount(w) \/ DeleteAccount(w)
  <2>1. r.op \in {"updateAccount", "deleteAccount"}
    BY <1>5 DEF UpdateAccount, DeleteAccount, Commits
  <2>2. r.a \in Accounts /\ "a" \in DOMAIN r
    BY <1>e, <2>1, RequestFacts
  <2>3. r.a \notin moved
    BY <2>2
  <2>4. accounts[r.a].owner \in {None, r.c}
    BY <1>a, <2>1, <2>3 DEF Pending
  <2>5. accounts[r.a].owner # c
    BY <1>c, <1>f, <2>4
  <2>6. CASE UpdateAccount(w)
    <3> DEFINE row == [accounts[r.a] EXCEPT !.kind = r.kind]
    <3>1. row.owner = accounts[r.a].owner
      BY <1>b, <2>2 DEF Rows
    <3>2. /\ accounts' = [accounts EXCEPT ![r.a] = row]
          /\ UNCHANGED <<customers, savings, links>>
      BY <2>6 DEF UpdateAccount
    <3> HIDE DEF row, r
    <3> QED
      BY <1>3, <2>5, <3>1, <3>2
  <2>7. CASE DeleteAccount(w)
    BY <1>3, <1>c, <2>5, <2>7 DEF DeleteAccount
  <2> QED
    BY <1>5, <2>6, <2>7
<1>6. CASE CreateSavings(w) \/ UpdateSavings(w) \/ DeleteSavings(w)
  <2>1. UNCHANGED <<customers, accounts, links>>
    BY <1>6 DEF CreateSavings, UpdateSavings, DeleteSavings
  <2>2. savings'[c] = savings[c]
    BY <1>6, <1>b, <1>f DEF CreateSavings, UpdateSavings, DeleteSavings
  <2> QED
    BY <2>1, <2>2, RowsSame
<1>7. ASSUME NEW row, links' = [links EXCEPT ![r.l] = row], row.owner # c,
             links[r.l].owner # c, UNCHANGED <<customers, savings, accounts>>
      PROVE  RowsOf(c)' = RowsOf(c)
  <2>1. \A l \in Links : links'[l] = links[l]
           \/ (links'[l].owner # c /\ links[l].owner # c)
    BY <1>b, <1>7
  <2> QED
    BY <1>7, <2>1, RowsSame
<1>8. CASE CreateLink(w)
  <2>1. r.a \in Accounts
    BY <1>8, <1>a, CommitFacts, RequestFacts DEF CreateLink, Typed
  <2>2. Link(r.c, r.a).owner = r.c
    BY <1>f, <2>1, RowFacts
  <2> QED
    BY <1>7, <1>8, <1>c, <1>f, <2>2 DEF CreateLink
<1>9. CASE UpdateLink(w) \/ DeleteLink(w)
  <2>1. r.op \in {"updateLink", "deleteLink"}
    BY <1>9 DEF UpdateLink, DeleteLink, Commits
  <2>2. r.l \in Links /\ "l" \in DOMAIN r
    BY <1>e, <2>1, RequestFacts
  <2>3. r.l \notin moved
    BY <2>2
  <2>4. links[r.l].owner \in {None, r.c}
    BY <1>a, <2>1, <2>3 DEF Pending
  <2>5. links[r.l].owner # c
    BY <1>c, <1>f, <2>4
  <2>6. CASE UpdateLink(w)
    <3> DEFINE row == [links[r.l] EXCEPT !.account = r.a]
    <3>1. row.owner = links[r.l].owner
      BY <1>b, <2>2 DEF Rows
    <3>2. /\ links' = [links EXCEPT ![r.l] = row]
          /\ UNCHANGED <<customers, savings, accounts>>
      BY <2>6 DEF UpdateLink
    <3> HIDE DEF row, r
    <3> QED
      BY <1>7, <2>5, <3>1, <3>2
  <2>7. CASE DeleteLink(w)
    BY <1>7, <1>c, <2>5, <2>7 DEF DeleteLink
  <2> QED
    BY <1>9, <2>6, <2>7
<1> QED
  BY <1>1, <1>2, <1>4, <1>5, <1>6, <1>8, <1>9

\* The rows of a customer are changed by requests about this customer only,
\* although they are written by primary key alone, unless an id changed hands
\* while the request was pending.
THEOREM OwnRows == Spec => OnlyOwnRows
<1> DEFINE Own ==
        \A c \in Ids : RowsOf(c)' # RowsOf(c) =>
            \E w \in Workers : /\ job'[w] # job[w]
                                /\ \/ job[w].c = c
                                   \/ \E f \in DOMAIN job[w] : job[w][f] \in moved
<1>1. Init => ChecksInv
  BY InitChecks
<1>2. ChecksInv /\ [Next]_vars => ChecksInv'
  BY ChecksStep
<1>3. ChecksInv /\ [Next]_vars => [Own]_vars
  <2> SUFFICES ASSUME ChecksInv, Next, NEW c \in Ids, RowsOf(c)' # RowsOf(c)
               PROVE  \E w \in Workers : /\ job'[w] # job[w]
                                         /\ \/ job[w].c = c
                                            \/ \E f \in DOMAIN job[w] : job[w][f] \in moved
    OBVIOUS
  <2> PICK w \in Workers :
        \/ Begin(w) \/ Rollback(w)
        \/ CreateCustomer(w) \/ DeleteCustomer(w)
        \/ CreateAccount(w) \/ UpdateAccount(w) \/ DeleteAccount(w)
        \/ CreateSavings(w) \/ UpdateSavings(w) \/ DeleteSavings(w)
        \/ CreateLink(w) \/ UpdateLink(w) \/ DeleteLink(w)
        \/ CreateReminder(w)
    BY DEF Next
  <2>1. ~(Begin(w) \/ Rollback(w))
    <3>1. ASSUME UNCHANGED tables PROVE RowsOf(c)' = RowsOf(c)
      BY <3>1, RowsSame DEF tables
    <3> QED
      BY <3>1 DEF Begin, Rollback
  <2>2. job'[w] # job[w]
    <3>1. PICK op : op # "idle" /\ Commits(w, op)
      BY <2>1 DEF CreateCustomer, DeleteCustomer, CreateAccount, UpdateAccount,
             DeleteAccount, CreateSavings, UpdateSavings, DeleteSavings, CreateLink,
             UpdateLink, DeleteLink, CreateReminder
    <3> QED
      BY <3>1, CommitFacts DEF ChecksInv, Typed
  <2>3. job[w].c = c \/ \E f \in DOMAIN job[w] : job[w][f] \in moved
    BY <2>1, OwnRowsStep
  <2> QED
    BY <2>2, <2>3
<1>4. OnlyOwnRows <=> [][Own]_vars
  BY DEF OnlyOwnRows
<1> QED
  BY <1>1, <1>2, <1>3, <1>4, PTL DEF Spec
=============================================================================
