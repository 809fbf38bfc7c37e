------------------------------ MODULE Scheduler ------------------------------
(***************************************************************************)
(* The scheduler: a cycle loads the customers from Core Banking, takes an  *)
(* advisory lock in PostgreSQL, and for each customer sweeps M-Sinh loi    *)
(* after 16h and runs a scan, all in one database session.                 *)
(*                                                                         *)
(* The lock belongs to the connection, which the session holds while a     *)
(* transaction is open and returns to the pool at a commit.  The pool      *)
(* tests a connection when it hands it out: one that broke in the pool is  *)
(* replaced in silence, one that broke in a transaction makes the next     *)
(* statement fail.  A statement can also fail on a connection that lives   *)
(* (a full disk, a timeout).  After either the session accepts nothing     *)
(* until it is rolled back, which only a running scan does: the statement  *)
(* that unlocks raises, and a living connection goes back to the pool with *)
(* the lock.  PostgreSQL counts how often a connection has taken it.       *)
(*                                                                         *)
(* A scan is two steps here, its row and its end; RadarScan has the rest.  *)
(***************************************************************************)
EXTENDS Naturals, FiniteSets

CONSTANTS
    Schedulers,  \* processes that run the scheduler
    Customers,   \* customer ids
    Frozen,      \* customers whose M-Sinh loi account is not ACTIVE
    NoCustomer,
    MaxFaults,   \* bound on lost connections, stopped processes and statements
                 \* that fail on a living connection
    MaxOutages   \* bound on how often Core Banking goes down

ASSUME ConstantsAssumption ==
    /\ Frozen \subseteq Customers
    /\ NoCustomer \notin Customers
    /\ MaxFaults \in Nat
    /\ MaxOutages \in Nat

VARIABLES
    job,         \* what each scheduler does in its cycle
    holds,       \* how often a scheduler's connection has taken the advisory lock
    failures,    \* history: statements that failed on that connection while it lived
    registered,  \* the customers of Core Banking
    up,          \* whether Core Banking answers
    evening,     \* whether it is past 16h in Ho Chi Minh City
    faults,      \* lost connections, stopped processes and failed statements so far
    outages      \* outages of Core Banking so far

vars == <<job, holds, failures, registered, up, evening, faults, outages>>
world == <<registered, up, evening, outages>>
outside == <<failures, faults, world>>

Steps == {"asleep", "listed", "next", "sweep", "create", "scan"}

\* listed: the customer list of the cycle; left: those of it not yet reached;
\* customer: the one at hand; scanned and unswept: those of the cycle that got
\* a scan, and those whose sweep failed; link: "open" while a transaction is
\* open, "pooled" after a commit, "dead" if the connection broke while open,
\* "failed" after a failed statement.
Jobs == [step : Steps, listed : SUBSET Customers, left : SUBSET Customers,
         customer : Customers \cup {NoCustomer}, scanned : SUBSET Customers,
         unswept : SUBSET Customers, link : {"open", "pooled", "dead", "failed"}]

Asleep == [step |-> "asleep", listed |-> {}, left |-> {}, customer |-> NoCustomer,
           scanned |-> {}, unswept |-> {}, link |-> "pooled"]

TypeOK ==
    /\ job \in [Schedulers -> Jobs]
    /\ holds \in [Schedulers -> Nat]
    /\ failures \in [Schedulers -> Nat]
    /\ registered \subseteq Customers
    /\ up \in BOOLEAN
    /\ evening \in BOOLEAN
    /\ faults \in Nat
    /\ outages \in Nat

Init ==
    /\ job = [s \in Schedulers |-> Asleep]
    /\ holds = [s \in Schedulers |-> 0]
    /\ failures = [s \in Schedulers |-> 0]
    /\ registered = Customers
    /\ up = TRUE
    /\ evening = FALSE
    /\ faults = 0
    /\ outages = 0

At(s, step) == job[s].step = step

\* The session is usable and its connection alive, or replaced by the pool.
Usable(s) == job[s].link \in {"open", "pooled"}

\* A statement fails although the connection lives.
StatementFails(s) ==
    /\ faults < MaxFaults
    /\ faults' = faults + 1
    /\ failures' = [failures EXCEPT ![s] = @ + 1]
    /\ UNCHANGED <<holds, world>>

-----------------------------------------------------------------------------
(* run_cycle *)

\* list_customer_ids; if Core Banking does not answer, the cycle is over.
List(s) ==
    /\ At(s, "asleep")
    /\ up
    /\ job' = [job EXCEPT ![s] =
                  [Asleep EXCEPT !.step = "listed", !.listed = registered, !.left = registered]]
    /\ UNCHANGED <<holds, outside>>

\* Mutant: the result of pg_try_advisory_lock is not looked at.
Lockable_Unasked(s) == TRUE

\* The lock is free, or held by this very connection, which may take it again.
Lockable(s) == \A other \in Schedulers \ {s} : holds[other] = 0

TryLock(s) ==
    /\ At(s, "listed")
    /\ IF Lockable(s)
       THEN /\ holds' = [holds EXCEPT ![s] = @ + 1]
            /\ job' = [job EXCEPT ![s].step = "next", ![s].link = "open"]
       ELSE /\ job' = [job EXCEPT ![s] = Asleep]
            /\ UNCHANGED holds
    /\ UNCHANGED outside

\* The next customer: its sweep comes first, if it is late enough.
Reach(s, c) ==
    /\ At(s, "next")
    /\ c \in job[s].left
    /\ job' = [job EXCEPT ![s].left = @ \ {c}, ![s].customer = c,
                          ![s].step = IF evening THEN "sweep" ELSE "create"]
    /\ UNCHANGED <<holds, outside>>

\* sweep_m_sinh_loi: Core Banking has the customer, whose account is ACTIVE or
\* does not exist.
Sweepable(c) == up /\ c \in registered /\ c \notin Frozen

SweepSucceeds(s) ==
    /\ At(s, "sweep")
    /\ Sweepable(job[s].customer)
    /\ job' = [job EXCEPT ![s].step = "create"]
    /\ UNCHANGED <<holds, outside>>

\* Mutant: the exception of one customer leaves the loop.
AfterFailure_Leaves(s) == {}

\* except Exception: the loop goes on with the next customer.
AfterFailure(s) == job[s].left

SweepFails(s) ==
    /\ At(s, "sweep")
    /\ ~Sweepable(job[s].customer)
    /\ job' = [job EXCEPT ![s].step = "next", ![s].left = AfterFailure(s),
                          ![s].unswept = @ \cup {job[s].customer}]
    /\ UNCHANGED <<holds, outside>>

\* Mutant: a scan that cannot be created is tried again until it can.
Create_Retries(s) ==
    /\ At(s, "create")
    /\ job' = IF Usable(s)
              THEN [job EXCEPT ![s].step = "scan", ![s].link = "open",
                               ![s].scanned = @ \cup {job[s].customer}]
              ELSE [job EXCEPT ![s].link = "failed"]
    /\ UNCHANGED <<holds, outside>>

\* create_pending_scan commits the row and reads it back, unless the session
\* has failed or the connection is dead.
Create(s) ==
    /\ At(s, "create")
    /\ job' = IF Usable(s)
              THEN [job EXCEPT ![s].step = "scan", ![s].link = "open",
                               ![s].scanned = @ \cup {job[s].customer}]
              ELSE [job EXCEPT ![s].step = "next", ![s].link = "failed",
                               ![s].left = AfterFailure(s)]
    /\ UNCHANGED <<holds, outside>>

\* The commit, or the read after it, fails although the connection lives.
CreateFails(s) ==
    /\ At(s, "create")
    /\ Usable(s)
    /\ job' = [job EXCEPT ![s].step = "next", ![s].link = "failed", ![s].left = AfterFailure(s)]
    /\ StatementFails(s)

\* Mutant: the session is closed after a scan.
Scan_Closes(s) ==
    /\ At(s, "scan")
    /\ job' = [job EXCEPT ![s].step = "next", ![s].link = "closed"]
    /\ UNCHANGED <<holds, outside>>

\* The scan completes, or fails and its failure is recorded after a rollback,
\* on a new connection if the old one is dead.
Scan(s) ==
    /\ At(s, "scan")
    /\ job' = [job EXCEPT ![s].step = "next", ![s].link = "pooled"]
    /\ UNCHANGED <<holds, outside>>

\* The scan fails, and so does the commit that records it.
ScanUnrecorded(s) ==
    /\ At(s, "scan")
    /\ job' = [job EXCEPT ![s].step = "next", ![s].link = "failed"]
    /\ StatementFails(s)

\* pg_advisory_unlock gives back one taking of the lock, if there is one.
Unlocked(s) == [holds EXCEPT ![s] = IF @ > 0 THEN @ - 1 ELSE 0]

\* finally: the lock is given back.  On a failed session or a dead connection
\* the statement raises: a living connection is pooled with the lock.
Unlock(s) ==
    /\ At(s, "next")
    /\ job[s].left = {}
    /\ holds' = IF Usable(s) THEN Unlocked(s) ELSE holds
    /\ job' = [job EXCEPT ![s] = Asleep]
    /\ UNCHANGED outside

\* The statement that unlocks is itself the one that fails.
UnlockFails(s) ==
    /\ At(s, "next")
    /\ job[s].left = {}
    /\ Usable(s)
    /\ job' = [job EXCEPT ![s] = Asleep]
    /\ StatementFails(s)

-----------------------------------------------------------------------------
(* The environment *)

\* A connection of the scheduler comes to its end, and PostgreSQL releases
\* what it had locked.
ConnectionLost(s) ==
    /\ faults < MaxFaults
    /\ faults' = faults + 1
    /\ holds' = [holds EXCEPT ![s] = 0]
    /\ failures' = [failures EXCEPT ![s] = 0]
    /\ UNCHANGED world

\* The connection breaks, in a transaction, in the pool or while the
\* scheduler sleeps.
Disconnect(s) ==
    /\ ConnectionLost(s)
    /\ \/ /\ job[s].link = "open" \/ At(s, "create")
          /\ Usable(s)
          /\ job' = [job EXCEPT ![s].link = "dead"]
       \/ /\ job[s].link # "open"
          /\ UNCHANGED job

\* The process stops and is started again.
Restart(s) ==
    /\ ConnectionLost(s)
    /\ job' = [job EXCEPT ![s] = Asleep]

\* A customer is created.
Register(c) ==
    /\ c \notin registered
    /\ registered' = registered \cup {c}
    /\ UNCHANGED <<job, holds, failures, up, evening, faults, outages>>

\* A customer is deleted.
Remove(c) ==
    /\ c \in registered
    /\ registered' = registered \ {c}
    /\ UNCHANGED <<job, holds, failures, up, evening, faults, outages>>

GoDown ==
    /\ up
    /\ outages < MaxOutages
    /\ outages' = outages + 1
    /\ up' = FALSE
    /\ UNCHANGED <<job, holds, failures, registered, evening, faults>>

ComeUp ==
    /\ ~up
    /\ up' = TRUE
    /\ UNCHANGED <<job, holds, failures, registered, evening, faults, outages>>

Clock ==
    /\ evening' = ~evening
    /\ UNCHANGED <<job, holds, failures, registered, up, faults, outages>>

Cycle(s) ==
    \/ List(s) \/ TryLock(s)
    \/ \E c \in Customers : Reach(s, c)
    \/ SweepSucceeds(s) \/ SweepFails(s) \/ Create(s) \/ CreateFails(s)
    \/ Scan(s) \/ ScanUnrecorded(s) \/ Unlock(s) \/ UnlockFails(s)

Next ==
    \/ \E s \in Schedulers : Cycle(s) \/ Disconnect(s) \/ Restart(s)
    \/ \E c \in Customers : Register(c) \/ Remove(c)
    \/ GoDown \/ ComeUp \/ Clock

Spec == Init /\ [][Next]_vars

\* The process is scheduled, sleeps for a bounded time, and every call of its
\* cycle has a timeout; Core Banking is brought up again.
FairSpec == Spec /\ (\A s \in Schedulers : WF_vars(Cycle(s))) /\ WF_vars(ComeUp)

-----------------------------------------------------------------------------
(* Properties *)

InCycle(s) == job[s].step \in {"next", "sweep", "create", "scan"}

\* Two schedulers go through the customers at the same time only after a
\* fault, and then one of them has lost the connection that held the lock.
OneCycleAtATime ==
    \A s, other \in Schedulers :
        s # other /\ InCycle(s) /\ InCycle(other) =>
            faults > 0 /\ (holds[s] = 0 \/ holds[other] = 0)

\* Between cycles a scheduler keeps others out of the lock only if a statement
\* failed on its connection and the connection lives on: once for every such
\* failure, and never because a connection broke or a customer's scan failed.
LockGivenUp ==
    \A s \in Schedulers :
        holds[s] <= failures[s] + (IF InCycle(s) /\ Usable(s) THEN 1 ELSE 0)

\* The lock keeps cycles apart, and is kept between them for one reason only.
LockSound == OneCycleAtATime /\ LockGivenUp

\* The failure of a customer is its own: when a cycle ends, each customer of
\* its list has got a scan, except those whose sweep failed and, after a
\* statement failed outside a scan, that customer and those after it.
FailuresIsolated ==
    \A s \in Schedulers :
        At(s, "next") /\ Usable(s) =>
            job[s].listed = job[s].left \cup job[s].scanned \cup job[s].unswept

\* At the end of a cycle every customer of its list that Core Banking still
\* has has been scanned.
EveryCustomerScanned ==
    \A s \in Schedulers :
        At(s, "next") /\ Usable(s) /\ job[s].left = {} =>
            job[s].listed \cap registered \subseteq job[s].scanned

\* A customer that stays registered is scanned again and again, whatever the
\* connections, the processes and Core Banking did before, if M-Sinh loi can
\* be swept.  A lock that was never given back does not stop it: the scheduler
\* whose connection keeps it takes it again.
ScannedAgain ==
    \A c \in Customers \ Frozen :
        <>[](c \in registered) => []<>(\E s \in Schedulers : At(s, "scan") /\ job[s].customer = c)
=============================================================================
