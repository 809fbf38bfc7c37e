--------------------------- MODULE Scheduler_proofs ---------------------------
(***************************************************************************)
(* Proofs about Scheduler: types, exclusion of other cycles, what keeps    *)
(* the lock, and isolation of failures, for any number of schedulers,      *)
(* customers, faults and outages.                                          *)
(***************************************************************************)
EXTENDS Scheduler, TLAPS

Cycling == {"next", "sweep", "create", "scan"}
Links == {"open", "pooled"}
AllLinks == {"open", "pooled", "dead", "failed"}

\* What a job j, the takings h of the lock and the failures x of one scheduler
\* say about each other when there have been f faults.
Sound(j, h, x, f) ==
    /\ h <= x + (IF j.step \in Cycling /\ j.link \in Links THEN 1 ELSE 0)
    /\ f = 0 => x = 0
    /\ f = 0 /\ j.step \in Cycling => h > 0 /\ j.link \in Links
    /\ j.step = "listed" => j.listed = j.left /\ j.scanned = {} /\ j.unswept = {}
    /\ j.step \in {"sweep", "create"} => j.customer \in Customers
    /\ j.step = "scan" => j.link \in {"open", "dead"}
    /\ j.step \in Cycling /\ (j.link \in Links \/ j.step = "scan") =>
          j.listed = j.left \cup j.scanned \cup j.unswept
                     \cup (IF j.step \in {"sweep", "create"} THEN {j.customer} ELSE {})

Job(step, listed, left, customer, scanned, unswept, link) ==
    [step |-> step, listed |-> listed, left |-> left, customer |-> customer,
     scanned |-> scanned, unswept |-> unswept, link |-> link]

Exclusive == \A s, other \in Schedulers : s # other => holds[s] = 0 \/ holds[other] = 0

IInv ==
    /\ TypeOK
    /\ \A s \in Schedulers : Sound(job[s], holds[s], failures[s], faults)
    /\ Exclusive

\* A step of one scheduler keeps the invariant if its new job, lock and
\* failures are sound and it takes the lock only when nobody else has it.
LEMMA OneSchedulerMoves ==
    ASSUME IInv, NEW s \in Schedulers, NEW j \in Jobs, NEW h \in Nat, NEW x \in Nat,
           NEW f \in Nat,
           job' = [job EXCEPT ![s] = j], holds' = [holds EXCEPT ![s] = h],
           failures' = [failures EXCEPT ![s] = x], faults' = f, UNCHANGED world,
           f = faults \/ f > 0,
           Sound(j, h, x, f),
           h <= holds[s] \/ \A other \in Schedulers \ {s} : holds[other] = 0
    PROVE  IInv'
<1>1. TypeOK'
  BY DEF IInv, TypeOK, world
<1>2. \A o \in Schedulers : Sound(job'[o], holds'[o], failures'[o], f)
  <2> SUFFICES ASSUME NEW o \in Schedulers
               PROVE  Sound(job'[o], holds'[o], failures'[o], f)
    OBVIOUS
  <2>1. CASE o = s
    BY <2>1 DEF IInv, TypeOK
  <2>2. CASE o # s
    <3>1. job'[o] = job[o] /\ holds'[o] = holds[o] /\ failures'[o] = failures[o]
      BY <2>2 DEF IInv, TypeOK
    <3>2. Sound(job[o], holds[o], failures[o], faults)
      BY DEF IInv
    <3> QED  BY <3>1, <3>2 DEF Sound, IInv, TypeOK
  <2> QED  BY <2>1, <2>2
<1>3. Exclusive'
  <2>1. holds \in [Schedulers -> Nat]
    BY DEF IInv, TypeOK
  <2> SUFFICES ASSUME NEW a \in Schedulers, NEW b \in Schedulers, a # b
               PROVE  holds'[a] = 0 \/ holds'[b] = 0
    BY DEF Exclusive
  <2>2. holds[a] = 0 \/ holds[b] = 0
    BY DEF IInv, Exclusive
  <2> QED  BY <2>1, <2>2
<1> QED  BY <1>1, <1>2, <1>3 DEF IInv

\* The same for a step of a cycle that leaves the lock alone.
LEMMA JobMoves ==
    ASSUME IInv, NEW s \in Schedulers, NEW j \in Jobs,
           job' = [job EXCEPT ![s] = j], UNCHANGED <<holds, outside>>,
           Sound(j, holds[s], failures[s], faults)
    PROVE  IInv'
<1>1. holds[s] \in Nat /\ failures[s] \in Nat /\ faults \in Nat
      /\ holds' = [holds EXCEPT ![s] = holds[s]]
      /\ failures' = [failures EXCEPT ![s] = failures[s]]
      /\ faults' = faults /\ UNCHANGED world
  BY DEF IInv, TypeOK, outside
<1>2. PICK h \in Nat : h = holds[s]
  BY <1>1
<1>3. PICK f \in Nat : f = faults
  BY <1>1
<1>4. PICK x \in Nat : x = failures[s]
  BY <1>1
<1>5. Sound(j, h, x, f)
  BY <1>2, <1>3, <1>4
<1>6. /\ holds' = [holds EXCEPT ![s] = h] /\ failures' = [failures EXCEPT ![s] = x]
      /\ faults' = f /\ f = faults
  BY <1>1, <1>2, <1>3, <1>4
<1>7. h <= holds[s]
  BY <1>2
<1> QED  BY <1>1, <1>5, <1>6, <1>7, OneSchedulerMoves

\* The same for a step in which a statement fails on a living connection: the
\* lock may be kept.
LEMMA FailureMoves ==
    ASSUME IInv, NEW s \in Schedulers, NEW j \in Jobs,
           job' = [job EXCEPT ![s] = j], StatementFails(s),
           \A f \in Nat : f > 0 => Sound(j, holds[s], failures[s] + 1, f)
    PROVE  IInv'
<1>1. holds[s] \in Nat /\ failures[s] \in Nat /\ faults \in Nat
      /\ holds' = [holds EXCEPT ![s] = holds[s]]
      /\ failures' = [failures EXCEPT ![s] = failures[s] + 1]
      /\ faults' = faults + 1 /\ UNCHANGED world
  BY DEF IInv, TypeOK, StatementFails
<1>2. PICK h \in Nat : h = holds[s]
  BY <1>1
<1>3. PICK f \in Nat : f = faults + 1
  BY <1>1
<1>4. PICK x \in Nat : x = failures[s] + 1
  BY <1>1
<1>5. f > 0
  BY <1>1, <1>3
<1>6. Sound(j, h, x, f)
  BY <1>2, <1>4, <1>5
<1>7. holds' = [holds EXCEPT ![s] = h] /\ failures' = [failures EXCEPT ![s] = x]
      /\ faults' = f /\ h <= holds[s]
  BY <1>1, <1>2, <1>3, <1>4
<1> QED  BY <1>1, <1>5, <1>6, <1>7, OneSchedulerMoves

\* The same for a step that ends the scheduler's connection.
LEMMA LossMoves ==
    ASSUME IInv, NEW s \in Schedulers, NEW j \in Jobs,
           job' = [job EXCEPT ![s] = j], ConnectionLost(s),
           \A f \in Nat : f > 0 => Sound(j, 0, 0, f)
    PROVE  IInv'
<1>1. faults \in Nat /\ holds' = [holds EXCEPT ![s] = 0] /\ holds[s] \in Nat
      /\ failures' = [failures EXCEPT ![s] = 0]
      /\ faults' = faults + 1 /\ UNCHANGED world
  BY DEF IInv, TypeOK, ConnectionLost
<1>2. PICK f \in Nat : f = faults + 1
  BY <1>1
<1>3. f > 0 /\ 0 <= holds[s]
  BY <1>1, <1>2
<1>4. Sound(j, 0, 0, f)
  BY <1>3
<1>5. faults' = f
  BY <1>1, <1>2
<1> QED  BY <1>1, <1>3, <1>4, <1>5, OneSchedulerMoves

\* Jobs with the same fields are the same.
LEMMA SameJob ==
    ASSUME NEW a \in Jobs, NEW b \in Jobs, a.step = b.step, a.listed = b.listed,
           a.left = b.left, a.customer = b.customer, a.scanned = b.scanned,
           a.unswept = b.unswept, a.link = b.link
    PROVE  a = b
BY DEF Jobs

LEMMA NewStepAndLinkJob ==
    \A g \in Jobs, a \in Steps, l \in AllLinks :
        [g EXCEPT !.step = a, !.link = l] = Job(a, g.listed, g.left, g.customer, g.scanned, g.unswept, l)
<1> SUFFICES ASSUME NEW g \in Jobs, NEW a \in Steps, NEW l \in AllLinks
             PROVE  [g EXCEPT !.step = a, !.link = l] = Job(a, g.listed, g.left, g.customer, g.scanned, g.unswept, l)
  OBVIOUS
<1> DEFINE e == [g EXCEPT !.step = a, !.link = l]
           r == Job(a, g.listed, g.left, g.customer, g.scanned, g.unswept, l)
<1>1. e \in Jobs /\ r \in Jobs
  BY DEF Jobs, Job, AllLinks
<1>2. /\ e.step = r.step /\ e.listed = r.listed /\ e.left = r.left
      /\ e.customer = r.customer /\ e.scanned = r.scanned
      /\ e.unswept = r.unswept /\ e.link = r.link
  BY DEF Jobs, Job
<1> QED  BY <1>1, <1>2, SameJob

LEMMA ScannedJob ==
    \A g \in Jobs, a \in Steps, l \in AllLinks, x \in SUBSET Customers :
        [g EXCEPT !.step = a, !.link = l, !.scanned = x] = Job(a, g.listed, g.left, g.customer, x, g.unswept, l)
<1> SUFFICES ASSUME NEW g \in Jobs, NEW a \in Steps, NEW l \in AllLinks, NEW x \in SUBSET Customers
             PROVE  [g EXCEPT !.step = a, !.link = l, !.scanned = x] = Job(a, g.listed, g.left, g.customer, x, g.unswept, l)
  OBVIOUS
<1> DEFINE e == [g EXCEPT !.step = a, !.link = l, !.scanned = x]
           r == Job(a, g.listed, g.left, g.customer, x, g.unswept, l)
<1>1. e \in Jobs /\ r \in Jobs
  BY DEF Jobs, Job, AllLinks
<1>2. /\ e.step = r.step /\ e.listed = r.listed /\ e.left = r.left
      /\ e.customer = r.customer /\ e.scanned = r.scanned
      /\ e.unswept = r.unswept /\ e.link = r.link
  BY DEF Jobs, Job
<1> QED  BY <1>1, <1>2, SameJob

LEMMA NoScanJob ==
    \A g \in Jobs, a \in Steps, l \in AllLinks, x \in SUBSET Customers :
        [g EXCEPT !.step = a, !.link = l, !.left = x] = Job(a, g.listed, x, g.customer, g.scanned, g.unswept, l)
<1> SUFFICES ASSUME NEW g \in Jobs, NEW a \in Steps, NEW l \in AllLinks, NEW x \in SUBSET Customers
             PROVE  [g EXCEPT !.step = a, !.link = l, !.left = x] = Job(a, g.listed, x, g.customer, g.scanned, g.unswept, l)
  OBVIOUS
<1> DEFINE e == [g EXCEPT !.step = a, !.link = l, !.left = x]
           r == Job(a, g.listed, x, g.customer, g.scanned, g.unswept, l)
<1>1. e \in Jobs /\ r \in Jobs
  BY DEF Jobs, Job, AllLinks
<1>2. /\ e.step = r.step /\ e.listed = r.listed /\ e.left = r.left
      /\ e.customer = r.customer /\ e.scanned = r.scanned
      /\ e.unswept = r.unswept /\ e.link = r.link
  BY DEF Jobs, Job
<1> QED  BY <1>1, <1>2, SameJob

LEMMA ReachedJob ==
    \A g \in Jobs, a \in Steps, x \in SUBSET Customers, c \in Customers :
        [g EXCEPT !.left = x, !.customer = c, !.step = a] = Job(a, g.listed, x, c, g.scanned, g.unswept, g.link)
<1> SUFFICES ASSUME NEW g \in Jobs, NEW a \in Steps, NEW x \in SUBSET Customers, NEW c \in Customers
             PROVE  [g EXCEPT !.left = x, !.customer = c, !.step = a] = Job(a, g.listed, x, c, g.scanned, g.unswept, g.link)
  OBVIOUS
<1> DEFINE e == [g EXCEPT !.left = x, !.customer = c, !.step = a]
           r == Job(a, g.listed, x, c, g.scanned, g.unswept, g.link)
<1>1. e \in Jobs /\ r \in Jobs
  BY DEF Jobs, Job, AllLinks
<1>2. /\ e.step = r.step /\ e.listed = r.listed /\ e.left = r.left
      /\ e.customer = r.customer /\ e.scanned = r.scanned
      /\ e.unswept = r.unswept /\ e.link = r.link
  BY DEF Jobs, Job
<1> QED  BY <1>1, <1>2, SameJob

LEMMA UnsweptJob ==
    \A g \in Jobs, a \in Steps, x \in SUBSET Customers, y \in SUBSET Customers :
        [g EXCEPT !.step = a, !.left = x, !.unswept = y] = Job(a, g.listed, x, g.customer, g.scanned, y, g.link)
<1> SUFFICES ASSUME NEW g \in Jobs, NEW a \in Steps, NEW x \in SUBSET Customers, NEW y \in SUBSET Customers
             PROVE  [g EXCEPT !.step = a, !.left = x, !.unswept = y] = Job(a, g.listed, x, g.customer, g.scanned, y, g.link)
  OBVIOUS
<1> DEFINE e == [g EXCEPT !.step = a, !.left = x, !.unswept = y]
           r == Job(a, g.listed, x, g.customer, g.scanned, y, g.link)
<1>1. e \in Jobs /\ r \in Jobs
  BY DEF Jobs, Job, AllLinks
<1>2. /\ e.step = r.step /\ e.listed = r.listed /\ e.left = r.left
      /\ e.customer = r.customer /\ e.scanned = r.scanned
      /\ e.unswept = r.unswept /\ e.link = r.link
  BY DEF Jobs, Job
<1> QED  BY <1>1, <1>2, SameJob

LEMMA ListedJob ==
    \A g \in Jobs, a \in Steps, x \in SUBSET Customers, y \in SUBSET Customers :
        [g EXCEPT !.step = a, !.listed = x, !.left = y] = Job(a, x, y, g.customer, g.scanned, g.unswept, g.link)
<1> SUFFICES ASSUME NEW g \in Jobs, NEW a \in Steps, NEW x \in SUBSET Customers, NEW y \in SUBSET Customers
             PROVE  [g EXCEPT !.step = a, !.listed = x, !.left = y] = Job(a, x, y, g.customer, g.scanned, g.unswept, g.link)
  OBVIOUS
<1> DEFINE e == [g EXCEPT !.step = a, !.listed = x, !.left = y]
           r == Job(a, x, y, g.customer, g.scanned, g.unswept, g.link)
<1>1. e \in Jobs /\ r \in Jobs
  BY DEF Jobs, Job, AllLinks
<1>2. /\ e.step = r.step /\ e.listed = r.listed /\ e.left = r.left
      /\ e.customer = r.customer /\ e.scanned = r.scanned
      /\ e.unswept = r.unswept /\ e.link = r.link
  BY DEF Jobs, Job
<1> QED  BY <1>1, <1>2, SameJob

LEMMA AsleepIsSound ==
    /\ Asleep \in Jobs
    /\ \A f, h, x \in Nat : h <= x /\ (f = 0 => x = 0) => Sound(Asleep, h, x, f)
BY DEF Asleep, Jobs, Steps, Sound, Cycling, Links

LEMMA ListKeeps == ASSUME IInv, NEW s \in Schedulers, List(s) PROVE IInv'
<1> DEFINE j == Job("listed", registered, registered, NoCustomer, {}, {}, "pooled")
<1>1. job[s] \in Jobs /\ job[s].step = "asleep" /\ Sound(job[s], holds[s], failures[s], faults)
  BY DEF IInv, TypeOK, List, At
<1>2. j \in Jobs
  BY DEF Job, Jobs, Steps, IInv, TypeOK
<1>5. [Asleep EXCEPT !.step = "listed", !.listed = registered, !.left = registered] = j
  <2>1. Asleep \in Jobs /\ registered \in SUBSET Customers /\ "listed" \in Steps
    BY AsleepIsSound DEF IInv, TypeOK, Steps
  <2>2. j = Job("listed", registered, registered, Asleep.customer, Asleep.scanned,
                Asleep.unswept, Asleep.link)
    BY DEF Asleep
  <2> QED  BY <2>1, <2>2, ListedJob
<1>3. job' = [job EXCEPT ![s] = j] /\ UNCHANGED <<holds, outside>>
  BY <1>5 DEF List
<1>4. Sound(j, holds[s], failures[s], faults)
  BY <1>1 DEF Job, Sound, Cycling, Links
<1> QED  BY <1>2, <1>3, <1>4, JobMoves

LEMMA TryLockKeeps == ASSUME IInv, NEW s \in Schedulers, TryLock(s) PROVE IInv'
<1> DEFINE g == job[s]
           j == Job("next", g.listed, g.left, g.customer, g.scanned, g.unswept, "open")
<1>1. g \in Jobs /\ g.step = "listed" /\ Sound(g, holds[s], failures[s], faults)
      /\ faults \in Nat /\ holds[s] \in Nat /\ failures[s] \in Nat
  BY DEF IInv, TypeOK, TryLock, At
<1>2. CASE Lockable(s)
  <2>1. j \in Jobs
    BY <1>1 DEF Job, Jobs, Steps
  <2>2. [g EXCEPT !.step = "next", !.link = "open"] = j
    BY <1>1, NewStepAndLinkJob DEF Steps, AllLinks
  <2>3. job' = [job EXCEPT ![s] = [g EXCEPT !.step = "next", !.link = "open"]]
    BY <1>2 DEF TryLock, IInv, TypeOK
  <2>4. job' = [job EXCEPT ![s] = j] /\ holds' = [holds EXCEPT ![s] = holds[s] + 1]
    BY <1>2, <2>2, <2>3 DEF TryLock
  <2>5. Sound(j, holds[s] + 1, failures[s], faults)
    BY <1>1 DEF Job, Sound, Cycling, Links
  <2>6. \A other \in Schedulers \ {s} : holds[other] = 0
    BY <1>2 DEF Lockable
  <2>7. failures' = [failures EXCEPT ![s] = failures[s]] /\ faults' = faults
        /\ UNCHANGED world
    BY DEF TryLock, outside, IInv, TypeOK
  <2>8. PICK k \in Jobs : k = j
    BY <2>1
  <2>9. PICK f \in Nat : f = faults
    BY <1>1
  <2>10. PICK x \in Nat : x = failures[s]
    BY <1>1
  <2>11. PICK h \in Nat : h = holds[s] + 1
    BY <1>1
  <2> QED  BY <2>4, <2>5, <2>6, <2>7, <2>8, <2>9, <2>10, <2>11, OneSchedulerMoves
<1>3. CASE ~Lockable(s)
  <2>1. holds[s] <= failures[s] /\ (faults = 0 => failures[s] = 0)
    BY <1>1 DEF Sound, Cycling
  <2>2. job' = [job EXCEPT ![s] = Asleep] /\ UNCHANGED <<holds, outside>>
    BY <1>3 DEF TryLock
  <2>3. Sound(Asleep, holds[s], failures[s], faults)
    BY <1>1, <2>1, AsleepIsSound
  <2> QED  BY <2>2, <2>3, AsleepIsSound, JobMoves
<1> QED  BY <1>2, <1>3

LEMMA ReachKeeps ==
    ASSUME IInv, NEW s \in Schedulers, NEW c \in Customers, Reach(s, c) PROVE IInv'
<1> DEFINE g == job[s]
           j == Job(IF evening THEN "sweep" ELSE "create", g.listed, g.left \ {c}, c, g.scanned, g.unswept, g.link)
<1>1. g \in Jobs /\ g.step = "next" /\ Sound(g, holds[s], failures[s], faults) /\ c \in g.left
  BY DEF IInv, TypeOK, Reach, At
<1>2. j \in Jobs
  BY <1>1 DEF Job, Jobs, Steps
<1>5. [g EXCEPT !.left = @ \ {c}, !.customer = c,
              !.step = IF evening THEN "sweep" ELSE "create"] = j
  <2>1. g.left \ {c} \in SUBSET Customers
    BY <1>1 DEF Jobs
  <2>2. (IF evening THEN "sweep" ELSE "create") \in Steps
    BY DEF Steps
  <2> QED  BY <1>1, <2>1, <2>2, ReachedJob
<1>6. job' = [job EXCEPT ![s] = [g EXCEPT !.left = @ \ {c}, !.customer = c,
              !.step = IF evening THEN "sweep" ELSE "create"]]
  BY DEF Reach, IInv, TypeOK
<1>3. job' = [job EXCEPT ![s] = j] /\ UNCHANGED <<holds, outside>>
  BY <1>5, <1>6 DEF Reach
<1>4. Sound(j, holds[s], failures[s], faults)
  BY <1>1 DEF Job, Sound, Cycling, Links
<1> QED  BY <1>2, <1>3, <1>4, JobMoves

LEMMA SweepSucceedsKeeps == ASSUME IInv, NEW s \in Schedulers, SweepSucceeds(s) PROVE IInv'
<1> DEFINE g == job[s]
           j == Job("create", g.listed, g.left, g.customer, g.scanned, g.unswept, g.link)
<1>1. g \in Jobs /\ g.step = "sweep" /\ Sound(g, holds[s], failures[s], faults)
  BY DEF IInv, TypeOK, SweepSucceeds, At
<1>2. j \in Jobs
  BY <1>1 DEF Job, Jobs, Steps
<1>5. [g EXCEPT !.step = "create"] = j
  BY <1>1 DEF Job, Jobs
<1>6. job' = [job EXCEPT ![s] = [g EXCEPT !.step = "create"]]
  BY DEF SweepSucceeds, IInv, TypeOK
<1>3. job' = [job EXCEPT ![s] = j] /\ UNCHANGED <<holds, outside>>
  BY <1>5, <1>6 DEF SweepSucceeds
<1>4. Sound(j, holds[s], failures[s], faults)
  BY <1>1 DEF Job, Sound, Cycling, Links
<1> QED  BY <1>2, <1>3, <1>4, JobMoves

LEMMA SweepFailsKeeps == ASSUME IInv, NEW s \in Schedulers, SweepFails(s) PROVE IInv'
<1> DEFINE g == job[s]
           j == Job("next", g.listed, g.left, g.customer, g.scanned, g.unswept \cup {g.customer}, g.link)
<1>1. g \in Jobs /\ g.step = "sweep" /\ Sound(g, holds[s], failures[s], faults)
  BY DEF IInv, TypeOK, SweepFails, At
<1>2. j \in Jobs
  BY <1>1 DEF Job, Jobs, Steps, Sound
<1>5. [g EXCEPT !.step = "next", !.left = g.left,
              !.unswept = @ \cup {g.customer}] = j
  <2>1. g.left \in SUBSET Customers /\ g.unswept \cup {g.customer} \in SUBSET Customers
    BY <1>1 DEF Jobs, Sound
  <2>2. "next" \in Steps
    BY DEF Steps
  <2> QED  BY <1>1, <2>1, <2>2, UnsweptJob
<1>6. job' = [job EXCEPT ![s] = [g EXCEPT !.step = "next", !.left = g.left,
              !.unswept = @ \cup {g.customer}]]
  BY DEF SweepFails, IInv, TypeOK, AfterFailure
<1>3. job' = [job EXCEPT ![s] = j] /\ UNCHANGED <<holds, outside>>
  BY <1>5, <1>6 DEF SweepFails
<1>4. Sound(j, holds[s], failures[s], faults)
  BY <1>1 DEF Job, Sound, Cycling, Links
<1> QED  BY <1>2, <1>3, <1>4, JobMoves

LEMMA CreateKeeps == ASSUME IInv, NEW s \in Schedulers, Create(s) PROVE IInv'
<1> DEFINE g == job[s]
           made == Job("scan", g.listed, g.left, g.customer, g.scanned \cup {g.customer}, g.unswept, "open")
           refused == Job("next", g.listed, g.left, g.customer, g.scanned, g.unswept, "failed")
<1>1. g \in Jobs /\ g.step = "create" /\ Sound(g, holds[s], failures[s], faults)
  BY DEF IInv, TypeOK, Create, At
<1>2. UNCHANGED <<holds, outside>>
  BY DEF Create
<1>3. CASE Usable(s)
  <2>1. made \in Jobs
    BY <1>1 DEF Job, Jobs, Steps, Sound
  <2>2. [g EXCEPT !.step = "scan", !.link = "open", !.scanned = @ \cup {g.customer}] = made
    <3>1. g.scanned \cup {g.customer} \in SUBSET Customers
      BY <1>1 DEF Jobs, Sound
    <3>2. "scan" \in Steps /\ "open" \in AllLinks
      BY DEF Steps, AllLinks
    <3> QED  BY <1>1, <3>1, <3>2, ScannedJob
  <2>3. job' = [job EXCEPT ![s] = [g EXCEPT !.step = "scan", !.link = "open",
                                            !.scanned = @ \cup {g.customer}]]
    BY <1>3 DEF Create, IInv, TypeOK
  <2>4. job' = [job EXCEPT ![s] = made]
    BY <2>2, <2>3
  <2>5. Sound(made, holds[s], failures[s], faults)
    BY <1>1, <1>3 DEF Job, Sound, Cycling, Links, Usable
  <2> QED  BY <1>2, <2>1, <2>4, <2>5, JobMoves
<1>4. CASE ~Usable(s)
  <2>1. refused \in Jobs
    BY <1>1 DEF Job, Jobs, Steps
  <2>2. [g EXCEPT !.step = "next", !.link = "failed", !.left = g.left] = refused
    BY <1>1, NoScanJob DEF Steps, AllLinks, Jobs
  <2>3. job' = [job EXCEPT ![s] = [g EXCEPT !.step = "next", !.link = "failed",
                                            !.left = g.left]]
    BY <1>4 DEF Create, AfterFailure, IInv, TypeOK
  <2>4. job' = [job EXCEPT ![s] = refused]
    BY <2>2, <2>3
  <2>5. Sound(refused, holds[s], failures[s], faults)
    BY <1>1, <1>4 DEF Job, Sound, Cycling, Links, Usable
  <2> QED  BY <1>2, <2>1, <2>4, <2>5, JobMoves
<1> QED  BY <1>3, <1>4

LEMMA CreateFailsKeeps == ASSUME IInv, NEW s \in Schedulers, CreateFails(s) PROVE IInv'
<1> DEFINE g == job[s]
           j == Job("next", g.listed, g.left, g.customer, g.scanned, g.unswept, "failed")
<1>1. g \in Jobs /\ g.step = "create" /\ g.link \in Links
      /\ Sound(g, holds[s], failures[s], faults)
      /\ holds[s] \in Nat /\ failures[s] \in Nat
  BY DEF IInv, TypeOK, CreateFails, At, Usable, Links
<1>2. j \in Jobs
  BY <1>1 DEF Job, Jobs, Steps
<1>3. [g EXCEPT !.step = "next", !.link = "failed", !.left = g.left] = j
  BY <1>1, NoScanJob DEF Steps, AllLinks, Jobs
<1>4. job' = [job EXCEPT ![s] = [g EXCEPT !.step = "next", !.link = "failed", !.left = g.left]]
  BY DEF CreateFails, AfterFailure, IInv, TypeOK
<1>5. job' = [job EXCEPT ![s] = j]
  BY <1>3, <1>4
<1>6. \A f \in Nat : f > 0 => Sound(j, holds[s], failures[s] + 1, f)
  BY <1>1 DEF Job, Sound, Cycling, Links
<1>7. StatementFails(s)
  BY DEF CreateFails
<1> QED  BY <1>2, <1>5, <1>6, <1>7, FailureMoves

LEMMA ScanKeeps == ASSUME IInv, NEW s \in Schedulers, Scan(s) PROVE IInv'
<1> DEFINE g == job[s]
           j == Job("next", g.listed, g.left, g.customer, g.scanned, g.unswept, "pooled")
<1>1. g \in Jobs /\ g.step = "scan" /\ Sound(g, holds[s], failures[s], faults)
      /\ holds[s] \in Nat /\ failures[s] \in Nat
  BY DEF IInv, TypeOK, Scan, At
<1>2. j \in Jobs
  BY <1>1 DEF Job, Jobs, Steps
<1>5. [g EXCEPT !.step = "next", !.link = "pooled"] = j
  BY <1>1, NewStepAndLinkJob DEF Steps, AllLinks
<1>6. job' = [job EXCEPT ![s] = [g EXCEPT !.step = "next", !.link = "pooled"]]
  BY DEF Scan, IInv, TypeOK
<1>3. job' = [job EXCEPT ![s] = j] /\ UNCHANGED <<holds, outside>>
  BY <1>5, <1>6 DEF Scan
<1>4. Sound(j, holds[s], failures[s], faults)
  BY <1>1 DEF Job, Sound, Cycling, Links
<1> QED  BY <1>2, <1>3, <1>4, JobMoves

LEMMA ScanUnrecordedKeeps == ASSUME IInv, NEW s \in Schedulers, ScanUnrecorded(s) PROVE IInv'
<1> DEFINE g == job[s]
           j == Job("next", g.listed, g.left, g.customer, g.scanned, g.unswept, "failed")
<1>1. g \in Jobs /\ g.step = "scan" /\ Sound(g, holds[s], failures[s], faults)
      /\ holds[s] \in Nat /\ failures[s] \in Nat
  BY DEF IInv, TypeOK, ScanUnrecorded, At
<1>2. j \in Jobs
  BY <1>1 DEF Job, Jobs, Steps
<1>3. [g EXCEPT !.step = "next", !.link = "failed"] = j
  BY <1>1, NewStepAndLinkJob DEF Steps, AllLinks
<1>4. job' = [job EXCEPT ![s] = [g EXCEPT !.step = "next", !.link = "failed"]]
  BY DEF ScanUnrecorded, IInv, TypeOK
<1>5. job' = [job EXCEPT ![s] = j]
  BY <1>3, <1>4
<1>6. \A f \in Nat : f > 0 => Sound(j, holds[s], failures[s] + 1, f)
  BY <1>1 DEF Job, Sound, Cycling, Links
<1>7. StatementFails(s)
  BY DEF ScanUnrecorded
<1> QED  BY <1>2, <1>5, <1>6, <1>7, FailureMoves

\* A usable session gives one taking back; of an unusable one the failure that
\* made it so accounts for what is kept.
LEMMA UnlockKeeps == ASSUME IInv, NEW s \in Schedulers, Unlock(s) PROVE IInv'
<1> DEFINE g == job[s]
<1>1. /\ g \in Jobs /\ g.step = "next" /\ Sound(g, holds[s], failures[s], faults)
      /\ faults \in Nat /\ holds \in [Schedulers -> Nat]
      /\ holds[s] \in Nat /\ failures[s] \in Nat
  BY DEF IInv, TypeOK, Unlock, At
<1>2. \E h \in Nat : /\ holds' = [holds EXCEPT ![s] = h]
                      /\ h <= failures[s] /\ h <= holds[s]
  <2>1. CASE Usable(s)
    <3> DEFINE k == IF holds[s] > 0 THEN holds[s] - 1 ELSE 0
    <3>1. holds' = [holds EXCEPT ![s] = k]
      BY <1>1, <2>1 DEF Unlock, Unlocked
    <3>2. k \in Nat /\ k <= failures[s] /\ k <= holds[s]
      BY <1>1, <2>1 DEF Sound, Usable, Links
    <3> QED  BY <3>1, <3>2
  <2>2. CASE ~Usable(s)
    <3>1. holds' = [holds EXCEPT ![s] = holds[s]]
      BY <1>1, <2>2 DEF Unlock
    <3>2. holds[s] <= failures[s]
      BY <1>1, <2>2 DEF Usable, Sound, Links
    <3>3. PICK h \in Nat : h = holds[s]
      BY <1>1
    <3>4. holds' = [holds EXCEPT ![s] = h] /\ h <= failures[s] /\ h <= holds[s]
      BY <3>1, <3>2, <3>3
    <3> QED  BY <3>4
  <2> QED  BY <2>1, <2>2
<1>3. PICK h \in Nat : holds' = [holds EXCEPT ![s] = h] /\ h <= failures[s] /\ h <= holds[s]
  BY <1>2
<1>4. job' = [job EXCEPT ![s] = Asleep] /\ faults' = faults /\ UNCHANGED world
      /\ failures' = [failures EXCEPT ![s] = failures[s]]
  BY DEF Unlock, outside, IInv, TypeOK
<1>5. PICK f \in Nat : f = faults
  BY <1>1
<1>6. PICK x \in Nat : x = failures[s]
  BY <1>1
<1>7. Sound(Asleep, h, x, f)
  <2>1. f = 0 => x = 0
    BY <1>1, <1>5, <1>6 DEF Sound
  <2> QED  BY <1>3, <1>6, <2>1, AsleepIsSound
<1> QED  BY <1>3, <1>4, <1>5, <1>6, <1>7, AsleepIsSound, OneSchedulerMoves

LEMMA UnlockFailsKeeps == ASSUME IInv, NEW s \in Schedulers, UnlockFails(s) PROVE IInv'
<1>1. Sound(job[s], holds[s], failures[s], faults) /\ holds[s] \in Nat /\ failures[s] \in Nat
  BY DEF IInv, TypeOK
<1>2. holds[s] <= failures[s] + 1
  BY <1>1 DEF Sound
<1>3. failures[s] + 1 \in Nat
  BY <1>1
<1>4. \A f \in Nat : f > 0 => Sound(Asleep, holds[s], failures[s] + 1, f)
  BY <1>1, <1>2, <1>3, AsleepIsSound
<1>5. job' = [job EXCEPT ![s] = Asleep] /\ StatementFails(s)
  BY DEF UnlockFails
<1> QED  BY <1>4, <1>5, AsleepIsSound, FailureMoves

\* A broken connection loses the lock, and whoever holds it from now on, there
\* has been a fault.
LEMMA DisconnectKeeps == ASSUME IInv, NEW s \in Schedulers, Disconnect(s) PROVE IInv'
<1> DEFINE g == job[s]
           j == Job(g.step, g.listed, g.left, g.customer, g.scanned, g.unswept, "dead")
<1>1. g \in Jobs /\ Sound(g, holds[s], failures[s], faults)
  BY DEF IInv, TypeOK
<1>2. ConnectionLost(s)
  BY DEF Disconnect
<1>4. CASE (g.link = "open" \/ At(s, "create")) /\ Usable(s)
           /\ job' = [job EXCEPT ![s].link = "dead"]
  <2>1. j \in Jobs
    BY <1>1 DEF Job, Jobs
  <2>2. [g EXCEPT !.link = "dead"] = j
    BY <1>1 DEF Job, Jobs
  <2>3. job' = [job EXCEPT ![s] = [g EXCEPT !.link = "dead"]]
    BY <1>4 DEF IInv, TypeOK
  <2>4. \A f \in Nat : f > 0 => Sound(j, 0, 0, f)
    BY <1>1, <1>4 DEF Job, Sound, Cycling, Links, At, Usable
  <2> QED  BY <1>2, <2>1, <2>2, <2>3, <2>4, LossMoves
<1>5. CASE UNCHANGED job
  <2>1. job' = [job EXCEPT ![s] = g]
    BY <1>5 DEF IInv, TypeOK
  <2>2. \A f \in Nat : f > 0 => Sound(g, 0, 0, f)
    BY <1>1 DEF Sound, Cycling, Links
  <2> QED  BY <1>1, <1>2, <2>1, <2>2, LossMoves
<1> QED  BY <1>4, <1>5 DEF Disconnect

LEMMA RestartKeeps == ASSUME IInv, NEW s \in Schedulers, Restart(s) PROVE IInv'
<1>1. \A f \in Nat : f > 0 => Sound(Asleep, 0, 0, f)
  BY AsleepIsSound
<1>2. job' = [job EXCEPT ![s] = Asleep] /\ ConnectionLost(s)
  BY DEF Restart
<1> QED  BY <1>1, <1>2, AsleepIsSound, LossMoves

LEMMA WorldKeeps ==
    ASSUME IInv, \/ \E c \in Customers : Register(c) \/ Remove(c)
                 \/ GoDown \/ ComeUp \/ Clock
    PROVE  IInv'
<1>1. TypeOK'
  <2>1. CASE \E c \in Customers : Register(c) \/ Remove(c)
    BY <2>1 DEF IInv, TypeOK, Register, Remove
  <2>2. CASE GoDown
    <3>1. outages' = outages + 1 /\ up' \in BOOLEAN
          /\ UNCHANGED <<job, holds, failures, registered, evening, faults>>
      BY <2>2 DEF GoDown
    <3>2. outages' \in Nat
      BY <3>1 DEF IInv, TypeOK
    <3>3. evening' \in BOOLEAN
      BY <3>1, Zenon DEF IInv, TypeOK
    <3> QED  BY <3>1, <3>2, <3>3 DEF IInv, TypeOK
  <2>3. CASE ComeUp
    BY <2>3 DEF IInv, TypeOK, ComeUp
  <2>4. CASE Clock
    <3>1. evening' \in BOOLEAN
      BY <2>4, Zenon DEF Clock
    <3>2. UNCHANGED <<job, holds, failures, registered, up, faults, outages>>
      BY <2>4 DEF Clock
    <3> QED  BY <3>1, <3>2 DEF IInv, TypeOK
  <2> QED  BY <2>1, <2>2, <2>3, <2>4
<1>2. UNCHANGED <<job, holds, failures, faults>>
  BY DEF Register, Remove, GoDown, ComeUp, Clock
<1> QED  BY <1>1, <1>2 DEF IInv, Exclusive

LEMMA InitHolds == Init => IInv
<1> SUFFICES ASSUME Init PROVE IInv
  OBVIOUS
<1>1. TypeOK
  BY AsleepIsSound DEF Init, TypeOK
<1>2. \A s \in Schedulers : Sound(job[s], holds[s], failures[s], faults)
  BY AsleepIsSound DEF Init
<1>3. Exclusive
  BY DEF Init, Exclusive
<1> QED  BY <1>1, <1>2, <1>3 DEF IInv

LEMMA StepKeeps == IInv /\ [Next]_vars => IInv'
<1> SUFFICES ASSUME IInv, [Next]_vars PROVE IInv'
  OBVIOUS
<1>1. CASE \E s \in Schedulers : Cycle(s)
  <2>1. PICK s \in Schedulers : Cycle(s)
    BY <1>1
  <2>2. CASE List(s)  BY <2>2, ListKeeps
  <2>3. CASE TryLock(s)  BY <2>3, TryLockKeeps
  <2>4. CASE \E c \in Customers : Reach(s, c)  BY <2>4, ReachKeeps
  <2>5. CASE SweepSucceeds(s)  BY <2>5, SweepSucceedsKeeps
  <2>6. CASE SweepFails(s)  BY <2>6, SweepFailsKeeps
  <2>7. CASE Create(s)  BY <2>7, CreateKeeps
  <2>10. CASE CreateFails(s)  BY <2>10, CreateFailsKeeps
  <2>11. CASE ScanUnrecorded(s)  BY <2>11, ScanUnrecordedKeeps
  <2>12. CASE UnlockFails(s)  BY <2>12, UnlockFailsKeeps
  <2>8. CASE Scan(s)  BY <2>8, ScanKeeps
  <2>9. CASE Unlock(s)  BY <2>9, UnlockKeeps
  <2> QED  BY <2>1, <2>2, <2>3, <2>4, <2>5, <2>6, <2>7, <2>8, <2>9, <2>10, <2>11,
         <2>12 DEF Cycle
<1>2. CASE \E s \in Schedulers : Disconnect(s)
  BY <1>2, DisconnectKeeps
<1>3. CASE \E s \in Schedulers : Restart(s)
  BY <1>3, RestartKeeps
<1>4. CASE \/ \E c \in Customers : Register(c) \/ Remove(c)
           \/ GoDown \/ ComeUp \/ Clock
  BY <1>4, WorldKeeps
<1>5. CASE UNCHANGED vars
  BY <1>5 DEF vars, IInv, TypeOK, Exclusive
<1> QED  BY <1>1, <1>2, <1>3, <1>4, <1>5 DEF Next

\* The invariant holds of every reachable state.
LEMMA Invariance == Spec => []IInv
BY InitHolds, StepKeeps, PTL DEF Spec

-----------------------------------------------------------------------------
(* Theorems *)

\* Every state that run_cycle and its environment reach is well typed.
THEOREM TypeCorrect == Spec => []TypeOK
<1>1. IInv => TypeOK
  BY DEF IInv
<1> QED  BY <1>1, Invariance, PTL

\* Without a fault one scheduler at a time goes through the customers, and
\* after faults one of two has lost the lock, which is never held twice.
LEMMA CyclesExclude == Spec => []OneCycleAtATime
<1>1. IInv => OneCycleAtATime
  <2> SUFFICES ASSUME IInv, NEW s \in Schedulers, NEW other \in Schedulers,
                      s # other, InCycle(s), InCycle(other)
               PROVE  faults > 0 /\ (holds[s] = 0 \/ holds[other] = 0)
    BY DEF OneCycleAtATime
  <2>1. (holds[s] = 0 \/ holds[other] = 0) /\ faults \in Nat /\ holds \in [Schedulers -> Nat]
    BY DEF IInv, Exclusive, TypeOK
  <2>2. /\ Sound(job[s], holds[s], failures[s], faults)
        /\ Sound(job[other], holds[other], failures[other], faults)
    BY DEF IInv
  <2>3. faults # 0
    BY <2>1, <2>2 DEF Job, Sound, InCycle, Cycling
  <2> QED  BY <2>1, <2>3
<1> QED  BY <1>1, Invariance, PTL

\* The finally clause, or the loss of the connection, gives the lock up before
\* a scheduler sleeps, except once for every statement that failed on a
\* connection that lives on.
LEMMA LockIsGivenUp == Spec => []LockGivenUp
<1>1. IInv => LockGivenUp
  BY DEF IInv, TypeOK, Sound, LockGivenUp, InCycle, Cycling, Usable, Links
<1> QED  BY <1>1, Invariance, PTL

\* The advisory lock keeps cycles apart, whatever connections, processes and
\* statements fail, and what keeps it between cycles is a failed statement on
\* a living connection.
THEOREM LockIsSound == Spec => []LockSound
<1>1. OneCycleAtATime /\ LockGivenUp => LockSound
  BY DEF LockSound
<1> QED  BY <1>1, CyclesExclude, LockIsGivenUp, PTL

\* The loop over the customers leaves out none but those whose sweep failed,
\* as long as the session is usable.
THEOREM FailuresAreIsolated == Spec => []FailuresIsolated
<1>1. IInv => FailuresIsolated
  <2> SUFFICES ASSUME IInv, NEW s \in Schedulers, At(s, "next"), Usable(s)
               PROVE  job[s].listed = job[s].left \cup job[s].scanned \cup job[s].unswept
    BY DEF FailuresIsolated
  <2>1. Sound(job[s], holds[s], failures[s], faults)
    BY DEF IInv
  <2> QED  BY <2>1 DEF Job, Sound, At, Usable, Cycling, Links
<1> QED  BY <1>1, Invariance, PTL
=============================================================================
