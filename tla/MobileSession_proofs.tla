------------------------- MODULE MobileSession_proofs -------------------------
(***************************************************************************)
(* Proofs about MobileSession, for any customers, offers and number of     *)
(* functions under way, and for a user who begins and logs out whenever    *)
(* the page lets him.                                                      *)
(*                                                                         *)
(* A step is of one function, or of none.  To the others it only adds      *)
(* marks (Bystander), from which the invariants about them follow.         *)
(***************************************************************************)
EXTENDS MobileSession, TLAPS

-----------------------------------------------------------------------------
(* The form of the state, and the steps a function of each kind goes through *)

IsJob(r) ==
    r = [kind |-> r.kind, step |-> r.step, of |-> r.of, choice |-> r.choice, yes |-> r.yes,
         attempt |-> r.attempt, context |-> r.context, report |-> r.report, read |-> r.read,
         marks |-> r.marks]

\* Functions that end with a load of the page.
Loaders == {"login", "submit", "answer"}

Phases(r) ==
    /\ r.kind \in Kinds \cup {"none"}
    /\ r.kind = "none" => r = Idle
    /\ r.kind \in {"select", "prepare"} => r.step = "asked"
    /\ r.kind = "scan" => r.step \in {"asked", "running", "completed"}
    /\ r.kind \in Loaders => r.step \in {"asked", "loading"}
    /\ r.step # "loading" => r.read = {}

Shapes ==
    /\ job = [j \in Jobs |-> job[j]]
    /\ \A j \in Jobs : IsJob(job[j]) /\ Phases(job[j])

LEMMA IdleFields ==
    /\ IsJob(Idle) /\ Phases(Idle)
    /\ Idle.kind = "none" /\ Idle.step = "idle" /\ Idle.of = None /\ Idle.choice = NoChoice
    /\ Idle.context = NoContext /\ Idle.report = NoReport /\ Idle.read = {} /\ Idle.marks = {}
BY DEF Idle, IsJob, Phases, Loaders, Kinds

LEMMA Nothings ==
    /\ NoContext.of = None /\ NoReport.of = None /\ NoReport.options = {}
    /\ NoChoice.report = NoReport
    /\ NoModal.kind = "none" /\ NoModal.choice = NoChoice /\ NoModal.marks = {}
    /\ Form.kind = "form" /\ Form.choice = NoChoice /\ Form.marks = {}
BY DEF NoContext, NoReport, NoChoice, Choice, NoModal, Form

\* Function j has become new.
Becomes(j, new) == job' = [i \in Jobs |-> IF i = j THEN new ELSE job'[i]]

\* What a step does to a function that is not its own: all stays but for marks,
\* and if radar is assigned or a write made, the marks tell.
Same(i) ==
    /\ IsJob(job'[i])
    /\ job'[i].kind = job[i].kind /\ job'[i].step = job[i].step /\ job'[i].of = job[i].of
    /\ job'[i].choice = job[i].choice /\ job'[i].context = job[i].context
    /\ job'[i].report = job[i].report /\ job'[i].read = job[i].read
    /\ job[i].marks \subseteq job'[i].marks
    /\ job[i] = Idle => job'[i] = Idle

Bystander(i) ==
    /\ Same(i)
    /\ job[i].kind = "select" /\ radar' # radar => job'[i].marks # {}
    /\ job[i].step = "loading" /\ version' # version => "late" \in job'[i].marks

LEMMA Marking ==
    ASSUME Shapes, NEW hit, NEW mark, NEW i \in Jobs
    PROVE  /\ i \notin hit => Marked(hit, mark)[i] = job[i]
           /\ i \in hit => Marked(hit, mark)[i] = [job[i] EXCEPT !.marks = @ \cup {mark}]
           /\ Marked(hit, mark) = [k \in Jobs |-> Marked(hit, mark)[k]]
BY DEF Marked

LEMMA MarkedSame ==
    ASSUME Shapes, NEW mark, NEW i \in Jobs, job[i] # Idle,
           job'[i] = [job[i] EXCEPT !.marks = @ \cup {mark}]
    PROVE  Same(i) /\ mark \in job'[i].marks
<1>1. IsJob(job[i])
  BY DEF Shapes
<1> QED
  BY <1>1 DEF Same, IsJob

LEMMA UnchangedSame ==
    ASSUME Shapes, NEW i \in Jobs, job'[i] = job[i]
    PROVE  Same(i)
BY DEF Shapes, Same

\* A function begins, and the others do not notice.
LEMMA Beginning ==
    ASSUME Shapes, NEW j \in Jobs, NEW new, Begin(j, new), radar' = radar
    PROVE  /\ job[j] = Idle /\ Becomes(j, new) /\ job'[j] = new
           /\ \A i \in Jobs \ {j} : Bystander(i)
           /\ UNCHANGED <<services, missed, strayed>>
<1>1. /\ job[j] = Idle /\ job' = [job EXCEPT ![j] = new]
      /\ UNCHANGED <<services, missed, strayed>>
  BY DEF Begin
<1>2. \A i \in Jobs \ {j} : job'[i] = job[i]
  BY <1>1 DEF Shapes
<1>3. Becomes(j, new) /\ job'[j] = new
  BY <1>1 DEF Becomes, Shapes
<1> QED
  BY <1>1, <1>2, <1>3, UnchangedSame DEF Bystander, services

\* A function goes on or returns without assigning radar or writing.
LEMMA Going ==
    ASSUME Shapes, NEW j \in Jobs, NEW new, job' = [job EXCEPT ![j] = new],
           UNCHANGED <<radar, version>>
    PROVE  /\ Becomes(j, new) /\ job'[j] = new
           /\ \A i \in Jobs \ {j} : Bystander(i)
<1>1. \A i \in Jobs \ {j} : job'[i] = job[i]
  BY DEF Shapes
<1>2. Becomes(j, new) /\ job'[j] = new
  BY DEF Becomes, Shapes
<1> QED
  BY <1>1, <1>2, UnchangedSame DEF Bystander

\* A function returns, having assigned radar.
LEMMA Replacing ==
    ASSUME Shapes, NEW j \in Jobs, Replaces(j), version' = version
    PROVE  /\ Becomes(j, Idle) /\ job'[j] = Idle
           /\ \A i \in Jobs \ {j} : Bystander(i)
<1> DEFINE hit == {i \in Jobs : job[i].kind = "select"}
<1>1. job' = [Marked(hit, "replaced") EXCEPT ![j] = Idle]
  BY DEF Replaces
<1>2. Becomes(j, Idle) /\ job'[j] = Idle
  BY <1>1 DEF Becomes, Marked
<1>3. ASSUME NEW i \in Jobs \ {j} PROVE Bystander(i)
  <2>1. job'[i] = Marked(hit, "replaced")[i]
    BY <1>1, <1>3, Marking
  <2>2. CASE job[i].kind = "select"
    <3>1. job'[i] = [job[i] EXCEPT !.marks = @ \cup {"replaced"}] /\ job[i] # Idle
      BY <2>1, <2>2, Marking, IdleFields
    <3> QED
      BY <3>1, MarkedSame DEF Bystander
  <2>3. CASE job[i].kind # "select"
    <3>1. job'[i] = job[i]
      BY <2>1, <2>3 DEF Marked
    <3> QED
      BY <2>3, <3>1, UnchangedSame DEF Bystander
  <2> QED
    BY <2>2, <2>3
<1> QED
  BY <1>2, <1>3

\* A write, by function j or by none.
LEMMA WriteMarks ==
    ASSUME Shapes, NEW i \in Jobs, job'[i] = AfterWrite[i], radar' = radar
    PROVE  Bystander(i)
<1> DEFINE hit == {k \in Jobs : version' # version /\ job[k].step = "loading"}
<1>1. job'[i] = Marked(hit, "late")[i]
  BY DEF AfterWrite
<1>2. CASE i \in hit
  <2>1. job'[i] = [job[i] EXCEPT !.marks = @ \cup {"late"}] /\ job[i] # Idle
    BY <1>1, <1>2, Marking, IdleFields
  <2> QED
    BY <2>1, MarkedSame DEF Bystander
<1>3. CASE i \notin hit
  <2>1. job'[i] = job[i]
    BY <1>1, <1>3 DEF Marked
  <2> QED
    BY <1>3, <2>1, UnchangedSame DEF Bystander
<1> QED
  BY <1>2, <1>3

LEMMA WritingOn ==
    ASSUME Shapes, NEW j \in Jobs, NEW new, job' = [AfterWrite EXCEPT ![j] = new], radar' = radar
    PROVE  /\ Becomes(j, new) /\ job'[j] = new
           /\ \A i \in Jobs \ {j} : Bystander(i)
<1>1. AfterWrite = [k \in Jobs |-> AfterWrite[k]]
  BY DEF AfterWrite, Marked
<1>2. Becomes(j, new) /\ job'[j] = new
  BY <1>1 DEF Becomes
<1>3. \A i \in Jobs \ {j} : job'[i] = AfterWrite[i]
  BY <1>1
<1> QED
  BY <1>2, <1>3, WriteMarks

-----------------------------------------------------------------------------
(* What each function's steps do to its job *)

Steps(j) ==
    /\ Becomes(j, job'[j]) /\ IsJob(job'[j]) /\ Phases(job'[j])
    /\ \A i \in Jobs \ {j} : Bystander(i)

\* A function begins.
Starts(j, kind, choice, marks) ==
    /\ job[j] = Idle /\ Steps(j)
    /\ job'[j].kind = kind /\ job'[j].step = "asked" /\ job'[j].of = id'
    /\ job'[j].choice = choice /\ job'[j].marks = marks
    /\ job'[j].context = NoContext /\ job'[j].report = NoReport /\ job'[j].read = {}
    /\ UNCHANGED <<services, missed, strayed>>

\* It goes on, for the same customer and about the same option.
Keeps(j) ==
    /\ Steps(j)
    /\ job'[j].kind = job[j].kind /\ job'[j].choice = job[j].choice
    /\ job'[j].of = job[j].of /\ job'[j].marks = job[j].marks

\* It calls load().
Loads(j) ==
    /\ Steps(j)
    /\ job'[j].kind = job[j].kind /\ job'[j].choice = job[j].choice
    /\ job'[j].marks = job[j].marks /\ job'[j].read = job[j].read
    /\ job'[j].context = job[j].context /\ job'[j].report = job[j].report
    /\ job'[j].step = "loading" /\ job'[j].of = id

\* It returns.
Finishes(j) == Steps(j) /\ job'[j] = Idle

\* new is what a function begins with.
Fresh(new, kind, choice, marks) ==
    /\ IsJob(new) /\ Phases(new)
    /\ new.kind = kind /\ new.step = "asked" /\ new.of = id' /\ new.choice = choice
    /\ new.marks = marks /\ new.context = NoContext /\ new.report = NoReport
    /\ new.read = {}

LEMMA BeginStarts ==
    ASSUME Shapes, NEW j \in Jobs, NEW kind, NEW choice, NEW marks, NEW new,
           Fresh(new, kind, choice, marks), Begin(j, new), radar' = radar
    PROVE  Starts(j, kind, choice, marks)
<1>1. /\ job[j] = Idle /\ Becomes(j, new) /\ job'[j] = new
      /\ \A i \in Jobs \ {j} : Bystander(i)
      /\ UNCHANGED <<services, missed, strayed>>
  BY Beginning
<1> QED
  BY <1>1 DEF Starts, Steps, Fresh

LEMMA StartFacts ==
    ASSUME Shapes, NEW j \in Jobs
    PROVE  /\ Login(j) => Starts(j, "login", NoChoice, {})
           /\ Scan(j) => Starts(j, "scan", NoChoice, {})
           /\ Select(j) => \E o \in radar.options :
                              Starts(j, "select", Choice(radar, o),
                                     IF "report" \in strayed THEN {"stray"} ELSE {})
           /\ Prepare(j) => Starts(j, "prepare",
                                   Choice([of |-> id, number |-> starts, options |-> {Direct},
                                           free |-> {}], Direct), {})
           /\ Submit(j) => Starts(j, "submit", NoChoice, {})
           /\ Confirm(j) => Starts(j, "answer", modal.choice, modal.marks \cap {"stray"})
<1> USE DEF Fresh, Asked, Idle, IsJob, Phases, Kinds, Loaders
<1>1. ASSUME Login(j) PROVE Starts(j, "login", NoChoice, {})
  <2>1. PICK new : new = [Asked("login") EXCEPT !.of = id']
    OBVIOUS
  <2>2. Fresh(new, "login", NoChoice, {})
    BY <2>1
  <2>3. Begin(j, new) /\ radar' = radar
    BY <1>1, <2>1 DEF Login
  <2> QED
    BY <2>2, <2>3, BeginStarts
<1>2. ASSUME Scan(j) PROVE Starts(j, "scan", NoChoice, {})
  <2>1. PICK new : new = Asked("scan")
    OBVIOUS
  <2>2. Begin(j, new) /\ radar' = radar /\ id' = id
    BY <1>2, <2>1 DEF Scan
  <2>3. Fresh(new, "scan", NoChoice, {})
    BY <2>1, <2>2
  <2> QED
    BY <2>2, <2>3, BeginStarts
<1>3. ASSUME Submit(j) PROVE Starts(j, "submit", NoChoice, {})
  <2>1. PICK new : new = Asked("submit")
    OBVIOUS
  <2>2. Begin(j, new) /\ radar' = radar /\ id' = id
    BY <1>3, <2>1 DEF Submit, shown
  <2>3. Fresh(new, "submit", NoChoice, {})
    BY <2>1, <2>2
  <2> QED
    BY <2>2, <2>3, BeginStarts
<1>4. ASSUME Select(j)
      PROVE  \E o \in radar.options :
                Starts(j, "select", Choice(radar, o), IF "report" \in strayed THEN {"stray"} ELSE {})
  <2>0. PICK marks : marks = IF "report" \in strayed THEN {"stray"} ELSE {}
    OBVIOUS
  <2>1. PICK o \in radar.options :
           Begin(j, [Asked("select") EXCEPT !.choice = Choice(radar, o), !.marks = marks])
    BY <1>4, <2>0 DEF Select
  <2>2. PICK new : new = [Asked("select") EXCEPT !.choice = Choice(radar, o), !.marks = marks]
    OBVIOUS
  <2>3. Begin(j, new) /\ radar' = radar /\ id' = id
    BY <1>4, <2>1, <2>2 DEF Select, shown
  <2>4. Fresh(new, "select", Choice(radar, o), marks)
    BY <2>2, <2>3
  <2>5. Starts(j, "select", Choice(radar, o), marks)
    BY <2>3, <2>4, BeginStarts
  <2> QED
    BY <2>0, <2>5
<1>5. ASSUME Prepare(j)
      PROVE  Starts(j, "prepare", Choice([of |-> id, number |-> starts, options |-> {Direct},
                                          free |-> {}], Direct), {})
  <2>1. PICK choice :
           choice = Choice([of |-> id, number |-> starts, options |-> {Direct}, free |-> {}], Direct)
    OBVIOUS
  <2>2. PICK new : new = [Asked("prepare") EXCEPT !.choice = choice]
    OBVIOUS
  <2>3. Begin(j, new) /\ radar' = radar /\ id' = id
    BY <1>5, <2>1, <2>2 DEF Prepare, shown
  <2>4. Fresh(new, "prepare", choice, {})
    BY <2>2, <2>3
  <2>5. Starts(j, "prepare", choice, {})
    BY <2>3, <2>4, BeginStarts
  <2> QED
    BY <2>1, <2>5
<1>6. ASSUME Confirm(j) PROVE Starts(j, "answer", modal.choice, modal.marks \cap {"stray"})
  <2>1. PICK yes \in BOOLEAN :
           Begin(j, [Asked("answer") EXCEPT !.choice = modal.choice, !.yes = yes,
                                            !.marks = modal.marks \cap {"stray"}])
    BY <1>6 DEF Confirm
  <2>2. PICK new : new = [Asked("answer") EXCEPT !.choice = modal.choice, !.yes = yes,
                                                 !.marks = modal.marks \cap {"stray"}]
    OBVIOUS
  <2>3. Begin(j, new) /\ radar' = radar /\ id' = id
    BY <1>6, <2>1, <2>2 DEF Confirm, shown
  <2>4. Fresh(new, "answer", modal.choice, modal.marks \cap {"stray"})
    BY <2>2, <2>3
  <2> QED
    BY <2>3, <2>4, BeginStarts
<1> QED
  BY <1>1, <1>2, <1>3, <1>4, <1>5, <1>6

\* Each kind of step that goes on.
LEMMA GoFacts ==
    ASSUME Shapes, NEW j \in Jobs, NEW new, job' = [job EXCEPT ![j] = new],
           UNCHANGED <<radar, version>>, IsJob(new), Phases(new)
    PROVE  Steps(j) /\ job'[j] = new
BY Going DEF Steps

LEMMA ScanFacts ==
    ASSUME Shapes, NEW j \in Jobs
    PROVE  /\ ScanStarted(j) \/ StillRunning(j) =>
                /\ Keeps(j) /\ job[j].kind = "scan" /\ job'[j].step = "running"
                /\ job'[j].context = job[j].context /\ job'[j].report = job[j].report
           /\ ScanCompletes(j) =>
                /\ Keeps(j) /\ job[j].kind = "scan" /\ job'[j].step = "completed"
                /\ job'[j].context = job[j].context
                /\ \E offer \in Offers :
                      LET report == Report(job[j].of, offer)
                      IN Stored(report) /\ job'[j].report = report
<1>0. IsJob(job[j]) /\ Phases(job[j]) /\ job = [i \in Jobs |-> job[i]]
  BY DEF Shapes
<1>1. ASSUME ScanStarted(j)
      PROVE  /\ Keeps(j) /\ job[j].kind = "scan" /\ job'[j].step = "running"
             /\ job'[j].context = job[j].context /\ job'[j].report = job[j].report
  <2>1. PICK new : new = [job[j] EXCEPT !.step = "running"]
    OBVIOUS
  <2>2. /\ job' = [job EXCEPT ![j] = new] /\ UNCHANGED <<radar, version>>
        /\ job[j].kind = "scan" /\ job[j].step = "asked"
    BY <1>0, <1>1, <2>1 DEF ScanStarted, At, shown, services
  <2>3. /\ IsJob(new) /\ Phases(new) /\ new.kind = job[j].kind /\ new.choice = job[j].choice
        /\ new.of = job[j].of /\ new.marks = job[j].marks /\ new.context = job[j].context
        /\ new.report = job[j].report /\ new.step = "running"
    BY <1>0, <2>1, <2>2 DEF IsJob, Phases, Loaders, Kinds
  <2>4. Steps(j) /\ job'[j] = new
    BY <2>2, <2>3, GoFacts
  <2> QED
    BY <2>2, <2>3, <2>4 DEF Keeps
<1>2. ASSUME StillRunning(j)
      PROVE  /\ Keeps(j) /\ job[j].kind = "scan" /\ job'[j].step = "running"
             /\ job'[j].context = job[j].context /\ job'[j].report = job[j].report
  <2>1. PICK n : n = IF job[j].attempt < Attempts THEN job[j].attempt + 1 ELSE job[j].attempt
    OBVIOUS
  <2>2. PICK new : new = [job[j] EXCEPT !.attempt = n]
    OBVIOUS
  <2>3. /\ job' = [job EXCEPT ![j] = new] /\ UNCHANGED <<radar, version>>
        /\ job[j].kind = "scan" /\ job[j].step = "running"
    BY <1>0, <1>2, <2>1, <2>2 DEF StillRunning, At, shown, services
  <2>4. /\ IsJob(new) /\ Phases(new) /\ new.kind = job[j].kind /\ new.choice = job[j].choice
        /\ new.of = job[j].of /\ new.marks = job[j].marks /\ new.context = job[j].context
        /\ new.report = job[j].report /\ new.step = "running"
    BY <1>0, <2>2, <2>3 DEF IsJob, Phases, Loaders, Kinds
  <2>5. Steps(j) /\ job'[j] = new
    BY <2>3, <2>4, GoFacts
  <2> QED
    BY <2>3, <2>4, <2>5 DEF Keeps
<1>3. ASSUME ScanCompletes(j)
      PROVE  /\ Keeps(j) /\ job[j].kind = "scan" /\ job'[j].step = "completed"
             /\ job'[j].context = job[j].context
             /\ \E offer \in Offers :
                   LET report == Report(job[j].of, offer)
                   IN Stored(report) /\ job'[j].report = report
  <2>1. PICK offer \in Offers :
           /\ Stored(Report(job[j].of, offer))
           /\ job' = [job EXCEPT ![j].step = "completed", ![j].report = Report(job[j].of, offer)]
    BY <1>3 DEF ScanCompletes
  <2>2. PICK report : report = Report(job[j].of, offer)
    OBVIOUS
  <2>3. PICK new : new = [job[j] EXCEPT !.step = "completed", !.report = report]
    OBVIOUS
  <2>4. /\ job' = [job EXCEPT ![j] = new] /\ UNCHANGED <<radar, version>>
        /\ job[j].kind = "scan" /\ job[j].step = "running"
    BY <1>0, <1>3, <2>1, <2>2, <2>3 DEF ScanCompletes, At, shown
  <2>5. /\ IsJob(new) /\ Phases(new) /\ new.kind = job[j].kind /\ new.choice = job[j].choice
        /\ new.of = job[j].of /\ new.marks = job[j].marks /\ new.context = job[j].context
        /\ new.report = report /\ new.step = "completed"
    BY <1>0, <2>3, <2>4 DEF IsJob, Phases, Loaders, Kinds
  <2>6. Steps(j) /\ job'[j] = new
    BY <2>4, <2>5, GoFacts
  <2> QED
    BY <2>1, <2>2, <2>4, <2>5, <2>6 DEF Keeps
<1> QED
  BY <1>1, <1>2, <1>3

LEMMA LoadingKind ==
    ASSUME NEW r, Phases(r), r.step = "loading"
    PROVE  r.kind \in Loaders
BY IdleFields DEF Phases, Kinds, Loaders

LEMMA ReadFacts ==
    ASSUME Shapes, NEW j \in Jobs
    PROVE  /\ ReadContext(j) =>
                /\ Keeps(j) /\ job[j].step = "loading" /\ job'[j].step = "loading"
                /\ job'[j].read = job[j].read \cup {"context"}
                /\ job'[j].report = job[j].report
                /\ job'[j].context = [of |-> job[j].of, version |-> version[job[j].of]]
           /\ ReadLatest(j) =>
                /\ Keeps(j) /\ job[j].step = "loading" /\ job'[j].step = "loading"
                /\ job'[j].read = job[j].read \cup {"latest"}
                /\ job'[j].context = job[j].context
                /\ \/ job'[j].report = NoReport
                   \/ job[j].of # None /\ job'[j].report = latest[job[j].of]
<1>0. IsJob(job[j]) /\ Phases(job[j]) /\ job = [i \in Jobs |-> job[i]]
  BY DEF Shapes
<1>1. ASSUME ReadContext(j)
      PROVE  /\ Keeps(j) /\ job[j].step = "loading" /\ job'[j].step = "loading"
             /\ job'[j].read = job[j].read \cup {"context"}
             /\ job'[j].report = job[j].report
             /\ job'[j].context = [of |-> job[j].of, version |-> version[job[j].of]]
  <2>1. PICK context : context = [of |-> job[j].of, version |-> version[job[j].of]]
    OBVIOUS
  <2>2. PICK new : new = [job[j] EXCEPT !.read = @ \cup {"context"}, !.context = context]
    OBVIOUS
  <2>3. /\ job' = [job EXCEPT ![j] = new] /\ UNCHANGED <<radar, version>>
        /\ job[j].step = "loading" /\ job[j].kind \in Loaders
    BY <1>0, <1>1, <2>1, <2>2, LoadingKind DEF ReadContext, shown, services
  <2>4. /\ IsJob(new) /\ Phases(new) /\ new.kind = job[j].kind /\ new.choice = job[j].choice
        /\ new.of = job[j].of /\ new.marks = job[j].marks /\ new.context = context
        /\ new.report = job[j].report /\ new.step = "loading"
        /\ new.read = job[j].read \cup {"context"}
    BY <1>0, <2>2, <2>3 DEF IsJob, Phases, Loaders, Kinds
  <2>5. Steps(j) /\ job'[j] = new
    BY <2>3, <2>4, GoFacts
  <2> QED
    BY <2>1, <2>3, <2>4, <2>5 DEF Keeps
<1>2. ASSUME ReadLatest(j)
      PROVE  /\ Keeps(j) /\ job[j].step = "loading" /\ job'[j].step = "loading"
             /\ job'[j].read = job[j].read \cup {"latest"}
             /\ job'[j].context = job[j].context
             /\ \/ job'[j].report = NoReport
                \/ job[j].of # None /\ job'[j].report = latest[job[j].of]
  <2>1. PICK report : /\ \/ report = NoReport
                         \/ job[j].of # None /\ report = latest[job[j].of]
                      /\ job' = [job EXCEPT ![j].read = @ \cup {"latest"}, ![j].report = report]
    BY <1>2 DEF ReadLatest
  <2>2. PICK new : new = [job[j] EXCEPT !.read = @ \cup {"latest"}, !.report = report]
    OBVIOUS
  <2>3. /\ job' = [job EXCEPT ![j] = new] /\ UNCHANGED <<radar, version>>
        /\ job[j].step = "loading" /\ job[j].kind \in Loaders
    BY <1>0, <1>2, <2>1, <2>2, LoadingKind DEF ReadLatest, shown, services
  <2>4. /\ IsJob(new) /\ Phases(new) /\ new.kind = job[j].kind /\ new.choice = job[j].choice
        /\ new.of = job[j].of /\ new.marks = job[j].marks /\ new.context = job[j].context
        /\ new.report = report /\ new.step = "loading"
        /\ new.read = job[j].read \cup {"latest"}
    BY <1>0, <2>2, <2>3 DEF IsJob, Phases, Loaders, Kinds
  <2>5. Steps(j) /\ job'[j] = new
    BY <2>3, <2>4, GoFacts
  <2> QED
    BY <2>1, <2>3, <2>4, <2>5 DEF Keeps
<1> QED
  BY <1>1, <1>2

LEMMA LoadsFacts ==
    ASSUME Shapes, NEW j \in Jobs
    PROVE  /\ LoggedIn(j) => At(j, "login", "asked") /\ Loads(j)
           /\ Applied(j) => Writing(j) /\ Loads(j)
<1>0. IsJob(job[j]) /\ Phases(job[j]) /\ job = [i \in Jobs |-> job[i]]
  BY DEF Shapes
<1>1. PICK new : new = [job[j] EXCEPT !.step = "loading", !.of = id]
  OBVIOUS
<1>2. ASSUME job[j].kind \in Loaders
      PROVE  /\ IsJob(new) /\ Phases(new) /\ new.kind = job[j].kind /\ new.choice = job[j].choice
             /\ new.of = id /\ new.marks = job[j].marks /\ new.context = job[j].context
             /\ new.report = job[j].report /\ new.step = "loading" /\ new.read = job[j].read
  BY <1>0, <1>1, <1>2 DEF IsJob, Phases, Loaders, Kinds
<1>3. ASSUME LoggedIn(j) PROVE At(j, "login", "asked") /\ Loads(j)
  <2>1. /\ job' = [job EXCEPT ![j] = new] /\ UNCHANGED <<radar, version>>
        /\ At(j, "login", "asked")
    BY <1>0, <1>1, <1>3 DEF LoggedIn, LoadsIn, services
  <2>2. job[j].kind \in Loaders
    BY <2>1 DEF At, Loaders
  <2>3. Steps(j) /\ job'[j] = new
    BY <1>2, <2>1, <2>2, GoFacts
  <2> QED
    BY <1>2, <2>1, <2>2, <2>3 DEF Loads
<1>4. ASSUME Applied(j) PROVE Writing(j) /\ Loads(j)
  <2>1. Writing(j) /\ radar' = radar /\ LoadsIn(AfterWrite, j)
    BY <1>4 DEF Applied
  <2>2. job[j].kind \in Loaders /\ job[j].step = "asked"
    BY <2>1 DEF Writing, Loaders
  <2>3. AfterWrite[j] = job[j] /\ AfterWrite = [k \in Jobs |-> AfterWrite[k]]
    BY <2>2 DEF AfterWrite, Marked
  <2>4. job' = [AfterWrite EXCEPT ![j] = new]
    BY <1>1, <2>1, <2>3 DEF LoadsIn
  <2>5. Becomes(j, new) /\ job'[j] = new /\ \A i \in Jobs \ {j} : Bystander(i)
    BY <2>1, <2>4, WritingOn
  <2> QED
    BY <1>2, <2>1, <2>2, <2>5 DEF Loads, Steps
<1> QED
  BY <1>3, <1>4

LEMMA FinishFacts ==
    ASSUME Shapes, NEW j \in Jobs
    PROVE  /\ ShowReport(j) \/ GiveUp(j) \/ ScanFails(j) => Finishes(j)
           /\ Loaded(j) \/ LoadFails(j) \/ Refused(j) => Finishes(j)
           /\ Prepared(j) \/ PreparedUnheard(j) \/ AppliedUnheard(j) => Finishes(j)
<1>1. ASSUME Returns(j), UNCHANGED <<radar, version>> PROVE Finishes(j)
  BY <1>1, IdleFields, GoFacts DEF Returns, Finishes
<1>2. ASSUME GiveUp(j) \/ ScanFails(j) \/ LoadFails(j) \/ Refused(j) PROVE Finishes(j)
  BY <1>1, <1>2 DEF GiveUp, ScanFails, ShowError, LoadFails, Refused, shown, services
<1>3. ASSUME ShowReport(j) \/ Loaded(j) PROVE Finishes(j)
  <2>1. Replaces(j) /\ version' = version
    BY <1>3 DEF ShowReport, Loaded, services
  <2> QED
    BY <2>1, Replacing, IdleFields DEF Finishes, Steps
<1>4. ASSUME Prepared(j) \/ PreparedUnheard(j) \/ AppliedUnheard(j) PROVE Finishes(j)
  <2>1. job' = [AfterWrite EXCEPT ![j] = Idle] /\ radar' = radar
    BY <1>4 DEF Prepared, PreparedUnheard, AppliedUnheard, shown
  <2> QED
    BY <2>1, WritingOn, IdleFields DEF Finishes, Steps
<1> QED
  BY <1>2, <1>3, <1>4

\* Steps of no function; those that are under way when somebody logs out stray.
LEMMA NobodysFacts ==
    ASSUME Shapes, UNCHANGED vars \/ OpenForm \/ CloseModal \/ ScheduledScan \/ LandsLate \/ Logout
    PROVE  /\ job' = [i \in Jobs |-> job'[i]]
           /\ \A i \in Jobs : Bystander(i)
           /\ Logout => \A i \in Jobs : job[i] # Idle => Stray(job'[i])
<1>1. CASE UNCHANGED vars \/ OpenForm \/ CloseModal \/ ScheduledScan
  <2>1. job' = job /\ radar' = radar /\ version' = version
    BY <1>1 DEF vars, shown, services, OpenForm, CloseModal, ScheduledScan
  <2>2. ~Logout \/ \A i \in Jobs : job[i] # Idle => Stray(job'[i])
    BY <1>1, <2>1 DEF vars, shown, OpenForm, CloseModal, ScheduledScan, Logout
  <2> QED
    BY <2>1, <2>2, UnchangedSame DEF Bystander, Shapes
<1>2. CASE LandsLate
  <2>1. job' = AfterWrite /\ radar' = radar /\ open' = open
    BY <1>2 DEF LandsLate, shown
  <2>2. job' = [i \in Jobs |-> job'[i]]
    BY <2>1 DEF AfterWrite, Marked
  <2> QED
    BY <2>1, <2>2, WriteMarks DEF Logout
<1>3. CASE Logout
  <2> DEFINE hit == {i \in Jobs : job[i] # Idle}
  <2>1. job' = Marked(hit, "stray") /\ version' = version
    BY <1>3 DEF Logout, services
  <2>2. job' = [i \in Jobs |-> job'[i]]
    BY <2>1 DEF Marked
  <2>3. ASSUME NEW i \in Jobs PROVE Bystander(i) /\ (job[i] # Idle => Stray(job'[i]))
    <3>1. CASE job[i] # Idle
      <4>1. job'[i] = [job[i] EXCEPT !.marks = @ \cup {"stray"}]
        BY <2>1, <3>1 DEF Marked
      <4> QED
        BY <2>1, <3>1, <4>1, MarkedSame DEF Bystander, Stray
    <3>2. CASE job[i] = Idle
      <4>1. job'[i] = job[i]
        BY <2>1, <3>2 DEF Marked
      <4> QED
        BY <2>1, <3>2, <4>1, UnchangedSame, IdleFields DEF Bystander
    <3> QED
      BY <3>1, <3>2
  <2> QED
    BY <2>2, <2>3
<1> QED
  BY <1>1, <1>2, <1>3

-----------------------------------------------------------------------------
(* Who steps *)

LEMMA SamePhases ==
    ASSUME NEW i \in Jobs, IsJob(job[i]), Phases(job[i]), Same(i)
    PROVE  IsJob(job'[i]) /\ Phases(job'[i])
BY IdleFields DEF Same, Phases, Kinds, Loaders

Action(j) ==
    \/ Login(j) \/ Scan(j) \/ Select(j) \/ Prepare(j) \/ Submit(j) \/ Confirm(j)
    \/ ScanStarted(j) \/ ScanCompletes(j) \/ StillRunning(j)
    \/ ShowReport(j) \/ GiveUp(j) \/ ScanFails(j)
    \/ ReadContext(j) \/ ReadLatest(j) \/ Loaded(j) \/ LoadFails(j)
    \/ LoggedIn(j) \/ Prepared(j) \/ PreparedUnheard(j)
    \/ Applied(j) \/ AppliedUnheard(j) \/ Refused(j)

LEMMA ActionSteps ==
    ASSUME Shapes, NEW j \in Jobs, Action(j)
    PROVE  Steps(j)
<1>1. CASE Login(j) \/ Scan(j) \/ Select(j) \/ Prepare(j) \/ Submit(j) \/ Confirm(j)
  BY <1>1, StartFacts DEF Starts
<1>2. CASE ScanStarted(j) \/ ScanCompletes(j) \/ StillRunning(j)
  BY <1>2, ScanFacts DEF Keeps
<1>3. CASE ReadContext(j) \/ ReadLatest(j)
  BY <1>3, ReadFacts DEF Keeps
<1>4. CASE LoggedIn(j) \/ Applied(j)
  BY <1>4, LoadsFacts DEF Loads
<1>5. CASE \/ ShowReport(j) \/ GiveUp(j) \/ ScanFails(j) \/ Loaded(j) \/ LoadFails(j)
           \/ Prepared(j) \/ PreparedUnheard(j) \/ AppliedUnheard(j) \/ Refused(j)
  BY <1>5, FinishFacts DEF Finishes
<1> QED
  BY <1>1, <1>2, <1>3, <1>4, <1>5 DEF Action

LEMMA ShapesInit == Init => Shapes
BY IdleFields DEF Init, Shapes

LEMMA ShapesStep == Shapes /\ [Next]_vars => Shapes'
<1> SUFFICES ASSUME Shapes, [Next]_vars PROVE Shapes'
  OBVIOUS
<1>1. CASE UNCHANGED vars \/ OpenForm \/ CloseModal \/ ScheduledScan \/ LandsLate \/ Logout
  BY <1>1, NobodysFacts, SamePhases DEF Shapes, Bystander, Same
<1>2. ASSUME NEW j \in Jobs, Action(j) PROVE Shapes'
  <2>1. Steps(j)
    BY <1>2, ActionSteps
  <2>2. job' = [i \in Jobs |-> job'[i]]
    BY <2>1 DEF Steps, Becomes
  <2>3. \A i \in Jobs : IsJob(job'[i]) /\ Phases(job'[i])
    BY <2>1, SamePhases DEF Steps, Bystander, Shapes
  <2> QED
    BY <2>2, <2>3 DEF Shapes
<1> QED
  BY <1>1, <1>2 DEF Next, Action

-----------------------------------------------------------------------------
(* Whose data is kept *)

OwnReports ==
    /\ latest = [c \in Customers |-> latest[c]]
    /\ \A c \in Customers : latest[c].of \in {c, None}

\* The login form is shown until the only login is answered.
LoginSafe ==
    /\ id \in Customers \cup {None}
    /\ \A j \in Jobs : At(j, "login", "asked") => ~open
    /\ \A i, j \in Jobs : job[i].kind = "login" /\ job[j].kind = "login" => i = j

\* Behind the login form there is nothing but that login and what strays.
OwnJob(j) ==
    job[j] # Idle /\ ~Stray(job[j]) =>
        /\ job[j].of = id
        /\ job[j].choice.report.of \in {id, None}
        /\ job[j].context.of \in {id, None}
        /\ job[j].report.of \in {id, None}
        /\ ~open => At(j, "login", "asked")

Whose == IF open THEN {id, None} ELSE {None}

OwnContext == "context" \notin strayed => ctx.of \in Whose
OwnReport == "report" \notin strayed => radar.of \in Whose
OwnSheet ==
    ~Stray(modal) => /\ modal.choice.report.of \in Whose
                     /\ ~open => modal.kind = "none"

OwnShown == OwnContext /\ OwnReport /\ OwnSheet

OwnSafe ==
    /\ OwnReports
    /\ LoginSafe
    /\ \A j \in Jobs : OwnJob(j)
    /\ OwnShown

LEMMA OwnInit == Init => OwnSafe
BY Nothings, IdleFields
   DEF Init, OwnSafe, OwnReports, LoginSafe, OwnJob, OwnShown, OwnContext, OwnReport, OwnSheet,
       Whose, At

LEMMA StoredReports ==
    ASSUME OwnReports, NEW report, Stored(report)
    PROVE  OwnReports'
<1>1. latest' = [latest EXCEPT ![report.of] = report]
  BY DEF Stored
<1>2. latest' = [c \in Customers |-> IF c = report.of THEN report ELSE latest[c]]
  BY <1>1 DEF OwnReports
<1> QED
  BY <1>2 DEF OwnReports

LEMMA OwnKept ==
    ASSUME NEW i \in Jobs, OwnJob(i), Same(i), id' = id, open => open'
    PROVE  OwnJob(i)'
BY DEF OwnJob, Same, Stray, At

LEMMA LoginKept ==
    ASSUME LoginSafe, NEW j \in Jobs, Steps(j), UNCHANGED <<id, open>>,
           job'[j].kind = "login" => job[j].kind = "login",
           At(j, "login", "asked")' => At(j, "login", "asked")
    PROVE  LoginSafe'
<1>1. \A i \in Jobs \ {j} : job'[i].kind = job[i].kind /\ job'[i].step = job[i].step
  BY DEF Steps, Bystander, Same
<1> QED
  BY <1>1 DEF LoginSafe, At

\* What is left to show of a step of function j while the page stays open or shut.
LEMMA OwnByStep ==
    ASSUME OwnSafe, NEW j \in Jobs, Steps(j), UNCHANGED <<id, open>>,
           job'[j].kind = "login" => job[j].kind = "login",
           At(j, "login", "asked")' => At(j, "login", "asked"),
           OwnJob(j)', OwnReports', OwnShown'
    PROVE  OwnSafe'
<1>1. LoginSafe'
  BY LoginKept DEF OwnSafe
<1>2. \A i \in Jobs \ {j} : OwnJob(i)'
  BY OwnKept DEF OwnSafe, Steps, Bystander
<1> QED
  BY <1>1, <1>2 DEF OwnSafe

LEMMA OwnStep == Shapes /\ OwnSafe /\ [Next]_vars => OwnSafe'
<1> SUFFICES ASSUME Shapes, OwnSafe, [Next]_vars PROVE OwnSafe'
  OBVIOUS
<1>0. /\ OwnReports /\ LoginSafe /\ OwnShown /\ \A j \in Jobs : OwnJob(j)
      /\ id \in Customers \cup {None}
  BY DEF OwnSafe, LoginSafe
<1>1. CASE UNCHANGED vars \/ OpenForm \/ CloseModal \/ ScheduledScan \/ LandsLate
  <2>1. UNCHANGED <<id, open, ctx, radar, strayed>>
    BY <1>1 DEF vars, shown, OpenForm, CloseModal, ScheduledScan, LandsLate
  <2>2. \A i \in Jobs : Same(i)
    BY <1>1, NobodysFacts DEF Bystander
  <2>3. \A i \in Jobs : OwnJob(i)'
    BY <1>0, <2>1, <2>2, OwnKept
  <2>4. LoginSafe'
    BY <1>0, <2>1, <2>2 DEF LoginSafe, Same, At
  <2>5. modal' = modal \/ modal' = NoModal \/ (open /\ modal' = Form)
    BY <1>1 DEF vars, shown, OpenForm, CloseModal, ScheduledScan, LandsLate
  <2>6. OwnShown'
    BY <1>0, <2>1, <2>5, Nothings DEF OwnShown, OwnContext, OwnReport, OwnSheet, Whose, Stray
  <2>7. OwnReports'
    <3>1. CASE ScheduledScan
      BY <1>0, <3>1, StoredReports DEF ScheduledScan
    <3>2. CASE ~ScheduledScan
      <4>1. latest' = latest
        BY <1>1, <3>2 DEF vars, services, OpenForm, CloseModal, LandsLate
      <4> QED
        BY <1>0, <4>1 DEF OwnReports
    <3> QED
      BY <3>1, <3>2
  <2> QED
    BY <2>3, <2>4, <2>6, <2>7 DEF OwnSafe
<1>2. CASE Logout
  <2>1. /\ \A i \in Jobs : Same(i) /\ (job[i] # Idle => Stray(job'[i]))
    BY <1>2, NobodysFacts DEF Bystander
  <2>2. /\ id' = None /\ ctx' = NoContext /\ radar' = NoReport /\ modal' = NoModal /\ ~open'
        /\ latest' = latest
    BY <1>2 DEF Logout, services
  <2>3. \A i \in Jobs : OwnJob(i)'
    BY <2>1 DEF OwnJob, Same
  <2>4. LoginSafe'
    BY <1>0, <2>1, <2>2 DEF LoginSafe, Same, At
  <2>5. OwnShown'
    BY <2>2, Nothings DEF OwnShown, OwnContext, OwnReport, OwnSheet, Whose
  <2>6. OwnReports'
    BY <1>0, <2>2 DEF OwnReports
  <2> QED
    BY <2>3, <2>4, <2>5, <2>6 DEF OwnSafe
<1>3. ASSUME NEW j \in Jobs, Login(j) PROVE OwnSafe'
  <2>1. Starts(j, "login", NoChoice, {})
    BY <1>3, StartFacts
  <2>2. /\ ~open /\ ~open' /\ modal = NoModal /\ UNCHANGED <<ctx, radar, modal, strayed, latest>>
        /\ id' \in Customers
        /\ \A i \in Jobs : job[i].kind # "login"
    BY <1>3, <2>1 DEF Login, Starts, services
  <2>3. ASSUME NEW i \in Jobs \ {j} PROVE OwnJob(i)' /\ job'[i].kind # "login"
    <3>1. Same(i)
      BY <2>1 DEF Starts, Steps, Bystander
    <3>2. job[i] = Idle \/ Stray(job[i])
      BY <1>0, <2>2 DEF OwnJob, At
    <3> QED
      BY <2>2, <3>1, <3>2 DEF OwnJob, Same, Stray
  <2>4. OwnJob(j)'
    BY <2>1, <2>2, Nothings DEF Starts, OwnJob, At
  <2>5. LoginSafe'
    BY <2>1, <2>2, <2>3 DEF LoginSafe, Starts
  <2>6. OwnShown'
    BY <1>0, <2>2 DEF OwnShown, OwnContext, OwnReport, OwnSheet, Whose
  <2>7. OwnReports'
    BY <1>0, <2>2 DEF OwnReports
  <2> QED
    BY <2>3, <2>4, <2>5, <2>6, <2>7 DEF OwnSafe
<1>4. ASSUME NEW j \in Jobs, Scan(j) \/ Select(j) \/ Prepare(j) \/ Submit(j) \/ Confirm(j)
      PROVE  OwnSafe'
  <2>1. PICK kind, choice, marks :
           /\ Starts(j, kind, choice, marks) /\ kind # "login"
           /\ "stray" \notin marks => open /\ choice.report.of \in {id, None}
    <3>1. ASSUME Scan(j) \/ Submit(j)
          PROVE  \E kind \in {"scan", "submit"} : Starts(j, kind, NoChoice, {}) /\ open
      <4>1. open
        BY <1>0, <3>1, Nothings DEF Scan, Submit, OwnShown, OwnSheet, Stray
      <4> QED
        BY <3>1, <4>1, StartFacts
    <3>2. ASSUME Prepare(j)
          PROVE  \E choice : Starts(j, "prepare", choice, {}) /\ open /\ choice.report.of = id
      <4>1. open
        BY <1>0, <3>2, Nothings DEF Prepare, OwnShown, OwnSheet, Stray
      <4> QED
        BY <3>2, <4>1, StartFacts DEF Choice
    <3>3. ASSUME Select(j)
          PROVE  \E o \in radar.options :
                    LET marks == IF "report" \in strayed THEN {"stray"} ELSE {}
                    IN /\ Starts(j, "select", Choice(radar, o), marks)
                       /\ "stray" \notin marks => open /\ Choice(radar, o).report.of \in {id, None}
      BY <1>0, <3>3, StartFacts DEF Select, OwnShown, OwnReport, Whose, Choice
    <3>4. ASSUME Confirm(j)
          PROVE  LET marks == modal.marks \cap {"stray"}
                 IN /\ Starts(j, "answer", modal.choice, marks)
                    /\ "stray" \notin marks => open /\ modal.choice.report.of \in {id, None}
      BY <1>0, <3>4, StartFacts DEF Confirm, OwnShown, OwnSheet, Whose, Stray
    <3> QED
      BY <1>4, <3>1, <3>2, <3>3, <3>4, Nothings
  <2>2. /\ UNCHANGED <<id, open, ctx, radar, modal, strayed, latest>>
    BY <1>4, <2>1 DEF Scan, Select, Prepare, Submit, Confirm, Starts, shown, services
  <2>3. OwnJob(j)'
    BY <2>1, <2>2, Nothings DEF Starts, OwnJob, Stray
  <2>4. OwnShown' /\ OwnReports'
    BY <1>0, <2>2 DEF OwnShown, OwnContext, OwnReport, OwnSheet, OwnReports, Whose
  <2> QED
    BY <2>1, <2>2, <2>3, <2>4, OwnByStep DEF Starts, At
<1>5. ASSUME NEW j \in Jobs,
             \/ ScanStarted(j) \/ StillRunning(j) \/ ScanCompletes(j)
             \/ ReadContext(j) \/ ReadLatest(j)
      PROVE  OwnSafe'
  <2>1. /\ Keeps(j) /\ job[j] # Idle /\ ~(At(j, "login", "asked")') /\ ~At(j, "login", "asked")
    BY <1>5, ScanFacts, ReadFacts, IdleFields DEF At
  <2>2. UNCHANGED <<id, open, ctx, radar, modal, strayed>>
    BY <1>5 DEF ScanStarted, StillRunning, ScanCompletes, ReadContext, ReadLatest, shown
  <2>3. OwnReports'
    <3>1. CASE ScanCompletes(j)
      BY <1>0, <3>1, ScanFacts, StoredReports
    <3>2. CASE ~ScanCompletes(j)
      <4>1. latest' = latest
        BY <1>5, <3>2 DEF ScanStarted, StillRunning, ReadContext, ReadLatest, services
      <4> QED
        BY <1>0, <4>1 DEF OwnReports
    <3> QED
      BY <3>1, <3>2
  <2>4. ASSUME ~Stray(job[j])
        PROVE  job'[j].context.of \in {id, None} /\ job'[j].report.of \in {id, None}
    <3>0. /\ job[j].of = id /\ job[j].context.of \in {id, None} /\ job[j].report.of \in {id, None}
      BY <1>0, <2>1, <2>4 DEF OwnJob
    <3>1. CASE ScanStarted(j) \/ StillRunning(j)
      BY <3>0, <3>1, ScanFacts
    <3>2. CASE ScanCompletes(j)
      <4>1. PICK offer \in Offers : /\ job'[j].report = Report(job[j].of, offer)
                                    /\ job'[j].context = job[j].context
        BY <3>2, ScanFacts
      <4>2. job'[j].report.of = id
        BY <3>0, <4>1 DEF Report
      <4> QED
        BY <3>0, <4>1, <4>2
    <3>3. CASE ReadContext(j)
      <4>1. /\ job'[j].context = [of |-> job[j].of, version |-> version[job[j].of]]
            /\ job'[j].report = job[j].report
        BY <3>3, ReadFacts
      <4>2. job'[j].context.of = id
        BY <3>0, <4>1
      <4> QED
        BY <3>0, <4>1, <4>2
    <3>4. CASE ReadLatest(j)
      <4>1. id \in Customers => latest[id].of \in {id, None}
        BY <1>0 DEF OwnReports
      <4> QED
        BY <1>0, <3>0, <3>4, <4>1, ReadFacts, Nothings
    <3> QED
      BY <1>5, <3>1, <3>2, <3>3, <3>4
  <2>5. OwnJob(j)'
    BY <1>0, <2>1, <2>2, <2>4 DEF OwnJob, Keeps, Stray
  <2>6. OwnShown'
    BY <1>0, <2>2 DEF OwnShown, OwnContext, OwnReport, OwnSheet, Whose
  <2> QED
    BY <2>1, <2>2, <2>3, <2>5, <2>6, OwnByStep DEF Keeps
<1>6. ASSUME NEW j \in Jobs, LoggedIn(j) PROVE OwnSafe'
  <2>1. At(j, "login", "asked") /\ Loads(j)
    BY <1>6, LoadsFacts
  <2>2. open' /\ ~open /\ UNCHANGED <<id, ctx, radar, modal, strayed, latest>>
    BY <1>0, <1>6, <2>1 DEF LoggedIn, LoginSafe, services
  <2>3. \A i \in Jobs \ {j} : Same(i)
    BY <2>1 DEF Loads, Steps, Bystander
  <2>4. \A i \in Jobs \ {j} : OwnJob(i)'
    BY <1>0, <2>2, <2>3, OwnKept
  <2>5. OwnJob(j)'
    BY <1>0, <2>1, <2>2, IdleFields DEF OwnJob, Loads, At, Stray
  <2>6. LoginSafe'
    BY <1>0, <2>1, <2>2, <2>3 DEF LoginSafe, Same, Loads, At
  <2>7. OwnShown' /\ OwnReports'
    BY <1>0, <2>2 DEF OwnShown, OwnContext, OwnReport, OwnSheet, OwnReports, Whose
  <2> QED
    BY <2>4, <2>5, <2>6, <2>7 DEF OwnSafe
<1>7. ASSUME NEW j \in Jobs, Applied(j) PROVE OwnSafe'
  <2>1. Writing(j) /\ Loads(j)
    BY <1>7, LoadsFacts
  <2>2. /\ UNCHANGED <<id, open, ctx, radar, strayed, latest>>
        /\ modal' \in {modal, NoModal}
    BY <1>7 DEF Applied
  <2>3. OwnJob(j)'
    BY <1>0, <2>1, <2>2, IdleFields DEF OwnJob, Loads, Writing, At, Stray
  <2>4. OwnShown' /\ OwnReports'
    BY <1>0, <2>2, Nothings DEF OwnShown, OwnContext, OwnReport, OwnSheet, OwnReports, Whose
  <2> QED
    BY <2>1, <2>2, <2>3, <2>4, OwnByStep DEF Loads, Writing, At
<1>8. ASSUME NEW j \in Jobs,
             \/ ShowReport(j) \/ GiveUp(j) \/ ScanFails(j) \/ Loaded(j) \/ LoadFails(j)
             \/ Prepared(j) \/ PreparedUnheard(j) \/ AppliedUnheard(j) \/ Refused(j)
      PROVE  OwnSafe'
  <2>1. Finishes(j)
    BY <1>8, FinishFacts
  <2>2. OwnJob(j)' /\ job'[j].kind # "login" /\ ~(At(j, "login", "asked")')
    BY <2>1, IdleFields DEF Finishes, OwnJob, At
  <2>3. UNCHANGED <<id, open, latest>>
    BY <1>8 DEF ShowReport, GiveUp, ScanFails, ShowError, Loaded, LoadFails, Prepared,
                PreparedUnheard, AppliedUnheard, Refused, shown, services
  <2>4. OwnShown'
    <3>1. CASE GiveUp(j) \/ ScanFails(j) \/ LoadFails(j) \/ PreparedUnheard(j)
               \/ AppliedUnheard(j) \/ Refused(j)
      <4>1. UNCHANGED <<ctx, radar, modal, strayed>>
        BY <3>1 DEF GiveUp, ScanFails, ShowError, LoadFails, PreparedUnheard, AppliedUnheard,
                    Refused, shown
      <4> QED
        BY <1>0, <2>3, <4>1 DEF OwnShown, OwnContext, OwnReport, OwnSheet, Whose
    \* What a function shows belongs to its customer, or strays with it.
    <3>2. ASSUME job[j] # Idle, ~At(j, "login", "asked"), ~Stray(job[j])
          PROVE  /\ open
                 /\ job[j].choice.report.of \in {id, None}
                 /\ job[j].context.of \in {id, None}
                 /\ job[j].report.of \in {id, None}
      BY <1>0, <3>2 DEF OwnJob
    <3>3. CASE ShowReport(j)
      <4>1. /\ radar' = job[j].report /\ Assigns(j, {"report"}) /\ UNCHANGED <<ctx, modal>>
            /\ job[j].kind = "scan"
        BY <3>3 DEF ShowReport, At
      <4> QED
        BY <1>0, <2>3, <3>2, <4>1, IdleFields
           DEF OwnShown, OwnContext, OwnReport, OwnSheet, Whose, Assigns, At
    <3>4. CASE Loaded(j)
      <4>1. /\ ctx' = job[j].context /\ radar' = job[j].report /\ modal' \in Closing(j)
            /\ Assigns(j, {"context", "report"}) /\ job[j].step = "loading"
        BY <3>4 DEF Loaded
      <4>2. OwnContext' /\ OwnReport'
        BY <2>3, <3>2, <4>1, IdleFields DEF OwnContext, OwnReport, Whose, Assigns, At
      <4>3. \/ modal' = modal \/ modal' = NoModal
            \/ modal' = Sheet("notice", job[j].choice, NoChoice, job[j].marks)
        BY <4>1 DEF Closing
      <4>4. OwnSheet'
        BY <1>0, <2>3, <3>2, <4>1, <4>3, Nothings, IdleFields
           DEF OwnShown, OwnSheet, Whose, Sheet, Stray, At
      <4> QED
        BY <4>2, <4>4 DEF OwnShown
    <3>5. CASE Prepared(j)
      <4>1. /\ UNCHANGED <<ctx, radar, strayed>> /\ job[j].kind \in {"select", "prepare"}
            /\ \/ modal' = modal
               \/ \E title : modal' = Sheet("confirm", job[j].choice, title, job[j].marks)
        BY <3>5 DEF Prepared, Choosing
      <4>2. OwnSheet'
        BY <1>0, <2>3, <3>2, <4>1, IdleFields DEF OwnShown, OwnSheet, Whose, Sheet, Stray, At
      <4> QED
        BY <1>0, <2>3, <4>1, <4>2 DEF OwnShown, OwnContext, OwnReport, Whose
    <3> QED
      BY <1>8, <3>1, <3>3, <3>4, <3>5
  <2>5. OwnReports'
    BY <1>0, <2>3 DEF OwnReports
  <2> QED
    BY <2>1, <2>2, <2>3, <2>4, <2>5, OwnByStep DEF Finishes
<1> QED
  BY <1>1, <1>2, <1>3, <1>4, <1>5, <1>6, <1>7, <1>8 DEF Next

\* What the front end keeps and asks a confirmation for is of the customer who is
\* logged in, whatever was under way when another one logged out, but for what
\* such a function has itself assigned or shown since.
THEOREM OwnDataShown == Spec => []OwnData
<1>1. Init => Shapes /\ OwnSafe
  BY ShapesInit, OwnInit
<1>2. (Shapes /\ OwnSafe) /\ [Next]_vars => (Shapes /\ OwnSafe)'
  BY ShapesStep, OwnStep
<1>3. OwnSafe => OwnData
  BY DEF OwnSafe, OwnShown, OwnContext, OwnReport, OwnSheet, Whose, OwnData
<1> QED
  BY <1>1, <1>2, <1>3, PTL DEF Spec

-----------------------------------------------------------------------------
(* What the customer confirms *)

\* An unmarked selection is one from the report at hand.
ChoiceJob(j) ==
    job[j].kind \in {"select", "prepare"} =>
        /\ job[j].choice = Choice(job[j].choice.report, job[j].choice.option)
        /\ job[j].kind = "select" /\ job[j].marks = {} => job[j].choice.report = radar

ConsentSafe ==
    /\ \A j \in Jobs : ChoiceJob(j)
    /\ ConsentInformed

LEMMA ConsentInit == Init => ConsentSafe
BY Nothings, IdleFields DEF Init, ConsentSafe, ChoiceJob, ConsentInformed

LEMMA ChoiceKept ==
    ASSUME NEW i \in Jobs, ChoiceJob(i), Bystander(i)
    PROVE  ChoiceJob(i)'
<1>1. /\ job'[i].kind = job[i].kind /\ job'[i].choice = job[i].choice
      /\ job[i].marks \subseteq job'[i].marks
      /\ job[i].kind = "select" /\ job'[i].marks = {} => radar' = radar
  BY DEF Bystander, Same
<1> QED
  BY <1>1 DEF ChoiceJob

LEMMA ConsentStep == Shapes /\ ConsentSafe /\ [Next]_vars => ConsentSafe'
<1> SUFFICES ASSUME Shapes, ConsentSafe, [Next]_vars PROVE ConsentSafe'
  OBVIOUS
<1>0. ConsentInformed /\ \A j \in Jobs : ChoiceJob(j)
  BY DEF ConsentSafe
<1>1. ASSUME modal' = modal \/ modal'.kind # "confirm" PROVE ConsentInformed'
  BY <1>0, <1>1 DEF ConsentInformed
<1>2. CASE UNCHANGED vars \/ OpenForm \/ CloseModal \/ ScheduledScan \/ LandsLate \/ Logout
  <2>1. modal' = modal \/ modal'.kind # "confirm"
    BY <1>2, Nothings DEF vars, shown, OpenForm, CloseModal, ScheduledScan, LandsLate, Logout
  <2> QED
    BY <1>0, <1>1, <1>2, <2>1, NobodysFacts, ChoiceKept DEF ConsentSafe
<1>3. ASSUME NEW j \in Jobs, Steps(j), ChoiceJob(j)' PROVE \A i \in Jobs : ChoiceJob(i)'
  BY <1>0, <1>3, ChoiceKept DEF Steps
<1>4. ASSUME NEW j \in Jobs, Select(j) \/ Prepare(j) PROVE ConsentSafe'
  <2>1. UNCHANGED <<radar, modal>>
    BY <1>4 DEF Select, Prepare, shown
  <2>2. Steps(j) /\ ChoiceJob(j)'
    <3>1. CASE Select(j)
      <4>1. PICK o, marks : Starts(j, "select", Choice(radar, o), marks)
        BY <3>1, StartFacts
      <4> QED
        BY <2>1, <4>1 DEF Starts, ChoiceJob, Choice
    <3>2. CASE Prepare(j)
      <4>1. PICK report, o : Starts(j, "prepare", Choice(report, o), {})
        BY <3>2, StartFacts
      <4> QED
        BY <4>1 DEF Starts, ChoiceJob, Choice
    <3> QED
      BY <1>4, <3>1, <3>2
  <2> QED
    BY <1>1, <1>3, <2>1, <2>2 DEF ConsentSafe
<1>5. ASSUME NEW j \in Jobs,
             \/ Login(j) \/ Scan(j) \/ Submit(j) \/ Confirm(j)
             \/ ScanStarted(j) \/ StillRunning(j) \/ ScanCompletes(j)
             \/ ReadContext(j) \/ ReadLatest(j) \/ LoggedIn(j) \/ Applied(j)
      PROVE  ConsentSafe'
  <2>1. modal' = modal \/ modal'.kind # "confirm"
    BY <1>5, Nothings
       DEF Login, Scan, Submit, Confirm, ScanStarted, StillRunning, ScanCompletes, ReadContext,
           ReadLatest, LoggedIn, Applied, shown
  <2>2. Steps(j) /\ job'[j].kind \notin {"select", "prepare"}
    <3>1. CASE Login(j) \/ Scan(j) \/ Submit(j) \/ Confirm(j)
      BY <3>1, StartFacts DEF Starts
    <3>2. CASE ScanStarted(j) \/ StillRunning(j) \/ ScanCompletes(j)
      BY <3>2, ScanFacts DEF Keeps
    <3>3. CASE ReadContext(j) \/ ReadLatest(j)
      <4>1. job'[j].step = "loading" /\ Steps(j)
        BY <3>3, ReadFacts DEF Keeps
      <4> QED
        BY <4>1, LoadingKind DEF Steps, Loaders
    <3>4. CASE LoggedIn(j) \/ Applied(j)
      BY <3>4, LoadsFacts DEF Loads, At, Writing
    <3> QED
      BY <1>5, <3>1, <3>2, <3>3, <3>4
  <2>3. ChoiceJob(j)'
    BY <2>2 DEF ChoiceJob
  <2> QED
    BY <1>1, <1>3, <2>1, <2>2, <2>3 DEF ConsentSafe
<1>6. ASSUME NEW j \in Jobs,
             \/ ShowReport(j) \/ GiveUp(j) \/ ScanFails(j) \/ Loaded(j) \/ LoadFails(j)
             \/ Prepared(j) \/ PreparedUnheard(j) \/ AppliedUnheard(j) \/ Refused(j)
      PROVE  ConsentSafe'
  <2>1. Steps(j) /\ ChoiceJob(j)'
    BY <1>6, FinishFacts, IdleFields DEF Finishes, ChoiceJob
  <2>2. ConsentInformed'
    <3>1. CASE \/ ShowReport(j) \/ GiveUp(j) \/ ScanFails(j) \/ LoadFails(j)
               \/ PreparedUnheard(j) \/ AppliedUnheard(j) \/ Refused(j)
      <4>1. modal' = modal
        BY <3>1 DEF ShowReport, GiveUp, ScanFails, ShowError, LoadFails, PreparedUnheard,
                    AppliedUnheard, Refused, shown
      <4> QED
        BY <1>1, <4>1
    <3>2. CASE Loaded(j)
      <4>1. modal' = modal \/ modal'.kind # "confirm"
        BY <3>2, Nothings DEF Loaded, Closing, Sheet
      <4> QED
        BY <1>1, <4>1
    <3>3. CASE Prepared(j)
      <4> DEFINE choice == job[j].choice
                 title == IF job[j].kind = "prepare" THEN choice ELSE Titled(choice)
      <4>1. /\ job[j].kind \in {"select", "prepare"}
            /\ modal' = modal \/ modal' = Sheet("confirm", choice, title, job[j].marks)
        BY <3>3 DEF Prepared, Choosing
      <4>2. title.option = choice.option
        BY <4>1 DEF Titled, Choice
      <4>3. job[j].marks = {} => title = choice
        BY <1>0, <4>1 DEF ChoiceJob, Titled
      <4> QED
        BY <1>1, <4>1, <4>2, <4>3 DEF ConsentInformed, Sheet
    <3> QED
      BY <1>6, <3>1, <3>2, <3>3
  <2> QED
    BY <1>3, <2>1, <2>2 DEF ConsentSafe
<1> QED
  BY <1>2, <1>4, <1>5, <1>6 DEF Next

\* The customer confirms the option that the sheet describes, and the letter of
\* it in any case, but for a selection during which the report at hand changed.
THEOREM ConsentIsInformed == Spec => []ConsentInformed
<1>1. Init => Shapes /\ ConsentSafe
  BY ShapesInit, ConsentInit
<1>2. (Shapes /\ ConsentSafe) /\ [Next]_vars => (Shapes /\ ConsentSafe)'
  BY ShapesStep, ConsentStep
<1>3. ConsentSafe => ConsentInformed
  BY DEF ConsentSafe
<1> QED
  BY <1>1, <1>2, <1>3, PTL DEF Spec

-----------------------------------------------------------------------------
(* Whether the page is up to date *)

Current == [of |-> id, version |-> version[id]]

\* What a load has read is current, unless a write came after it.
LoadJob(j) ==
    /\ job[j].step = "loading" /\ ~Stray(job[j]) /\ "late" \notin job[j].marks
    /\ "context" \in job[j].read
    => job[j].context = Current

\* A context that is not current is owed to a load under way, or to what the
\* history remembers.
Owed ==
    open /\ ~missed /\ "context" \notin strayed =>
        ctx = Current \/ \E j \in Jobs : job[j].step = "loading"

ContextSafe ==
    /\ \A j \in Jobs : LoadJob(j)
    /\ Owed

LEMMA ContextInit == Init => ContextSafe
BY IdleFields DEF Init, ContextSafe, LoadJob, Owed

LEMMA LoadKept ==
    ASSUME NEW i \in Jobs, LoadJob(i), Bystander(i), id' = id
    PROVE  LoadJob(i)'
<1>1. /\ job'[i].step = job[i].step /\ job'[i].read = job[i].read
      /\ job'[i].context = job[i].context /\ job[i].marks \subseteq job'[i].marks
      /\ job[i].step = "loading" /\ "late" \notin job'[i].marks => version' = version
  BY DEF Bystander, Same
<1> QED
  BY <1>1 DEF LoadJob, Stray, Current

\* Loads under way go on unless they are of the function that steps.
LEMMA OwedKept ==
    ASSUME Owed, UNCHANGED <<id, version, ctx, strayed>>, open' => open, missed => missed',
           \A i \in Jobs : job[i].step = "loading" => job'[i].step = "loading"
    PROVE  Owed'
BY DEF Owed, Current

LEMMA ContextStep == Shapes /\ OwnSafe /\ ContextSafe /\ [Next]_vars => ContextSafe'
<1> SUFFICES ASSUME Shapes, OwnSafe, ContextSafe, [Next]_vars PROVE ContextSafe'
  OBVIOUS
<1>0. /\ Owed /\ \A j \in Jobs : LoadJob(j)
      /\ LoginSafe /\ \A j \in Jobs : OwnJob(j)
  BY DEF ContextSafe, OwnSafe
<1>1. CASE UNCHANGED vars \/ OpenForm \/ CloseModal \/ ScheduledScan
  <2>1. UNCHANGED <<id, version, ctx, strayed, open, missed>>
    BY <1>1 DEF vars, shown, services, OpenForm, CloseModal, ScheduledScan
  <2>2. \A i \in Jobs : Bystander(i)
    BY <1>1, NobodysFacts
  <2>3. Owed'
    BY <1>0, <2>1, <2>2, OwedKept DEF Bystander, Same
  <2> QED
    BY <1>0, <2>1, <2>2, <2>3, LoadKept DEF ContextSafe
<1>2. CASE LandsLate
  <2>1. missed' /\ id' = id /\ \A i \in Jobs : Bystander(i)
    BY <1>2, NobodysFacts DEF LandsLate, shown
  <2> QED
    BY <1>0, <2>1, LoadKept DEF ContextSafe, Owed
<1>3. CASE Logout
  <2>1. ~open' /\ \A i \in Jobs : Same(i) /\ (job[i] # Idle => Stray(job'[i]))
    BY <1>3, NobodysFacts DEF Logout, Bystander
  <2>2. \A i \in Jobs : LoadJob(i)'
    BY <2>1, IdleFields DEF LoadJob, Same
  <2> QED
    BY <2>1, <2>2 DEF ContextSafe, Owed
<1>4. ASSUME NEW j \in Jobs, Login(j) PROVE ContextSafe'
  <2>1. Starts(j, "login", NoChoice, {}) /\ ~open /\ ~open'
    BY <1>4, StartFacts DEF Login
  <2>2. ASSUME NEW i \in Jobs \ {j} PROVE LoadJob(i)'
    <3>1. Same(i)
      BY <2>1 DEF Starts, Steps, Bystander
    <3>2. job[i].step = "loading" => Stray(job[i])
      BY <1>0, <2>1, IdleFields DEF OwnJob, At
    <3> QED
      BY <3>1, <3>2 DEF LoadJob, Same, Stray
  <2>3. LoadJob(j)'
    BY <2>1 DEF Starts, LoadJob
  <2> QED
    BY <2>1, <2>2, <2>3 DEF ContextSafe, Owed
<1>5. ASSUME NEW j \in Jobs, Steps(j), id' = id, LoadJob(j)' PROVE \A i \in Jobs : LoadJob(i)'
  BY <1>0, <1>5, LoadKept DEF Steps
<1>6. ASSUME NEW j \in Jobs,
             \/ Scan(j) \/ Select(j) \/ Prepare(j) \/ Submit(j) \/ Confirm(j)
             \/ ScanStarted(j) \/ StillRunning(j) \/ ScanCompletes(j)
             \/ ReadContext(j) \/ ReadLatest(j)
      PROVE  ContextSafe'
  <2>1. UNCHANGED <<id, version, ctx, strayed, open, missed>>
    BY <1>6 DEF Scan, Select, Prepare, Submit, Confirm, Begin, ScanStarted, StillRunning,
                ScanCompletes, ReadContext, ReadLatest, shown, services
  <2>2. /\ Steps(j) /\ LoadJob(j)'
        /\ job[j].step = "loading" => job'[j].step = "loading"
    <3>1. CASE Scan(j) \/ Select(j) \/ Prepare(j) \/ Submit(j) \/ Confirm(j)
      BY <3>1, StartFacts, IdleFields DEF Starts, LoadJob
    <3>2. CASE ScanStarted(j) \/ StillRunning(j) \/ ScanCompletes(j)
      <4>1. Keeps(j) /\ job[j].kind = "scan" /\ job'[j].step # "loading"
        BY <3>2, ScanFacts
      <4>2. job[j].step # "loading"
        BY <4>1 DEF Shapes, Phases
      <4> QED
        BY <4>1, <4>2 DEF Keeps, LoadJob
    <3>3. CASE ReadContext(j)
      <4>1. /\ Keeps(j) /\ job[j].step = "loading" /\ job'[j].step = "loading"
            /\ job'[j].context = [of |-> job[j].of, version |-> version[job[j].of]]
        BY <3>3, ReadFacts
      <4>2. ~Stray(job[j]) => job[j].of = id
        BY <1>0, <4>1, IdleFields DEF OwnJob
      <4> QED
        BY <2>1, <4>1, <4>2 DEF Keeps, LoadJob, Stray, Current
    <3>4. CASE ReadLatest(j)
      <4>1. /\ Keeps(j) /\ job[j].step = "loading" /\ job'[j].step = "loading"
            /\ job'[j].read = job[j].read \cup {"latest"}
            /\ job'[j].context = job[j].context
        BY <3>4, ReadFacts
      <4> QED
        BY <1>0, <2>1, <4>1 DEF Keeps, LoadJob, Stray, Current
    <3> QED
      BY <1>6, <3>1, <3>2, <3>3, <3>4
  <2>3. \A i \in Jobs : job[i].step = "loading" => job'[i].step = "loading"
    BY <2>2 DEF Steps, Bystander, Same
  <2>4. Owed'
    BY <1>0, <2>1, <2>3, OwedKept
  <2> QED
    BY <1>5, <2>1, <2>2, <2>4 DEF ContextSafe
\* After a write that was answered there is a load.
<1>7. ASSUME NEW j \in Jobs, LoggedIn(j) \/ Applied(j) PROVE ContextSafe'
  <2>1. Loads(j) /\ job[j].step = "asked" /\ id' = id
    BY <1>7, LoadsFacts DEF At, Writing, LoggedIn, Applied
  <2>2. job'[j].step = "loading" /\ job'[j].read = {}
    BY <2>1 DEF Loads, Shapes, Phases
  <2>3. LoadJob(j)' /\ Steps(j)
    BY <2>1, <2>2 DEF LoadJob, Loads
  <2> QED
    BY <1>5, <2>1, <2>2, <2>3 DEF ContextSafe, Owed
<1>8. ASSUME NEW j \in Jobs,
             \/ ShowReport(j) \/ GiveUp(j) \/ ScanFails(j) \/ Loaded(j) \/ LoadFails(j)
             \/ Prepared(j) \/ PreparedUnheard(j) \/ AppliedUnheard(j) \/ Refused(j)
      PROVE  ContextSafe'
  <2>1. Finishes(j) /\ id' = id
    BY <1>8, FinishFacts
       DEF ShowReport, GiveUp, ScanFails, ShowError, Loaded, LoadFails, Prepared,
           PreparedUnheard, AppliedUnheard, Refused, shown
  <2>2. \A i \in Jobs : LoadJob(i)'
    BY <1>5, <2>1, IdleFields DEF Finishes, LoadJob
  <2>3. Owed'
    <3>1. CASE AppliedUnheard(j) \/ LoadFails(j)
      BY <3>1 DEF AppliedUnheard, LoadFails, Owed
    \* No load ends.
    <3>2. ASSUME job[j].step # "loading", UNCHANGED <<version, ctx, strayed, open>>,
                 missed => missed'
          PROVE  Owed'
      <4>1. \A i \in Jobs : job[i].step = "loading" => job'[i].step = "loading"
        BY <2>1, <3>2 DEF Finishes, Steps, Bystander, Same
      <4> QED
        BY <1>0, <2>1, <3>2, <4>1, OwedKept
    <3>3. CASE ShowReport(j)
      <4>1. /\ job[j].step = "completed" /\ UNCHANGED <<version, ctx, open, missed>>
            /\ Assigns(j, {"report"})
        BY <3>3 DEF ShowReport, At, services
      <4>2. "context" \in strayed' <=> "context" \in strayed
        BY <4>1 DEF Assigns
      <4>3. \A i \in Jobs : job[i].step = "loading" => job'[i].step = "loading"
        BY <2>1, <4>1 DEF Finishes, Steps, Bystander, Same
      <4> QED
        BY <1>0, <2>1, <4>1, <4>2, <4>3 DEF Owed, Current
    <3>4. CASE GiveUp(j) \/ ScanFails(j)
      <4>1. job[j].kind = "scan" /\ UNCHANGED <<version, ctx, strayed, open, missed>>
        BY <3>4 DEF GiveUp, ScanFails, ShowError, At, services
      <4>2. job[j].step # "loading"
        BY <4>1 DEF Shapes, Phases
      <4> QED
        BY <3>2, <4>1, <4>2
    <3>5. CASE Refused(j)
      BY <3>2, <3>5 DEF Refused, shown, services
    <3>6. CASE Prepared(j) \/ PreparedUnheard(j)
      <4>1. /\ job[j].step = "asked" /\ UNCHANGED <<ctx, strayed, open>>
            /\ missed' = (missed \/ version' # version)
        BY <3>6 DEF Prepared, PreparedUnheard, Choosing, shown
      <4>2. CASE version' = version
        BY <3>2, <4>1, <4>2
      <4>3. CASE version' # version
        BY <4>1, <4>3 DEF Owed
      <4> QED
        BY <4>2, <4>3
    <3>7. CASE Loaded(j)
      <4>1. /\ job[j].step = "loading" /\ "context" \in job[j].read
            /\ ctx' = job[j].context /\ missed' = ("late" \in job[j].marks)
            /\ Assigns(j, {"context", "report"}) /\ version' = version
        BY <3>7 DEF Loaded, services
      <4>2. ~missed' /\ "context" \notin strayed' => ctx' = Current
        BY <1>0, <4>1 DEF Assigns, LoadJob
      <4> QED
        BY <2>1, <4>1, <4>2 DEF Owed, Current
    <3> QED
      BY <1>8, <3>1, <3>3, <3>4, <3>5, <3>6, <3>7
  <2> QED
    BY <2>2, <2>3 DEF ContextSafe
<1> QED
  BY <1>1, <1>2, <1>3, <1>4, <1>6, <1>7, <1>8 DEF Next

\* However writes and loads overlap, once none is under way the context on the
\* page reflects every write, but for answers that were missed, writes that no
\* load follows, and writes made while the last load was under way.
THEOREM ContextIsCurrent == Spec => []ContextCurrent
<1>1. Init => Shapes /\ OwnSafe /\ ContextSafe
  BY ShapesInit, OwnInit, ContextInit
<1>2. (Shapes /\ OwnSafe /\ ContextSafe) /\ [Next]_vars => (Shapes /\ OwnSafe /\ ContextSafe)'
  BY ShapesStep, OwnStep, ContextStep
<1>3. Shapes /\ ContextSafe => ContextCurrent
  <2>1. \A j \in Jobs : Shapes /\ job[j].step = "loading" => job[j].kind \in Loaders
    BY LoadingKind DEF Shapes
  <2> QED
    BY <2>1 DEF ContextSafe, Owed, ContextCurrent, Current, Loaders
<1> QED
  BY <1>1, <1>2, <1>3, PTL DEF Spec

-----------------------------------------------------------------------------
(* The safety part of ScansEnd *)

ScanShown == (\A j \in Jobs : job[j].kind # "scan") => ~scanning /\ page # "hidden"

LEMMA ShownStep == Shapes /\ ScanShown /\ [Next]_vars => ScanShown'
<1> SUFFICES ASSUME Shapes, ScanShown, [Next]_vars PROVE ScanShown'
  OBVIOUS
\* No scan ends, and no page is hidden.
<1>1. ASSUME scanning' = scanning, page' = page \/ page' # "hidden",
             \A i \in Jobs : job[i].kind = "scan" => job'[i].kind = "scan"
      PROVE  ScanShown'
  BY <1>1 DEF ScanShown
<1>2. ASSUME NEW j \in Jobs, Steps(j), job[j].kind = "scan" => job'[j].kind = "scan"
      PROVE  \A i \in Jobs : job[i].kind = "scan" => job'[i].kind = "scan"
  BY <1>2 DEF Steps, Bystander, Same
<1>3. CASE UNCHANGED vars \/ OpenForm \/ CloseModal \/ ScheduledScan \/ LandsLate \/ Logout
  <2>1. scanning' = scanning /\ (page' = page \/ page' # "hidden")
    BY <1>3 DEF vars, shown, OpenForm, CloseModal, ScheduledScan, LandsLate, Logout
  <2> QED
    BY <1>1, <1>3, <2>1, NobodysFacts DEF Bystander, Same
<1>4. ASSUME NEW j \in Jobs, Scan(j) PROVE ScanShown'
  BY <1>4, StartFacts DEF Starts, ScanShown
<1>5. ASSUME NEW j \in Jobs, Login(j) \/ Select(j) \/ Prepare(j) \/ Submit(j) \/ Confirm(j)
      PROVE  ScanShown'
  <2>1. PICK kind, choice, marks : Starts(j, kind, choice, marks)
    BY <1>5, StartFacts
  <2>2. scanning' = scanning /\ page' = page
    BY <1>5 DEF Login, Select, Prepare, Submit, Confirm, shown
  <2> QED
    BY <1>1, <1>2, <2>1, <2>2, IdleFields DEF Starts
\* However a scan ends.
<1>6. ASSUME NEW j \in Jobs, ShowReport(j) \/ GiveUp(j) \/ ScanFails(j) PROVE ScanShown'
  BY <1>6 DEF ShowReport, GiveUp, ScanFails, ShowError, ScanShown
<1>7. ASSUME NEW j \in Jobs,
             \/ Loaded(j) \/ LoadFails(j) \/ Prepared(j) \/ PreparedUnheard(j)
             \/ AppliedUnheard(j) \/ Refused(j)
      PROVE  ScanShown'
  <2>1. Finishes(j)
    BY <1>7, FinishFacts
  <2>2. job[j].kind # "scan"
    BY <1>7, LoadingKind
       DEF Loaded, LoadFails, Prepared, PreparedUnheard, AppliedUnheard, Refused, Choosing,
           Writing, Shapes, Loaders
  <2>3. scanning' = scanning /\ (page' = page \/ page' # "hidden")
    BY <1>7 DEF Loaded, LoadFails, Prepared, PreparedUnheard, AppliedUnheard, Refused, shown
  <2> QED
    BY <1>1, <1>2, <2>1, <2>2, <2>3 DEF Finishes
<1>8. ASSUME NEW j \in Jobs,
             \/ ScanStarted(j) \/ StillRunning(j) \/ ScanCompletes(j)
             \/ ReadContext(j) \/ ReadLatest(j) \/ LoggedIn(j) \/ Applied(j)
      PROVE  ScanShown'
  <2>1. Steps(j) /\ job'[j].kind = job[j].kind
    BY <1>8, ScanFacts, ReadFacts, LoadsFacts DEF Keeps, Loads
  <2>2. scanning' = scanning /\ page' = page
    BY <1>8 DEF ScanStarted, StillRunning, ScanCompletes, ReadContext, ReadLatest, LoggedIn,
                Applied, shown
  <2> QED
    BY <1>1, <1>2, <2>1, <2>2
<1> QED
  BY <1>3, <1>4, <1>5, <1>6, <1>7, <1>8 DEF Next

\* However scans overlap with each other, with loads and with a logout: once no
\* scan is under way the indicator is out and the page is not left hidden.
THEOREM ScansAreShown == Spec => []ScanShown
<1>1. Init => Shapes /\ ScanShown
  BY ShapesInit DEF Init, ScanShown
<1>2. (Shapes /\ ScanShown) /\ [Next]_vars => (Shapes /\ ScanShown)'
  BY ShapesStep, ShownStep
<1> QED
  BY <1>1, <1>2, PTL DEF Spec
=============================================================================
