------------------------------ MODULE RadarScan ------------------------------
(***************************************************************************)
(* Financial Sensing scans of one customer: the scan service, the analysis *)
(* and recommendation of LocalAgentRuntime.run, the retries of the LLM     *)
(* client and the upsert of the customer's signal.                         *)
(*                                                                         *)
(* A scan runs in a thread of the agent's API, as a request or as the      *)
(* background task of one, or in the scheduler's process.  One step is     *)
(* what lies between two commits, queries or HTTP requests.  The database  *)
(* is read committed, no row is locked, and an object keeps the values it  *)
(* was loaded with (expire_on_commit=False), so that a status is written   *)
(* only if it differs from the one the scan loaded.                        *)
(*                                                                         *)
(* What Core Banking would report is the set of risks that stand at the    *)
(* moment; every tool reads it anew.  Recommendations are those of the     *)
(* scan that stored them; their own status belongs to ActionWorkflow,      *)
(* whose effect on signals are Propose and Resolve.                        *)
(***************************************************************************)
EXTENDS Naturals, Sequences, FiniteSets

CONSTANTS
    Workers,       \* threads that run scans
    Api,           \* those of the API's process, the others are the scheduler's
    Possible,      \* the risks the customer may run
    MaxScans,      \* bound on the number of scans created
    MaxChanges,    \* bound on how often the customer's situation changes
    Retries,       \* structured_retries of the LLM client
    CustomerActs,  \* whether the customer selects and confirms
    MayCrash       \* whether a process may stop, or fail to record a failure

Types == {"CASHFLOW_RISK", "SPENDING_ANOMALY", "GOAL_DRIFT",
          "UPCOMING_RECURRING", "IDLE_CASH"}
Calm == "NONE"

ASSUME ConstantsAssumption ==
    /\ Api \subseteq Workers
    /\ Possible \subseteq Types
    /\ MaxScans \in Nat \ {0}
    /\ MaxChanges \in Nat
    /\ Retries \in Nat
    /\ CustomerActs \in BOOLEAN
    /\ MayCrash \in BOOLEAN

\* Scan ids in the order in which their rows are created.
Scans == 1..MaxScans
NoScan == 0

VARIABLES
    scan,      \* RadarScanRun: the rows of scans
    rec,       \* the signal of the recommendation a scan stored, 0 if none
    signals,   \* RadarSignal: the rows in the order of created_at
    simulated, \* scans with a TOOL_CALL row of SUCCESS of the goal simulation
    job,       \* what each worker is doing and the objects it holds
    queue,     \* scans whose background task has not started
    proposed,  \* scans whose recommendation has a draft waiting for an answer
    risks,     \* the risks that stand now
    changes,   \* how often they changed
    stood,     \* history: the risks that have stood since a scan was created
    seen,      \* history: the risks that stood at some time since then, both
               \* until the scan fails or is stopped
    stopped,   \* history: scans that a stopped process, or a database that
               \* did not take the failure, left RUNNING
    excused    \* history: types of which two scans inserted a signal at once,
               \* or of which a signal was opened again after it was actioned

tables == <<scan, rec, signals, simulated>>
world == <<risks, changes, stood, seen>>
history == <<stopped, excused>>
vars == <<scan, rec, signals, simulated, job, queue, proposed, risks, changes, stood,
          seen, stopped, excused>>

\* The tools run in this order; the first finds nothing by itself.
Tools == {"snapshot", "forecast", "anomaly", "recurring", "goal"}

After == [snapshot |-> "forecast", forecast |-> "anomaly", anomaly |-> "recurring",
          recurring |-> "goal", goal |-> "context"]

Detects == [snapshot |-> Calm, forecast |-> "CASHFLOW_RISK",
            anomaly |-> "SPENDING_ANOMALY", recurring |-> "UPCOMING_RECURRING",
            goal |-> "GOAL_DRIFT"]

\* The order in which a scan's primary signal is chosen.
Rank == [CASHFLOW_RISK |-> 1, SPENDING_ANOMALY |-> 2, GOAL_DRIFT |-> 3,
         UPCOMING_RECURRING |-> 4, IDLE_CASH |-> 5]

Open == {"NEW", "SHOWN", "ACTION_PROPOSED"}

Steps == {"idle", "ask", "find", "upsert", "recommend", "complete", "context",
          "failing"} \cup Tools

\* flags: the risks found so far, until they are ranked; type: the primary one; signal: the row
\* _upsert_signal found, 0 if none; loaded: the status it was loaded with.
Jobs == [step : Steps, scan : Scans \cup {NoScan}, flags : SUBSET Types,
         type : Types \cup {Calm}, asked : Nat, signal : Nat,
         loaded : Open]

Idle == [step |-> "idle", scan |-> NoScan, flags |-> {}, type |-> Calm,
         asked |-> 0, signal |-> 0, loaded |-> "NEW"]

TypeOK ==
    /\ scan \in [Scans -> [status : {"ABSENT", "RUNNING", "COMPLETED", "FAILED"},
                           found : Types \cup {Calm}]]
    /\ rec \in [Scans -> Nat]
    /\ signals \in Seq([type : Types, status : Open \cup {"ACTIONED"}])
    /\ simulated \subseteq Scans
    /\ job \in [Workers -> Jobs]
    /\ queue \subseteq Scans
    /\ proposed \subseteq Scans
    /\ risks \subseteq Types
    /\ changes \in Nat
    /\ stood \in [Scans -> SUBSET Types]
    /\ seen \in [Scans -> SUBSET Types]
    /\ stopped \subseteq Scans
    /\ excused \subseteq Types

Init ==
    /\ scan = [s \in Scans |-> [status |-> "ABSENT", found |-> Calm]]
    /\ rec = [s \in Scans |-> 0]
    /\ signals = <<>>
    /\ simulated = {}
    /\ job = [w \in Workers |-> Idle]
    /\ queue = {}
    /\ proposed = {}
    /\ risks \in SUBSET Possible
    /\ changes = 0
    /\ stood = [s \in Scans |-> {}]
    /\ seen = [s \in Scans |-> {}]
    /\ stopped = {}
    /\ excused = {}

At(w, step) == job[w].step = step
Goto(w, step) == job' = [job EXCEPT ![w].step = step]

-----------------------------------------------------------------------------
(* The scan service *)

\* The row of the next scan is committed as RUNNING.
Created(s) ==
    /\ scan[s].status = "ABSENT"
    /\ \A other \in Scans : other < s => scan[other].status # "ABSENT"
    /\ scan' = [scan EXCEPT ![s].status = "RUNNING"]
    /\ stood' = [stood EXCEPT ![s] = risks]
    /\ seen' = [seen EXCEPT ![s] = risks]

\* POST /api/agent/run-async: the scan is left to a background task.
CreateAsync(w, s) ==
    /\ w \in Api
    /\ At(w, "idle")
    /\ Created(s)
    /\ queue' = queue \cup {s}
    /\ UNCHANGED <<rec, signals, simulated, job, proposed, risks, changes, history>>

\* POST /api/agent/run and the scheduler: the creating thread runs the scan.
CreateSync(w, s) ==
    /\ At(w, "idle")
    /\ Created(s)
    /\ job' = [job EXCEPT ![w] = [Idle EXCEPT !.step = "snapshot", !.scan = s]]
    /\ UNCHANGED <<rec, signals, simulated, queue, proposed, risks, changes, history>>

\* A background task starts: the scan must still be RUNNING.
Take(w, s) ==
    /\ w \in Api
    /\ At(w, "idle")
    /\ s \in queue
    /\ scan[s].status = "RUNNING"
    /\ queue' = queue \ {s}
    /\ job' = [job EXCEPT ![w] = [Idle EXCEPT !.step = "snapshot", !.scan = s]]
    /\ UNCHANGED <<tables, proposed, world, history>>

Complete(w) ==
    /\ At(w, "complete")
    /\ scan' = [scan EXCEPT ![job[w].scan] =
                   [status |-> "COMPLETED", found |-> job[w].type]]
    /\ job' = [job EXCEPT ![w] = Idle]
    /\ UNCHANGED <<rec, signals, simulated, queue, proposed, world, history>>

\* Mutant: the failure is raised, the row left as it is.
Fail_Unrecorded(w) ==
    /\ At(w, "failing")
    /\ job' = [job EXCEPT ![w] = Idle]
    /\ UNCHANGED <<tables, queue, proposed, world, history>>

Unobserved(failed) ==
    /\ stood' = [s \in Scans |-> IF s \in failed THEN {} ELSE stood[s]]
    /\ seen' = [s \in Scans |-> IF s \in failed THEN {} ELSE seen[s]]

\* The handler of an exception: what was not committed is rolled back.
Fail(w) ==
    /\ At(w, "failing")
    /\ scan' = [scan EXCEPT ![job[w].scan].status = "FAILED"]
    /\ job' = [job EXCEPT ![w] = Idle]
    /\ Unobserved({job[w].scan})
    /\ UNCHANGED <<rec, signals, simulated, queue, proposed, risks, changes, history>>

-----------------------------------------------------------------------------
(* LocalAgentRuntime.run: the analyses *)

ToolSucceeds(w) ==
    LET tool == job[w].step IN
    /\ tool \in Tools
    /\ simulated' = IF tool = "goal" THEN simulated \cup {job[w].scan} ELSE simulated
    /\ job' = [job EXCEPT ![w].step = After[tool],
                          ![w].flags = @ \cup ({Detects[tool]} \cap risks)]
    /\ UNCHANGED <<scan, rec, signals, queue, proposed, world, history>>

\* Core Banking refuses or does not answer, or the arguments are invalid; a
\* ValueError of the goal simulation (no active goal, an answer that does not
\* validate) means that there is no goal.
AfterError(tool) == {"failing"} \cup (IF tool = "goal" THEN {"context"} ELSE {})

ToolFails(w) ==
    LET tool == job[w].step IN
    /\ tool \in Tools
    /\ \E next \in AfterError(tool) : Goto(w, next)
    /\ UNCHANGED <<tables, queue, proposed, world, history>>

\* Mutant: idle cash is looked at before the goal.
Primary_IdleFirst(flags) ==
    IF flags = {} THEN Calm
    ELSE CHOOSE t \in flags : \A other \in flags : Rank[t] >= Rank[other]

Primary(flags) ==
    IF flags = {} THEN Calm
    ELSE CHOOSE t \in flags : \A other \in flags : Rank[t] <= Rank[other]

\* The financial context is read once more, without a trace, for idle cash;
\* without a risk the scan is complete, else a recommendation is asked for.
ReadContext(w) ==
    LET flags == job[w].flags \cup ({"IDLE_CASH"} \cap risks) IN
    /\ At(w, "context")
    /\ job' = [job EXCEPT ![w].flags = {},
                          ![w].type = Primary(flags),
                          ![w].step = IF flags = {} THEN "complete" ELSE "ask"]
    /\ UNCHANGED <<tables, queue, proposed, world, history>>

-----------------------------------------------------------------------------
(* The recommendation *)

\* The answer validates and names an option of the candidate plan.
Answered(w) ==
    /\ At(w, "ask")
    /\ job' = [job EXCEPT ![w].step = "find", ![w].asked = 0]
    /\ UNCHANGED <<tables, queue, proposed, world, history>>

\* The answer is not JSON or does not validate: the LLM is asked again, at most
\* Retries times.
Malformed(w) ==
    /\ At(w, "ask")
    /\ job' = IF job[w].asked < Retries
              THEN [job EXCEPT ![w].asked = @ + 1]
              ELSE [job EXCEPT ![w].step = "failing", ![w].asked = 0]
    /\ UNCHANGED <<tables, queue, proposed, world, history>>

\* Mutant: the signal's type is not compared.
Matching_AnyType(type) == {i \in DOMAIN signals : signals[i].status \in Open}

\* Mutant: a NEW signal, which a scan that failed leaves, is not found.
Matching_OnlyShown(type) ==
    {i \in DOMAIN signals : signals[i].type = type /\ signals[i].status \in Open \ {"NEW"}}

Matching(type) ==
    {i \in DOMAIN signals : signals[i].type = type /\ signals[i].status \in Open}

Inserting(v, type) == At(v, "upsert") /\ job[v].signal = 0 /\ job[v].type = type

\* A signal that was actioned is written as if it were still open.
Reopens(i) ==
    excused' = IF signals[i].status = "ACTIONED" THEN excused \cup {signals[i].type}
               ELSE excused

\* _upsert_signal: the newest open signal of the type, or none.
FindSignal(w) ==
    LET found == Matching(job[w].type) IN
    /\ At(w, "find")
    /\ IF found = {}
       THEN /\ Goto(w, "upsert")
            /\ excused' = IF \E v \in Workers \ {w} : Inserting(v, job[w].type)
                          THEN excused \cup {job[w].type} ELSE excused
       ELSE /\ \E i \in found :
                 /\ \A other \in found : other <= i
                 /\ job' = [job EXCEPT ![w].step = "upsert", ![w].signal = i,
                                       ![w].loaded = signals[i].status]
            /\ UNCHANGED excused
    /\ UNCHANGED <<tables, queue, proposed, world, stopped>>

\* A new row is inserted, or severity and data of the one found are written.
UpsertSignal(w) ==
    /\ At(w, "upsert")
    /\ IF job[w].signal = 0
       THEN /\ signals' = Append(signals, [type |-> job[w].type, status |-> "NEW"])
            /\ job' = [job EXCEPT ![w].step = "recommend", ![w].signal = Len(signals) + 1]
       ELSE /\ Goto(w, "recommend")
            /\ UNCHANGED signals
    /\ UNCHANGED <<scan, rec, simulated, queue, proposed, world, history>>

\* signal.status = SHOWN: no UPDATE if the scan loaded it as SHOWN.
Shown(w) ==
    IF job[w].loaded = "SHOWN" THEN signals
    ELSE [signals EXCEPT ![job[w].signal].status = "SHOWN"]

Recommend(w) ==
    /\ At(w, "recommend")
    /\ rec' = [rec EXCEPT ![job[w].scan] = job[w].signal]
    /\ signals' = Shown(w)
    /\ IF Shown(w) = signals THEN UNCHANGED excused ELSE Reopens(job[w].signal)
    /\ Goto(w, "complete")
    /\ UNCHANGED <<scan, simulated, queue, proposed, world, stopped>>

\* Any other step raises: the LLM refuses or times out or names an unknown
\* option, Core Banking or the database fails.
Break(w) ==
    /\ job[w].step \in {"context", "ask", "find", "upsert", "recommend", "complete"}
    /\ job' = [job EXCEPT ![w].step = "failing", ![w].asked = 0]
    /\ UNCHANGED <<tables, queue, proposed, world, history>>

-----------------------------------------------------------------------------
(* The customer, Core Banking and the processes *)

\* select, or a direct choice: a draft is prepared about the signal.
Propose(s) ==
    /\ CustomerActs
    /\ rec[s] # 0
    /\ s \notin proposed
    /\ proposed' = proposed \cup {s}
    /\ signals' = [signals EXCEPT ![rec[s]].status = "ACTION_PROPOSED"]
    /\ Reopens(rec[s])
    /\ UNCHANGED <<scan, rec, simulated, job, queue, world, stopped>>

\* confirm: the draft is executed, or declined, which leaves the signal.
Resolve(s) ==
    /\ s \in proposed
    /\ proposed' = proposed \ {s}
    /\ \/ signals' = [signals EXCEPT ![rec[s]].status = "ACTIONED"]
       \/ UNCHANGED signals
    /\ UNCHANGED <<scan, rec, simulated, job, queue, world, history>>

\* The customer's money and plans change, and with them the risks.
Change ==
    LET Running(s) == scan[s].status = "RUNNING" /\ s \notin stopped IN
    /\ changes < MaxChanges
    /\ changes' = changes + 1
    /\ risks' \in SUBSET Possible \ {risks}
    /\ stood' = [s \in Scans |-> IF Running(s) THEN stood[s] \cap risks' ELSE stood[s]]
    /\ seen' = [s \in Scans |-> IF Running(s) THEN seen[s] \cup risks' ELSE seen[s]]
    /\ UNCHANGED <<tables, job, queue, proposed, history>>

\* The database fails when the failure is to be recorded.
Abandon(w) ==
    /\ MayCrash
    /\ At(w, "failing")
    /\ job' = [job EXCEPT ![w] = Idle]
    /\ stopped' = stopped \cup {job[w].scan}
    /\ Unobserved({job[w].scan})
    /\ UNCHANGED <<tables, queue, proposed, risks, changes, excused>>

\* A process stops: its threads and, in the API, its background tasks are lost.
Crash(process) ==
    LET lost == (IF process = Api THEN queue ELSE {})
                \cup ({job[w].scan : w \in process} \ {NoScan}) IN
    /\ MayCrash
    /\ lost # {}
    /\ job' = [w \in Workers |-> IF w \in process THEN Idle ELSE job[w]]
    /\ queue' = queue \ lost
    /\ stopped' = stopped \cup lost
    /\ Unobserved(lost)
    /\ UNCHANGED <<tables, proposed, risks, changes, excused>>

Continue(w) ==
    \/ ToolSucceeds(w) \/ ToolFails(w) \/ ReadContext(w)
    \/ Answered(w) \/ Malformed(w)
    \/ FindSignal(w) \/ UpsertSignal(w) \/ Recommend(w)
    \/ Complete(w) \/ Fail(w) \/ Break(w)

Next ==
    \/ \E w \in Workers :
          \/ Continue(w)
          \/ Abandon(w)
          \/ \E s \in Scans : CreateAsync(w, s) \/ CreateSync(w, s) \/ Take(w, s)
    \/ \E s \in Scans : Propose(s) \/ Resolve(s)
    \/ Change
    \/ \E process \in {Api, Workers \ Api} : Crash(process)

Spec == Init /\ [][Next]_vars

\* Threads are scheduled and every call has a timeout; a background task is
\* taken when a thread stays free for it.
FairSpec ==
    /\ Spec
    /\ \A w \in Workers : WF_vars(Continue(w))
    /\ \A s \in Scans : WF_vars(\E w \in Workers : Take(w, s))

-----------------------------------------------------------------------------
(* Properties *)

\* A completed scan that found a risk has stored a recommendation about a
\* signal of that type, and a quiet one none: what _upsert_signal returned is
\* the signal of the analysis, whatever other scans did to the rows.
RecommendationMatches ==
    \A s \in Scans : scan[s].status = "COMPLETED" =>
        IF scan[s].found = Calm
        THEN rec[s] = 0
        ELSE /\ rec[s] \in DOMAIN signals
             /\ signals[rec[s]].type = scan[s].found

\* What a scan was told of a risk: a goal simulation that failed says nothing.
Told(s, t) == t = "GOAL_DRIFT" => s \in simulated

\* Although every tool reads Core Banking at a time of its own, a completed
\* scan reports a risk that did stand, and one at least as urgent as every
\* risk that stood all the time it ran.
ReportIsFaithful ==
    \A s \in Scans : scan[s].status = "COMPLETED" =>
        /\ scan[s].found \in seen[s] \cup {Calm}
        /\ \A t \in stood[s] : Told(s, t) =>
              scan[s].found # Calm /\ Rank[scan[s].found] <= Rank[t]

OpenSignals(t) == {i \in DOMAIN signals : signals[i].type = t /\ signals[i].status \in Open}

\* Repeated scans reuse the open signal of a type, also one that a scan has
\* left when it failed or was stopped: a second one comes only of two scans
\* that looked for it at the same time, or of one that is opened again.
OpenSignalsBounded ==
    \A t \in Types : Cardinality(OpenSignals(t)) <= 1 \/ t \in excused

\* A client that polls scans sees all of them end, whatever fails, except
\* those of a process that has stopped.
ScansFinish ==
    LET Running(s) == scan[s].status = "RUNNING" /\ s \notin stopped
    IN (\E s \in Scans : Running(s)) ~> (\A s \in Scans : ~Running(s))
=============================================================================
