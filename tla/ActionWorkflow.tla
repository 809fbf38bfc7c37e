--------------------------- MODULE ActionWorkflow ---------------------------
(***************************************************************************)
(* The action workflow of the Financial Radar agent (LocalAgentRuntime):   *)
(* a recommendation's option is selected, an action is prepared, the       *)
(* customer confirms or declines it, and the tool is executed in Core      *)
(* Banking under the action's id as idempotency key.                       *)
(*                                                                         *)
(* Every request runs in a worker thread with a database session of its    *)
(* own; one step below is what happens between two commits, queries or     *)
(* HTTP events.  The agent's PostgreSQL database is read committed and no  *)
(* row is locked, so a step that writes does so from the object it read in *)
(* an earlier step.  SQLAlchemy writes only the columns that changed.      *)
(*                                                                         *)
(* A request to Core Banking outlives the handler that sent it: after a    *)
(* timeout or a crash of the agent, Core Banking may still serve it.       *)
(*                                                                         *)
(* Options are those whose tool writes to Core Banking.  The policy's      *)
(* refusal of HIGH risk tools is unreachable: none is registered.          *)
(***************************************************************************)
EXTENDS Naturals, FiniteSets

CONSTANTS
    Workers,     \* threads that serve requests of the agent's API
    Recs,        \* recommendations that a scan has stored
    Signals,     \* radar signals
    SignalOf,    \* [Recs -> Signals], the signal a recommendation is about
    Options,     \* a tool and its validated arguments
    Exempt,      \* options whose tool needs no confirmation (create_reminder)
    MaxActions,  \* bound on the number of actions prepared
    MayTimeout,  \* whether a request to Core Banking may time out
    MayCrash,    \* whether the agent's process may stop between two steps
    NoRec,       \* a direct action belongs to no recommendation
    NoOption     \* the option of an action not prepared yet

ASSUME ConstantsAssumption ==
    /\ Exempt \subseteq Options
    /\ SignalOf \in [Recs -> Signals]
    /\ MaxActions \in Nat \ {0}
    /\ MayTimeout \in BOOLEAN
    /\ MayCrash \in BOOLEAN
    /\ NoRec \notin Recs
    /\ NoOption \notin Options

\* Action ids in the order in which their rows are created.
Actions == 1..MaxActions
NoAction == 0

VARIABLES
    rec,      \* status of each recommendation
    late,     \* the recommendations past their expires_at
    signal,   \* status of each signal
    log,      \* AgentActionLog: one row per action
    job,      \* what each worker is doing and the objects it holds
    call,     \* [Workers -> [Actions -> state of the request to Core Banking]]
    keys,     \* idempotency keys Core Banking remembers
    effects,  \* how often Core Banking applied an action
    consent,  \* history: actions whose confirmation has been committed
    refused   \* history: actions that have been declined or cancelled

agentVars == <<rec, late, signal, log>>
coreVars == <<call, keys, effects>>
history == <<consent, refused>>
vars == <<rec, late, signal, log, job, call, keys, effects, consent, refused>>

Steps == {"idle", "expire", "search", "cancel", "prepare", "mark", "accept",
          "decline", "call", "wait", "succeed", "fail"}

\* wasActive: the recommendation row was ACTIVE when this handler loaded it.
Jobs == [step : Steps, rec : Recs \cup {NoRec}, wasActive : BOOLEAN,
         option : Options \cup {NoOption}, action : Actions \cup {NoAction}]

Idle == [step |-> "idle", rec |-> NoRec, wasActive |-> FALSE,
         option |-> NoOption, action |-> NoAction]

Rows == [rec : Recs \cup {NoRec}, option : Options \cup {NoOption},
         confirm : {"NONE", "PENDING", "NOT_REQUIRED", "CONFIRMED", "DECLINED"},
         status : {"ABSENT", "PREPARED", "SUCCESS", "FAILED", "CANCELLED"}]

NoRow == [rec |-> NoRec, option |-> NoOption,
          confirm |-> "NONE", status |-> "ABSENT"]

CallStates == {"none", "sent", "missed", "ok", "error", "closed"}

TypeOK ==
    /\ rec \in [Recs -> {"ACTIVE", "SELECTED", "EXPIRED"}]
    /\ late \subseteq Recs
    /\ signal \in [Signals -> {"SHOWN", "ACTION_PROPOSED", "ACTIONED"}]
    /\ log \in [Actions -> Rows]
    /\ job \in [Workers -> Jobs]
    /\ call \in [Workers -> [Actions -> CallStates]]
    /\ keys \subseteq Actions
    /\ effects \in [Actions -> Nat]
    /\ consent \subseteq Actions
    /\ refused \subseteq Actions

\* A scan commits a recommendation as ACTIVE and its signal as SHOWN.
Init ==
    /\ rec = [r \in Recs |-> "ACTIVE"]
    /\ late = {}
    /\ signal = [s \in Signals |-> "SHOWN"]
    /\ log = [a \in Actions |-> NoRow]
    /\ job = [w \in Workers |-> Idle]
    /\ call = [w \in Workers |-> [a \in Actions |-> "none"]]
    /\ keys = {}
    /\ effects = [a \in Actions |-> 0]
    /\ consent = {}
    /\ refused = {}

At(w, step) == job[w].step = step
Goto(w, step) == job' = [job EXCEPT ![w].step = step]
Finish(w) == job' = [job EXCEPT ![w] = Idle]

Unprepared == {a \in Actions : log[a].status = "ABSENT"}
Awaiting(a) == log[a].status = "PREPARED" /\ log[a].confirm = "PENDING"
Pending(r) == {a \in Actions : log[a].rec = r /\ Awaiting(a)}

\* Bound: a request starts only if every running one can still get an id.
RoomForAction ==
    Cardinality(Unprepared) >
        Cardinality({w \in Workers : job[w].step \in {"search", "cancel", "prepare"}})

-----------------------------------------------------------------------------
(* POST /api/agent/select *)

Selectable(r) == rec[r] \in {"ACTIVE", "SELECTED"}

SelectLoad(w, r, o) ==
    /\ At(w, "idle")
    /\ RoomForAction
    /\ Selectable(r)
    /\ job' = [job EXCEPT ![w] =
                  [step |-> CASE rec[r] = "SELECTED" -> "search"
                              [] rec[r] = "ACTIVE" /\ r \in late -> "expire"
                              [] OTHER -> "prepare",
                   rec |-> r,
                   wasActive |-> rec[r] = "ACTIVE",
                   option |-> o,
                   action |-> NoAction]]
    /\ UNCHANGED <<agentVars, coreVars, history>>

SelectExpire(w) ==
    /\ At(w, "expire")
    /\ rec' = [rec EXCEPT ![job[w].rec] = "EXPIRED"]
    /\ Finish(w)
    /\ UNCHANGED <<late, signal, log, coreVars, history>>

\* Nothing is pending (409), or the pending draft is the one asked for and is
\* shown again: neither writes anything.
SelectReopen(w) ==
    /\ At(w, "search")
    /\ \A a \in Pending(job[w].rec) :
          (\A b \in Pending(job[w].rec) : b <= a) => log[a].option = job[w].option
    /\ Finish(w)
    /\ UNCHANGED <<agentVars, coreVars, history>>

\* The newest pending draft is another one: it will be cancelled.
SelectSwitch(w) ==
    /\ At(w, "search")
    /\ \E a \in Pending(job[w].rec) :
          /\ \A b \in Pending(job[w].rec) : b <= a
          /\ log[a].option # job[w].option
          /\ job' = [job EXCEPT ![w].step = "cancel", ![w].action = a]
    /\ UNCHANGED <<agentVars, coreVars, history>>

\* Mutant: the status is written to the column of the confirmation.
Refuse_WrongColumn(a) ==
    /\ log' = [log EXCEPT ![a].confirm = "CANCELLED"]
    /\ refused' = refused \cup {a}

Refuse(a) ==
    /\ log' = [log EXCEPT ![a].confirm = "DECLINED", ![a].status = "CANCELLED"]
    /\ refused' = refused \cup {a}

\* Mutant: the switch forgets to cancel the pending draft.
SelectCancel_Forgotten(w) ==
    /\ At(w, "cancel")
    /\ job' = [job EXCEPT ![w].step = "prepare", ![w].action = NoAction]
    /\ UNCHANGED <<agentVars, coreVars, history>>

SelectCancel(w) ==
    /\ At(w, "cancel")
    /\ Refuse(job[w].action)
    /\ job' = [job EXCEPT ![w].step = "prepare", ![w].action = NoAction]
    /\ UNCHANGED <<rec, late, signal, coreVars, consent>>

\* The row is still SELECTED in the session after a switch: nothing to write.
SelectMark(w) ==
    /\ At(w, "mark")
    /\ rec' = IF job[w].wasActive THEN [rec EXCEPT ![job[w].rec] = "SELECTED"] ELSE rec
    /\ Finish(w)
    /\ UNCHANGED <<late, signal, log, coreVars, history>>

-----------------------------------------------------------------------------
(* Direct actions, and the preparation both paths share *)

\* Mutant: the policy engine is not consulted.
NeedsConfirmation_Ignored(o) == FALSE

\* PolicyEngine.evaluate: REQUIRED, EXPLICIT and AUTHENTICATED tools.
NeedsConfirmation(o) == o \notin Exempt

DirectRequest(w, o) ==
    /\ At(w, "idle")
    /\ RoomForAction
    /\ job' = [job EXCEPT ![w] = [Idle EXCEPT !.step = "prepare", !.option = o]]
    /\ UNCHANGED <<agentVars, coreVars, history>>

SetSignal(r, status) ==
    signal' = IF r \in Recs THEN [signal EXCEPT ![SignalOf[r]] = status] ELSE signal

Prepare(w) ==
    LET o == job[w].option
        r == job[w].rec
    IN /\ At(w, "prepare")
       /\ \E a \in Unprepared :
             /\ \A b \in Unprepared : a <= b
             /\ log' = [log EXCEPT ![a] =
                   [rec |-> r, option |-> o, status |-> "PREPARED",
                    confirm |-> IF NeedsConfirmation(o) THEN "PENDING" ELSE "NOT_REQUIRED"]]
             /\ job' = [job EXCEPT ![w] =
                   CASE ~NeedsConfirmation(o) -> [@ EXCEPT !.step = "call", !.action = a]
                     [] NeedsConfirmation(o) /\ r \in Recs -> [@ EXCEPT !.step = "mark"]
                     [] NeedsConfirmation(o) /\ r \notin Recs -> Idle]
       /\ SetSignal(r, "ACTION_PROPOSED")
       /\ UNCHANGED <<rec, late, coreVars, history>>

-----------------------------------------------------------------------------
(* POST /api/agent/confirm *)

\* Mutant: the state of the action is not looked at.
Confirmable_Any(a) == log[a].status # "ABSENT"

Confirmable(a) == Awaiting(a)

ConfirmLoad(w, a, confirmed) ==
    /\ At(w, "idle")
    /\ Confirmable(a)
    /\ job' = [job EXCEPT ![w] =
                  [Idle EXCEPT !.step = IF confirmed THEN "accept" ELSE "decline",
                               !.action = a]]
    /\ UNCHANGED <<agentVars, coreVars, history>>

ConfirmAccept(w) ==
    /\ At(w, "accept")
    /\ log' = [log EXCEPT ![job[w].action].confirm = "CONFIRMED"]
    /\ consent' = consent \cup {job[w].action}
    /\ Goto(w, "call")
    /\ UNCHANGED <<rec, late, signal, coreVars, refused>>

\* Mutant: the handler does not return after the decline.
ConfirmDecline_FallsThrough(w) ==
    /\ At(w, "decline")
    /\ Refuse(job[w].action)
    /\ Goto(w, "call")
    /\ UNCHANGED <<rec, late, signal, coreVars, consent>>

ConfirmDecline(w) ==
    /\ At(w, "decline")
    /\ Refuse(job[w].action)
    /\ Finish(w)
    /\ UNCHANGED <<rec, late, signal, coreVars, consent>>

-----------------------------------------------------------------------------
(* Execution: the request to Core Banking and what becomes of it *)

Send(w) ==
    /\ At(w, "call")
    /\ call' = [call EXCEPT ![w][job[w].action] = "sent"]
    /\ Goto(w, "wait")
    /\ UNCHANGED <<agentVars, keys, effects, history>>

\* Mutant: the HTTP status of the answer is not looked at.
StepAfter_Unchecked(answer) == "succeed"

StepAfter(answer) == IF answer = "ok" THEN "succeed" ELSE "fail"

Respond(w) ==
    /\ At(w, "wait")
    /\ call[w][job[w].action] \in {"ok", "error"}
    /\ Goto(w, StepAfter(call[w][job[w].action]))
    /\ call' = [call EXCEPT ![w][job[w].action] = "closed"]
    /\ UNCHANGED <<agentVars, keys, effects, history>>

\* Mutant: a broken connection is taken for an answer.
Timeout_Succeeds(w) ==
    /\ MayTimeout
    /\ At(w, "wait")
    /\ Goto(w, "succeed")
    /\ UNCHANGED <<agentVars, coreVars, history>>

\* Mutant: the HTTP client has no timeout.
Timeout_Never(w) == FALSE

\* Time ran out, or the connection broke: the handler learns nothing.
Timeout(w) ==
    /\ MayTimeout
    /\ At(w, "wait")
    /\ Goto(w, "fail")
    /\ UNCHANGED <<agentVars, coreVars, history>>

ReportSuccess(w) ==
    /\ At(w, "succeed")
    /\ log' = [log EXCEPT ![job[w].action].status = "SUCCESS"]
    /\ SetSignal(log[job[w].action].rec, "ACTIONED")
    /\ IF job[w].rec \in Recs THEN Goto(w, "mark") ELSE Finish(w)
    /\ UNCHANGED <<rec, late, coreVars, history>>

\* Mutant: the failure is not committed.
ReportFailure_Lost(w) ==
    /\ At(w, "fail")
    /\ Finish(w)
    /\ UNCHANGED <<agentVars, coreVars, history>>

ReportFailure(w) ==
    /\ At(w, "fail")
    /\ log' = [log EXCEPT ![job[w].action].status = "FAILED"]
    /\ Finish(w)
    /\ UNCHANGED <<rec, late, signal, coreVars, history>>

-----------------------------------------------------------------------------
(* Core Banking serving one write request under key a *)

CoreLookup(w, a) ==
    /\ call[w][a] = "sent"
    /\ call' = [call EXCEPT ![w][a] = IF a \in keys THEN "ok" ELSE "missed"]
    /\ UNCHANGED <<agentVars, job, keys, effects, history>>

\* Mutant: the idempotency records have no unique constraint.
KeyFree_Unconstrained(a) == TRUE

KeyFree(a) == a \notin keys

\* The effect and its key are committed together.
CoreApply(w, a) ==
    /\ call[w][a] = "missed"
    /\ KeyFree(a)
    /\ effects' = [effects EXCEPT ![a] = @ + 1]
    /\ keys' = keys \cup {a}
    /\ call' = [call EXCEPT ![w][a] = "ok"]
    /\ UNCHANGED <<agentVars, job, history>>

\* Another request under the key committed first: the unique constraint fails
\* the transaction, and the answer is a 500.
CoreDuplicate(w, a) ==
    /\ call[w][a] = "missed"
    /\ ~KeyFree(a)
    /\ call' = [call EXCEPT ![w][a] = "error"]
    /\ UNCHANGED <<agentVars, job, keys, effects, history>>

\* A business rule refuses the request, or Core Banking fails before commit.
CoreReject(w, a) ==
    /\ call[w][a] \in {"sent", "missed"}
    /\ call' = [call EXCEPT ![w][a] = "error"]
    /\ UNCHANGED <<agentVars, job, keys, effects, history>>

-----------------------------------------------------------------------------
(* The environment *)

PassExpiry(r) ==
    /\ r \notin late
    /\ late' = late \cup {r}
    /\ UNCHANGED <<rec, signal, log, job, coreVars, history>>

\* The agent's process stops and restarts: sessions and threads are gone.
Crash ==
    /\ MayCrash
    /\ job # [w \in Workers |-> Idle]
    /\ job' = [w \in Workers |-> Idle]
    /\ UNCHANGED <<agentVars, coreVars, history>>

Request(w) ==
    \/ \E r \in Recs, o \in Options : SelectLoad(w, r, o)
    \/ \E o \in Options : DirectRequest(w, o)
    \/ \E a \in Actions, confirmed \in BOOLEAN : ConfirmLoad(w, a, confirmed)

Continue(w) ==
    \/ SelectExpire(w)
    \/ SelectReopen(w)
    \/ SelectSwitch(w)
    \/ SelectCancel(w)
    \/ SelectMark(w)
    \/ Prepare(w)
    \/ ConfirmAccept(w)
    \/ ConfirmDecline(w)
    \/ Send(w)
    \/ Respond(w)
    \/ Timeout(w)
    \/ ReportSuccess(w)
    \/ ReportFailure(w)

CoreStep(w, a) ==
    \/ CoreLookup(w, a)
    \/ CoreApply(w, a)
    \/ CoreDuplicate(w, a)
    \/ CoreReject(w, a)

Next ==
    \/ \E w \in Workers : Request(w) \/ Continue(w)
    \/ \E w \in Workers, a \in Actions : CoreStep(w, a)
    \/ \E r \in Recs : PassExpiry(r)
    \/ Crash

Spec == Init /\ [][Next]_vars

\* A running handler is scheduled.  Nothing is assumed of Core Banking, of the
\* customers, of the clock or of crashes.
Fairness == \A w \in Workers : WF_vars(Continue(w))

FairSpec == Spec /\ Fairness

-----------------------------------------------------------------------------
(* What holds of every deployment, whatever runs concurrently or fails *)

Applied(a) == effects[a] > 0
Authorised(a) == log[a].option \in Exempt \/ a \in consent

\* However often a confirmation is repeated, raced, timed out or retried, Core
\* Banking applies an action at most once: the replay lookup and the unique
\* constraint of its idempotency records see to it together.
AtMostOnce == \A a \in Actions : effects[a] <= 1

\* No effect reaches Core Banking under an action whose tool needs a
\* confirmation before a confirmation of that very action has been committed.
EffectAuthorised == \A a \in Actions : Applied(a) => Authorised(a)

\* The audit log never reports a success that Core Banking did not commit.
SuccessMeansApplied == \A a \in Actions : log[a].status = "SUCCESS" => Applied(a)

\* A signal is ACTIONED only if one of the actions proposed for it took effect.
ActionedMeansApplied ==
    \A s \in Signals : signal[s] = "ACTIONED" =>
        \E a \in Actions : log[a].rec \in Recs /\ SignalOf[log[a].rec] = s /\ Applied(a)

\* What the agent reports is true, of actions and of signals, whatever was
\* raced, timed out or lost between it and Core Banking.
ReportsTrue == SuccessMeansApplied /\ ActionedMeansApplied

\* The workflow keeps the promises of ActionContract.
Contract == INSTANCE ActionContract WITH
    draft <- [a \in Actions |-> log[a].option],
    applied <- effects,
    succeeded <- {a \in Actions : log[a].status = "SUCCESS"}

KeepsContract == Contract!Spec

\* Every handler returns, even when Core Banking never answers: the timeout of
\* the HTTP client bounds the only wait.
HandlersReturn == \A w \in Workers : job[w].step # "idle" ~> job[w].step = "idle"

\* An action the customer confirmed gets an outcome, if the agent stays up.
ConfirmedResolves ==
    \A a \in Actions : a \in consent ~> log[a].status # "PREPARED"

-----------------------------------------------------------------------------
(* What holds as long as one request is served at a time *)

\* A declined or cancelled action never takes effect (the tests of the agent
\* state it of consecutive requests).
RefusedNeverApplied == \A a \in refused : ~Applied(a)

\* The outcome of an action in the audit log is final.
OutcomeFinal ==
    [][\A a \in Actions : log[a].status \in {"SUCCESS", "FAILED", "CANCELLED"} =>
          log'[a].status = log[a].status]_vars

\* Switching to another option cancels the pending action of the old one, so
\* one recommendation never has two drafts waiting for the customer.
OnePendingPerRecommendation == \A r \in Recs : Cardinality(Pending(r)) <= 1

\* An expired recommendation stays expired and proposes nothing more.
ExpiredIsFinal ==
    [][\A r \in Recs : rec[r] = "EXPIRED" =>
          rec'[r] = "EXPIRED" /\ Pending(r)' \subseteq Pending(r)]_vars

\* What has ended stays so: the outcome of an action, and a recommendation that
\* has expired.
OutcomesFinal == OutcomeFinal /\ ExpiredIsFinal
=============================================================================
