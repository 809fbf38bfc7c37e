------------------------ MODULE ActionWorkflow_proofs ------------------------
(***************************************************************************)
(* Proofs about ActionWorkflow, for any number of workers, actions,        *)
(* recommendations and signals, with timeouts and crashes; and, in the     *)
(* last part, what one worker keeps that several would not.                *)
(***************************************************************************)
EXTENDS ActionWorkflow, FiniteSetTheorems, TLAPS

-----------------------------------------------------------------------------
(* Records: what an update of one field leaves well typed *)

LEMMA IdleIsJob == Idle \in Jobs
BY DEF Idle, Jobs, Steps

LEMMA NoRowIsRow == NoRow \in Rows
BY DEF NoRow, Rows

LEMMA JobFields ==
    ASSUME NEW j \in Jobs
    PROVE  /\ j.step \in Steps
           /\ j.rec \in Recs \cup {NoRec}
           /\ j.option \in Options \cup {NoOption}
           /\ j.action \in Actions \cup {NoAction}
           /\ j.wasActive \in BOOLEAN
BY DEF Jobs

LEMMA JobUpdate ==
    ASSUME NEW j \in Jobs, NEW s \in Steps, NEW a \in Actions \cup {NoAction}
    PROVE  /\ [j EXCEPT !.step = s] \in Jobs
           /\ [j EXCEPT !.step = s, !.action = a] \in Jobs
BY DEF Jobs

LEMMA RowUpdate ==
    ASSUME NEW r \in Rows,
           NEW c \in {"NONE", "PENDING", "NOT_REQUIRED", "CONFIRMED", "DECLINED"},
           NEW s \in {"ABSENT", "PREPARED", "SUCCESS", "FAILED", "CANCELLED"}
    PROVE  /\ [r EXCEPT !.confirm = c] \in Rows
           /\ [r EXCEPT !.status = s] \in Rows
           /\ [r EXCEPT !.confirm = c, !.status = s] \in Rows
BY DEF Rows

-----------------------------------------------------------------------------
(* Type correctness *)

\* A worker past these steps holds the row of an action.
Holding == {"cancel", "accept", "decline", "call", "wait", "succeed", "fail"}

JobsHoldAction == \A w \in Workers : job[w].step \in Holding => job[w].action \in Actions

TypeInv == TypeOK /\ JobsHoldAction

LEMMA InitType == Init => TypeInv
BY ConstantsAssumption, IdleIsJob, NoRowIsRow
   DEF Init, TypeInv, TypeOK, CallStates, JobsHoldAction, Holding, Idle

\* Every step leaves the other workers' jobs alone and gives worker w a job.
LEMMA JobSet ==
    ASSUME TypeInv, NEW w \in Workers, NEW j \in Jobs,
           j.step \in Holding => j.action \in Actions,
           job' = [job EXCEPT ![w] = j]
    PROVE  job' \in [Workers -> Jobs] /\ JobsHoldAction'
BY DEF TypeInv, TypeOK, JobsHoldAction

LEMMA FinishType ==
    ASSUME TypeInv, NEW w \in Workers, Finish(w)
    PROVE  job' \in [Workers -> Jobs] /\ JobsHoldAction'
BY IdleIsJob, JobSet DEF Finish, Idle, Holding

LEMMA GotoType ==
    ASSUME TypeInv, NEW w \in Workers, NEW s \in Steps, Goto(w, s),
           s \in Holding => job[w].action \in Actions
    PROVE  job' \in [Workers -> Jobs] /\ JobsHoldAction'
<1> DEFINE j == [job[w] EXCEPT !.step = s]
<1>1. job[w] \in Jobs
  BY DEF TypeInv, TypeOK
<1>2. j \in Jobs
  BY <1>1, JobUpdate DEF NoAction
<1>3. j.step = s /\ j.action = job[w].action
  BY <1>1 DEF Jobs
<1>4. job' = [job EXCEPT ![w] = j]
  BY DEF Goto
<1> HIDE DEF j
<1> QED
  BY <1>2, <1>3, <1>4, JobSet

LEMMA RowSet ==
    ASSUME TypeInv, NEW a \in Actions, NEW r \in Rows, log' = [log EXCEPT ![a] = r]
    PROVE  log' \in [Actions -> Rows]
BY DEF TypeInv, TypeOK

LEMMA RequestType ==
    ASSUME TypeInv, NEW w \in Workers, Request(w)
    PROVE  TypeInv'
<1> USE DEF agentVars, coreVars, history
<1>1. ASSUME NEW r \in Recs, NEW o \in Options, SelectLoad(w, r, o)
      PROVE  TypeInv'
  <2> DEFINE step == CASE rec[r] = "SELECTED" -> "search"
                       [] rec[r] = "ACTIVE" /\ r \in late -> "expire"
                       [] OTHER -> "prepare"
             j == [step |-> step, rec |-> r, wasActive |-> rec[r] = "ACTIVE",
                   option |-> o, action |-> NoAction]
  <2>1. step \in {"search", "expire", "prepare"}
    OBVIOUS
  <2>2. j \in Jobs /\ j.step \notin Holding
    <3> HIDE DEF step
    <3>1. (rec[r] = "ACTIVE") \in BOOLEAN
      OBVIOUS
    <3>2. step \in Steps /\ step \notin Holding
      BY <2>1 DEF Steps, Holding
    <3> QED
      BY <3>1, <3>2 DEF Jobs
  <2>3. job' = [job EXCEPT ![w] = j]
    BY <1>1 DEF SelectLoad
  <2> HIDE DEF j
  <2>4. job' \in [Workers -> Jobs] /\ JobsHoldAction'
    BY <2>2, <2>3, JobSet
  <2> QED
    BY <1>1, <2>4 DEF SelectLoad, TypeInv, TypeOK
<1>2. ASSUME NEW o \in Options, DirectRequest(w, o)
      PROVE  TypeInv'
  <2> DEFINE j == [Idle EXCEPT !.step = "prepare", !.option = o]
  <2>1. j \in Jobs /\ j.step \notin Holding
    BY DEF Idle, Jobs, Steps, Holding
  <2>2. job' \in [Workers -> Jobs] /\ JobsHoldAction'
    BY <1>2, <2>1, JobSet DEF DirectRequest
  <2> QED
    BY <1>2, <2>2 DEF DirectRequest, TypeInv, TypeOK
<1>3. ASSUME NEW a \in Actions, NEW confirmed \in BOOLEAN, ConfirmLoad(w, a, confirmed)
      PROVE  TypeInv'
  <2> DEFINE s == IF confirmed THEN "accept" ELSE "decline"
             j == [Idle EXCEPT !.step = s, !.action = a]
  <2>1. s \in Steps
    BY DEF Steps
  <2>2. j \in Jobs /\ j.action = a
    <3> HIDE DEF s
    <3> QED
      BY <2>1 DEF Idle, Jobs
  <2>3. job' \in [Workers -> Jobs] /\ JobsHoldAction'
    BY <1>3, <2>2, JobSet DEF ConfirmLoad
  <2> QED
    BY <1>3, <2>3 DEF ConfirmLoad, TypeInv, TypeOK
<1> QED
  BY <1>1, <1>2, <1>3 DEF Request

LEMMA ContinueType ==
    ASSUME TypeInv, NEW w \in Workers, Continue(w)
    PROVE  TypeInv'
<1> USE DEF agentVars, coreVars, history
<1> DEFINE a == job[w].action
<1>a. job[w] \in Jobs /\ (job[w].step \in Holding => a \in Actions /\ log[a] \in Rows)
  BY DEF TypeInv, TypeOK, JobsHoldAction
<1>1. CASE SelectExpire(w)
  BY <1>1, FinishType DEF SelectExpire, TypeInv, TypeOK
<1>2. CASE SelectReopen(w)
  BY <1>2, FinishType DEF SelectReopen, TypeInv, TypeOK
<1>3. CASE SelectSwitch(w)
  <2>1. PICK b \in Actions : job' = [job EXCEPT ![w].step = "cancel", ![w].action = b]
    BY <1>3 DEF SelectSwitch, Pending
  <2> DEFINE j == [job[w] EXCEPT !.step = "cancel", !.action = b]
  <2>2. j \in Jobs /\ j.action = b
    BY <1>a DEF Steps, Jobs
  <2>3. job' = [job EXCEPT ![w] = j]
    BY <2>1
  <2> HIDE DEF j
  <2>4. job' \in [Workers -> Jobs] /\ JobsHoldAction'
    BY <2>2, <2>3, JobSet
  <2> QED
    BY <1>3, <2>4 DEF SelectSwitch, TypeInv, TypeOK
<1>r. ASSUME Refuse(a), job[w].step \in Holding
      PROVE  log' \in [Actions -> Rows] /\ refused' \subseteq Actions
  <2>1. [log[a] EXCEPT !.confirm = "DECLINED", !.status = "CANCELLED"] \in Rows
    BY <1>a, <1>r, RowUpdate
  <2>2. log' = [log EXCEPT ![a] = [log[a] EXCEPT !.confirm = "DECLINED",
                                                 !.status = "CANCELLED"]]
    BY <1>r DEF Refuse
  <2> QED
    BY <1>a, <1>r, <2>1, <2>2, RowSet DEF Refuse, TypeInv, TypeOK
<1>4. CASE SelectCancel(w)
  <2> DEFINE j == [job[w] EXCEPT !.step = "prepare", !.action = NoAction]
  <2>1. j \in Jobs /\ j.step \notin Holding
    BY <1>a DEF Steps, Jobs, Holding
  <2>2. job' = [job EXCEPT ![w] = j]
    BY <1>4 DEF SelectCancel
  <2> HIDE DEF j
  <2>3. job' \in [Workers -> Jobs] /\ JobsHoldAction'
    BY <2>1, <2>2, JobSet
  <2> QED
    BY <1>4, <1>r, <2>3 DEF SelectCancel, At, Holding, TypeInv, TypeOK
<1>5. CASE SelectMark(w)
  BY <1>5, FinishType DEF SelectMark, TypeInv, TypeOK
<1>6. CASE Prepare(w)
  <2> DEFINE o == job[w].option
             confirm == IF NeedsConfirmation(o) THEN "PENDING" ELSE "NOT_REQUIRED"
             row == [rec |-> job[w].rec, option |-> o, status |-> "PREPARED",
                     confirm |-> confirm]
             j(b) == CASE ~NeedsConfirmation(o) ->
                              [job[w] EXCEPT !.step = "call", !.action = b]
                       [] NeedsConfirmation(o) /\ job[w].rec \in Recs ->
                              [job[w] EXCEPT !.step = "mark"]
                       [] NeedsConfirmation(o) /\ job[w].rec \notin Recs -> Idle
  <2>1. PICK b \in Actions : /\ log' = [log EXCEPT ![b] = row]
                             /\ job' = [job EXCEPT ![w] = j(b)]
    BY <1>6 DEF Prepare, Unprepared
  <2>2. row \in Rows
    BY <1>a, JobFields DEF Rows
  <2>3. j(b) \in Jobs /\ (j(b).step \in Holding => j(b).action \in Actions)
    <3>1. CASE ~NeedsConfirmation(o)
      BY <1>a, <3>1 DEF Jobs, Steps
    <3>2. CASE NeedsConfirmation(o) /\ job[w].rec \in Recs
      BY <1>a, <3>2 DEF Jobs, Steps, Holding
    <3>3. CASE NeedsConfirmation(o) /\ job[w].rec \notin Recs
      BY <3>3, IdleIsJob DEF Idle, Holding
    <3> QED
      BY <3>1, <3>2, <3>3
  <2> HIDE DEF row, j
  <2>4. job' \in [Workers -> Jobs] /\ JobsHoldAction'
    BY <2>1, <2>3, JobSet
  <2>5. log' \in [Actions -> Rows]
    BY <2>1, <2>2, RowSet
  <2> QED
    BY <1>6, <2>4, <2>5 DEF Prepare, SetSignal, TypeInv, TypeOK
<1>7. CASE ConfirmAccept(w)
  <2>1. job[w].step \in Holding /\ "call" \in Steps
    BY <1>7 DEF ConfirmAccept, At, Holding, Steps
  <2>2. job' \in [Workers -> Jobs] /\ JobsHoldAction'
    BY <1>7, <1>a, <2>1, GotoType DEF ConfirmAccept
  <2>3. [log[a] EXCEPT !.confirm = "CONFIRMED"] \in Rows
    BY <1>a, <2>1, RowUpdate
  <2>4. log' = [log EXCEPT ![a] = [log[a] EXCEPT !.confirm = "CONFIRMED"]]
    BY <1>7 DEF ConfirmAccept
  <2>5. log' \in [Actions -> Rows]
    BY <1>a, <2>1, <2>3, <2>4, RowSet
  <2> QED
    BY <1>7, <1>a, <2>1, <2>2, <2>5 DEF ConfirmAccept, TypeInv, TypeOK
<1>8. CASE ConfirmDecline(w)
  BY <1>8, <1>r, FinishType DEF ConfirmDecline, At, Holding, TypeInv, TypeOK
<1>9. CASE Send(w)
  <2>1. job' \in [Workers -> Jobs] /\ JobsHoldAction'
    BY <1>9, <1>a, GotoType DEF Send, At, Holding, Steps
  <2> QED
    BY <1>9, <2>1 DEF Send, TypeInv, TypeOK, CallStates
<1>10. CASE Respond(w)
  <2>1. job' \in [Workers -> Jobs] /\ JobsHoldAction'
    BY <1>10, <1>a, GotoType DEF Respond, StepAfter, At, Holding, Steps
  <2> QED
    BY <1>10, <2>1 DEF Respond, TypeInv, TypeOK, CallStates
<1>11. CASE Timeout(w)
  <2>1. job' \in [Workers -> Jobs] /\ JobsHoldAction'
    BY <1>11, <1>a, GotoType DEF Timeout, At, Holding, Steps
  <2> QED
    BY <1>11, <2>1 DEF Timeout, TypeInv, TypeOK
<1>12. CASE ReportSuccess(w)
  <2>1. job[w].step \in Holding /\ "mark" \in Steps /\ "mark" \notin Holding
    BY <1>12 DEF ReportSuccess, At, Holding, Steps
  <2>2. job' \in [Workers -> Jobs] /\ JobsHoldAction'
    BY <1>12, <2>1, GotoType, FinishType DEF ReportSuccess
  <2>3. [log[a] EXCEPT !.status = "SUCCESS"] \in Rows
    BY <1>a, <2>1, RowUpdate
  <2>4. log' = [log EXCEPT ![a] = [log[a] EXCEPT !.status = "SUCCESS"]]
    BY <1>12 DEF ReportSuccess
  <2>5. log' \in [Actions -> Rows]
    BY <1>a, <2>1, <2>3, <2>4, RowSet
  <2> QED
    BY <1>12, <2>2, <2>5 DEF ReportSuccess, SetSignal, TypeInv, TypeOK
<1>13. CASE ReportFailure(w)
  <2>1. job[w].step \in Holding
    BY <1>13 DEF ReportFailure, At, Holding
  <2>2. job' \in [Workers -> Jobs] /\ JobsHoldAction'
    BY <1>13, FinishType DEF ReportFailure
  <2>3. [log[a] EXCEPT !.status = "FAILED"] \in Rows
    BY <1>a, <2>1, RowUpdate
  <2>4. log' = [log EXCEPT ![a] = [log[a] EXCEPT !.status = "FAILED"]]
    BY <1>13 DEF ReportFailure
  <2>5. log' \in [Actions -> Rows]
    BY <1>a, <2>1, <2>3, <2>4, RowSet
  <2> QED
    BY <1>13, <2>2, <2>5 DEF ReportFailure, TypeInv, TypeOK
<1> QED
  BY <1>1, <1>2, <1>3, <1>4, <1>5, <1>6, <1>7, <1>8, <1>9, <1>10, <1>11, <1>12, <1>13
     DEF Continue

LEMMA CoreType ==
    ASSUME TypeInv, NEW w \in Workers, NEW a \in Actions, CoreStep(w, a)
    PROVE  TypeInv'
<1> USE DEF TypeInv, TypeOK, JobsHoldAction, CallStates, agentVars, coreVars, history
<1>1. CASE CoreLookup(w, a)
  BY <1>1 DEF CoreLookup
<1>2. CASE CoreApply(w, a)
  BY <1>2 DEF CoreApply
<1>3. CASE CoreDuplicate(w, a)
  BY <1>3 DEF CoreDuplicate
<1>4. CASE CoreReject(w, a)
  BY <1>4 DEF CoreReject
<1> QED
  BY <1>1, <1>2, <1>3, <1>4 DEF CoreStep

LEMMA EnvironmentType ==
    ASSUME TypeInv, Crash \/ \E r \in Recs : PassExpiry(r)
    PROVE  TypeInv'
<1>1. CASE Crash
  <2>1. JobsHoldAction' /\ job' \in [Workers -> Jobs]
    BY <1>1, IdleIsJob DEF Crash, JobsHoldAction, Idle, Holding
  <2> QED
    BY <1>1, <2>1 DEF Crash, TypeInv, TypeOK, agentVars, coreVars, history
<1>2. CASE \E r \in Recs : PassExpiry(r)
  BY <1>2 DEF PassExpiry, TypeInv, TypeOK, JobsHoldAction, coreVars, history
<1> QED
  BY <1>1, <1>2

LEMMA NextType == TypeInv /\ [Next]_vars => TypeInv'
<1> SUFFICES ASSUME TypeInv, [Next]_vars PROVE TypeInv'
  OBVIOUS
<1>1. CASE UNCHANGED vars
  BY <1>1 DEF vars, TypeInv, TypeOK, JobsHoldAction
<1>2. CASE Next
  BY <1>2, RequestType, ContinueType, CoreType, EnvironmentType DEF Next
<1> QED
  BY <1>1, <1>2

LEMMA TypeInvariance == Spec => []TypeInv
BY InitType, NextType, PTL DEF Spec

\* Every variable keeps its type, whatever is requested, times out or crashes.
THEOREM TypeCorrect == Spec => []TypeOK
BY TypeInvariance, PTL DEF TypeInv

-----------------------------------------------------------------------------
(* Safety *)

\* The steps of a worker that is executing its action.
Executing == {"call", "wait", "succeed", "fail"}

\* An action has an option from the moment its row is created.
RowsHaveOption ==
    \A a \in Actions : log[a].option = NoOption <=> log[a].status = "ABSENT"

\* A worker that holds an action holds one whose row exists.
JobsHoldRow ==
    \A w \in Workers : job[w].step \in Holding => log[job[w].action].option # NoOption

\* A worker about to prepare an action knows what the action is to be.
JobsHaveOption ==
    \A w \in Workers :
        job[w].step \in {"search", "cancel", "prepare"} => job[w].option \in Options

\* Only an authorised action is executed, and only those reach Core Banking.
JobsAuthorised ==
    \A w \in Workers : job[w].step \in Executing => Authorised(job[w].action)

CallsAuthorised ==
    \A w \in Workers, a \in Actions : call[w][a] # "none" => Authorised(a)

\* Core Banking remembers the key of exactly the actions it applied, once each.
KeysCountEffects ==
    \A a \in Actions : effects[a] = IF a \in keys THEN 1 ELSE 0

KeysAuthorised == \A a \in keys : Authorised(a)

\* A positive answer, a worker that believes it, and the log that records it
\* all speak of a committed effect.
AnswersTrue ==
    /\ \A w \in Workers, a \in Actions : call[w][a] = "ok" => a \in keys
    /\ \A w \in Workers : job[w].step = "succeed" => job[w].action \in keys
    /\ \A a \in Actions : log[a].status = "SUCCESS" => a \in keys

\* Recorded consent concerns an action that exists.
ConsentHasRow == \A a \in consent : log[a].option # NoOption

Safe ==
    /\ RowsHaveOption
    /\ JobsHoldRow
    /\ JobsHaveOption
    /\ JobsAuthorised
    /\ CallsAuthorised
    /\ KeysCountEffects
    /\ KeysAuthorised
    /\ AnswersTrue
    /\ ConsentHasRow
    /\ ActionedMeansApplied

IInv == TypeInv /\ Safe

\* What the two ways to leave a step do to the jobs.
LEMMA GotoFacts ==
    ASSUME TypeInv, NEW w \in Workers, NEW s, Goto(w, s)
    PROVE  /\ job'[w].step = s
           /\ job'[w].action = job[w].action
           /\ job'[w].option = job[w].option
           /\ \A v \in Workers \ {w} : job'[v] = job[v]
BY DEF Goto, TypeInv, TypeOK, Jobs

LEMMA FinishFacts ==
    ASSUME TypeInv, NEW w \in Workers, Finish(w)
    PROVE  /\ job'[w] = Idle
           /\ \A v \in Workers \ {w} : job'[v] = job[v]
BY DEF Finish, TypeInv, TypeOK

\* Changing the two status columns of a row leaves what the action is alone.
LEMMA RowFacts ==
    ASSUME TypeInv, NEW a \in Actions, NEW c, NEW s,
           \/ log' = [log EXCEPT ![a].confirm = c]
           \/ log' = [log EXCEPT ![a].status = s]
           \/ log' = [log EXCEPT ![a].confirm = c, ![a].status = s]
    PROVE  /\ \A b \in Actions : log'[b].option = log[b].option /\ log'[b].rec = log[b].rec
           /\ \A b \in Actions \ {a} : log'[b].status = log[b].status
           /\ log'[a].status \in {s, log[a].status}
<1>1. log[a] \in Rows /\ log \in [Actions -> Rows]
  BY DEF TypeInv, TypeOK
<1>2. \A b \in Actions \ {a} : log'[b] = log[b]
  BY <1>1
<1>3. CASE log' = [log EXCEPT ![a].confirm = c]
  BY <1>1, <1>2, <1>3 DEF Rows
<1>4. CASE log' = [log EXCEPT ![a].status = s]
  BY <1>1, <1>2, <1>4 DEF Rows
<1>5. CASE log' = [log EXCEPT ![a].confirm = c, ![a].status = s]
  BY <1>1, <1>2, <1>5 DEF Rows
<1> QED
  BY <1>3, <1>4, <1>5

\* A step that changes only jobs and the status columns of rows that exist
\* keeps the invariant, if the jobs it changes keep theirs.
LEMMA SafeStep ==
    ASSUME IInv, NEW w \in Workers, TypeInv',
           \A v \in Workers \ {w} : job'[v] = job[v],
           job'[w].step \in Holding => log[job'[w].action].option # NoOption,
           job'[w].step \in {"search", "cancel", "prepare"} => job'[w].option \in Options,
           job'[w].step \in Executing =>
              log[job'[w].action].option \in Exempt \/ job'[w].action \in consent',
           job'[w].step = "succeed" => job'[w].action \in keys,
           \A b \in Actions : log'[b].option = log[b].option /\ log'[b].rec = log[b].rec,
           \A b \in Actions : log'[b].status # log[b].status =>
              log[b].option # NoOption /\ log'[b].status # "ABSENT",
           \A b \in Actions : log'[b].status = "SUCCESS" => b \in keys,
           consent \subseteq consent',
           \A b \in consent' : b \in consent \/ log[b].option # NoOption,
           \A v \in Workers, b \in Actions :
              call'[v][b] # call[v][b] => Authorised(b) /\ (call'[v][b] = "ok" => b \in keys),
           \A s \in Signals : signal'[s] = "ACTIONED" =>
              \/ signal[s] = "ACTIONED"
              \/ \E a \in Actions : log[a].rec \in Recs /\ SignalOf[log[a].rec] = s /\ a \in keys,
           UNCHANGED <<keys, effects>>
    PROVE  IInv'
<1> USE DEF IInv, Safe
<1>0. \A b \in Actions : Authorised(b) => Authorised(b)'
  BY DEF Authorised
<1>t. /\ \A v \in Workers : job[v].step \in Holding => job[v].action \in Actions
      /\ \A v \in Workers : job'[v].step \in Holding => job'[v].action \in Actions
      /\ consent' \subseteq Actions
      /\ keys \subseteq Actions
      /\ Executing \subseteq Holding
  BY DEF TypeInv, TypeOK, JobsHoldAction, Executing, Holding
<1>1. RowsHaveOption'
  BY DEF RowsHaveOption
<1>2. JobsHoldRow'
  BY <1>t DEF JobsHoldRow
<1>3. JobsHaveOption'
  BY DEF JobsHaveOption
<1>4. JobsAuthorised'
  BY <1>0, <1>t DEF JobsAuthorised, Authorised
<1>5. CallsAuthorised'
  BY <1>0 DEF CallsAuthorised
<1>6. KeysCountEffects'
  BY DEF KeysCountEffects
<1>7. KeysAuthorised'
  BY <1>0, <1>t DEF KeysAuthorised
<1>8. AnswersTrue'
  BY DEF AnswersTrue
<1>9. ConsentHasRow'
  BY <1>t DEF ConsentHasRow
<1>10. ActionedMeansApplied'
  BY <1>t DEF ActionedMeansApplied, Applied, KeysCountEffects
<1> QED
  BY <1>1, <1>2, <1>3, <1>4, <1>5, <1>6, <1>7, <1>8, <1>9, <1>10

LEMMA RequestSafe ==
    ASSUME IInv, NEW w \in Workers, Request(w)
    PROVE  IInv'
<1> USE DEF agentVars, coreVars, history, IInv
<1>1. TypeInv'
  BY RequestType
<1>2. \A a \in Actions : log[a].status = "SUCCESS" => a \in keys
  BY DEF Safe, AnswersTrue
<1>3. ASSUME NEW r \in Recs, NEW o \in Options, SelectLoad(w, r, o)
      PROVE  IInv'
  <2>1. /\ \A v \in Workers \ {w} : job'[v] = job[v]
        /\ job'[w].step \in {"search", "expire", "prepare"}
        /\ job'[w].option = o
    BY <1>3 DEF SelectLoad, TypeInv, TypeOK
  <2> QED
    BY <1>1, <1>2, <1>3, <2>1, SafeStep DEF SelectLoad, Holding, Executing
<1>4. ASSUME NEW o \in Options, DirectRequest(w, o)
      PROVE  IInv'
  <2>1. /\ \A v \in Workers \ {w} : job'[v] = job[v]
        /\ job'[w].step = "prepare"
        /\ job'[w].option = o
    BY <1>4 DEF DirectRequest, TypeInv, TypeOK, Idle
  <2> QED
    BY <1>1, <1>2, <1>4, <2>1, SafeStep DEF DirectRequest, Holding, Executing
<1>5. ASSUME NEW a \in Actions, NEW confirmed \in BOOLEAN, ConfirmLoad(w, a, confirmed)
      PROVE  IInv'
  <2>1. /\ \A v \in Workers \ {w} : job'[v] = job[v]
        /\ job'[w].step \in {"accept", "decline"}
        /\ job'[w].action = a
    BY <1>5 DEF ConfirmLoad, TypeInv, TypeOK, Idle
  <2>2. log[a].option # NoOption
    BY <1>5 DEF ConfirmLoad, Confirmable, Awaiting, Safe, RowsHaveOption
  <2> QED
    BY <1>1, <1>2, <1>5, <2>1, <2>2, SafeStep DEF ConfirmLoad, Holding, Executing
<1> QED
  BY <1>3, <1>4, <1>5 DEF Request

\* A prepared action gets an id whose row did not exist: nobody has confirmed
\* it, Core Banking has not seen it, and the row is written once.
LEMMA PrepareSafe ==
    ASSUME IInv, NEW w \in Workers, Prepare(w)
    PROVE  IInv'
<1> USE DEF agentVars, coreVars, history, IInv
<1>1. TypeInv' /\ Continue(w)
  BY ContinueType DEF Continue
<1>2. PICK b \in Unprepared :
         /\ log' = [log EXCEPT ![b] =
               [rec |-> job[w].rec, option |-> job[w].option, status |-> "PREPARED",
                confirm |-> IF NeedsConfirmation(job[w].option) THEN "PENDING"
                                                                ELSE "NOT_REQUIRED"]]
         /\ job' = [job EXCEPT ![w] =
               CASE ~NeedsConfirmation(job[w].option) ->
                          [@ EXCEPT !.step = "call", !.action = b]
                 [] NeedsConfirmation(job[w].option) /\ job[w].rec \in Recs ->
                          [@ EXCEPT !.step = "mark"]
                 [] NeedsConfirmation(job[w].option) /\ job[w].rec \notin Recs -> Idle]
  BY DEF Prepare
<1>3. /\ b \in Actions
      /\ log[b].option = NoOption
      /\ job[w] \in Jobs
      /\ job[w].option \in Options
      /\ job[w].option # NoOption
  BY <1>2, ConstantsAssumption
     DEF Unprepared, Prepare, At, TypeInv, TypeOK, Safe, RowsHaveOption, JobsHaveOption
<1>4. /\ log'[b].option = job[w].option
      /\ log'[b].status = "PREPARED"
      /\ \A a \in Actions \ {b} : log'[a] = log[a]
  BY <1>2, <1>3 DEF TypeInv, TypeOK
<1>5. /\ \A v \in Workers \ {w} : job'[v] = job[v]
      /\ \/ /\ job[w].option \in Exempt
            /\ job'[w].step = "call"
            /\ job'[w].action = b
         \/ job'[w].step \in {"mark", "idle"}
  <2>1. CASE ~NeedsConfirmation(job[w].option)
    BY <1>2, <1>3, <2>1 DEF NeedsConfirmation, TypeInv, TypeOK, Jobs
  <2>2. CASE NeedsConfirmation(job[w].option) /\ job[w].rec \in Recs
    BY <1>2, <1>3, <2>2 DEF TypeInv, TypeOK, Jobs
  <2>3. CASE NeedsConfirmation(job[w].option) /\ job[w].rec \notin Recs
    BY <1>2, <1>3, <2>3 DEF TypeInv, TypeOK, Idle
  <2> QED
    BY <2>1, <2>2, <2>3
<1>6. UNCHANGED <<keys, effects, call, consent>>
  BY DEF Prepare
<1>7. ~Authorised(b) /\ b \notin keys /\ b \notin consent
  BY <1>3, ConstantsAssumption
     DEF Authorised, Safe, ConsentHasRow, KeysAuthorised, TypeInv, TypeOK
<1>8. \A a \in Actions : Authorised(a) => a # b /\ Authorised(a)'
  BY <1>4, <1>6, <1>7 DEF Authorised
<1>t. /\ \A v \in Workers : job[v].step \in Holding => job[v].action \in Actions
      /\ consent \subseteq Actions
      /\ keys \subseteq Actions
      /\ Executing \subseteq Holding
  BY DEF TypeInv, TypeOK, JobsHoldAction, Executing, Holding
<1>9. RowsHaveOption'
  BY <1>3, <1>4 DEF Safe, RowsHaveOption
<1>10. JobsHoldRow'
  BY <1>3, <1>4, <1>5, <1>t DEF Safe, JobsHoldRow, Holding
<1>11. JobsHaveOption'
  BY <1>5 DEF Safe, JobsHaveOption
<1>12. JobsAuthorised'
  BY <1>4, <1>5, <1>8, <1>t DEF Safe, JobsAuthorised, Authorised, Executing
<1>13. CallsAuthorised'
  BY <1>6, <1>8 DEF Safe, CallsAuthorised
<1>14. KeysCountEffects'
  BY <1>6 DEF Safe, KeysCountEffects
<1>15. KeysAuthorised'
  BY <1>6, <1>8, <1>t DEF Safe, KeysAuthorised
<1>16. AnswersTrue'
  BY <1>4, <1>5, <1>6 DEF Safe, AnswersTrue
<1>17. ConsentHasRow'
  BY <1>3, <1>4, <1>6, <1>t DEF Safe, ConsentHasRow
<1>18. ActionedMeansApplied'
  <2>1. \A s \in Signals : signal'[s] = "ACTIONED" => signal[s] = "ACTIONED"
    BY DEF Prepare, SetSignal, TypeInv, TypeOK
  <2>2. ~Applied(b)
    BY <1>3, <1>7 DEF Applied, Safe, KeysCountEffects
  <2> QED
    BY <1>4, <1>6, <2>1, <2>2 DEF Safe, ActionedMeansApplied, Applied
<1> QED
  BY <1>1, <1>9, <1>10, <1>11, <1>12, <1>13, <1>14, <1>15, <1>16, <1>17, <1>18 DEF Safe

\* The two ways a draft is refused.
LEMMA RefuseFacts ==
    ASSUME TypeInv, NEW a \in Actions, Refuse(a)
    PROVE  /\ \A b \in Actions : log'[b].option = log[b].option /\ log'[b].rec = log[b].rec
           /\ \A b \in Actions : log'[b].status # log[b].status =>
                 b = a /\ log'[b].status = "CANCELLED"
<1>1. log' = [log EXCEPT ![a].confirm = "DECLINED", ![a].status = "CANCELLED"]
  BY DEF Refuse
<1> QED
  BY <1>1, RowFacts

LEMMA ContinueSafe ==
    ASSUME IInv, NEW w \in Workers, Continue(w)
    PROVE  IInv'
<1> USE DEF agentVars, coreVars, history, IInv, At
<1> DEFINE a == job[w].action
<1>t. TypeInv'
  BY ContinueType
<1>h. job[w].step \in Holding => a \in Actions /\ log[a].option # NoOption
  BY DEF TypeInv, JobsHoldAction, Safe, JobsHoldRow
<1>x. job[w].step \in Executing => Authorised(a)
  BY DEF Safe, JobsAuthorised
<1>s. \A b \in Actions : log[b].status = "SUCCESS" => b \in keys
  BY DEF Safe, AnswersTrue
<1>f. Finish(w) => /\ job'[w].step = "idle"
                   /\ \A v \in Workers \ {w} : job'[v] = job[v]
  BY FinishFacts DEF Idle
<1>i. "idle" \notin Holding /\ "idle" \notin Executing
  BY DEF Holding, Executing
<1>1. CASE SelectExpire(w)
  BY <1>1, <1>t, <1>s, <1>f, <1>i, SafeStep DEF SelectExpire
<1>2. CASE SelectReopen(w)
  BY <1>2, <1>t, <1>s, <1>f, <1>i, SafeStep DEF SelectReopen
<1>3. CASE SelectSwitch(w)
  <2>1. PICK b \in Actions : /\ Awaiting(b)
                             /\ job' = [job EXCEPT ![w].step = "cancel", ![w].action = b]
    BY <1>3 DEF SelectSwitch, Pending
  <2>2. job[w] \in Jobs /\ job \in [Workers -> Jobs]
    BY DEF TypeInv, TypeOK
  <2>3. /\ \A v \in Workers \ {w} : job'[v] = job[v]
        /\ job'[w].step = "cancel" /\ job'[w].action = b
        /\ job'[w].option = job[w].option
    BY <2>1, <2>2 DEF Jobs
  <2>4. log[b].option # NoOption
    BY <2>1 DEF Awaiting, Safe, RowsHaveOption
  <2>5. job[w].option \in Options
    BY <1>3 DEF SelectSwitch, Safe, JobsHaveOption
  <2> QED
    BY <1>3, <1>t, <1>s, <2>3, <2>4, <2>5, SafeStep DEF SelectSwitch, Executing
<1>4. CASE SelectCancel(w)
  <2>1. job[w] \in Jobs /\ job \in [Workers -> Jobs]
    BY DEF TypeInv, TypeOK
  <2>2. /\ \A v \in Workers \ {w} : job'[v] = job[v]
        /\ job'[w].step = "prepare"
        /\ job'[w].option = job[w].option
    BY <1>4, <2>1 DEF SelectCancel, Jobs
  <2>3. job[w].option \in Options /\ a \in Actions /\ log[a].option # NoOption
    BY <1>4, <1>h DEF SelectCancel, Safe, JobsHaveOption, Holding
  <2>4. /\ \A b \in Actions : log'[b].option = log[b].option /\ log'[b].rec = log[b].rec
        /\ \A b \in Actions : log'[b].status # log[b].status =>
              b = a /\ log'[b].status = "CANCELLED"
    BY <1>4, <2>3, RefuseFacts DEF SelectCancel
  <2> QED
    BY <1>4, <1>t, <1>s, <2>2, <2>3, <2>4, SafeStep DEF SelectCancel, Executing, Holding
<1>5. CASE SelectMark(w)
  BY <1>5, <1>t, <1>s, <1>f, <1>i, SafeStep DEF SelectMark
<1>6. CASE Prepare(w)
  BY <1>6, PrepareSafe
<1>7. CASE ConfirmAccept(w)
  <2>1. a \in Actions /\ log[a].option # NoOption
    BY <1>7, <1>h DEF ConfirmAccept, Holding
  <2>2. /\ job'[w].step = "call" /\ job'[w].action = a
        /\ \A v \in Workers \ {w} : job'[v] = job[v]
    BY <1>7, GotoFacts DEF ConfirmAccept
  <2>3. log' = [log EXCEPT ![a].confirm = "CONFIRMED"]
    BY <1>7 DEF ConfirmAccept
  <2>4. /\ \A b \in Actions : log'[b].option = log[b].option /\ log'[b].rec = log[b].rec
        /\ \A b \in Actions : log'[b].status = log[b].status
    BY <2>1, <2>3, RowFacts
  <2> QED
    BY <1>7, <1>t, <1>s, <2>1, <2>2, <2>4, SafeStep DEF ConfirmAccept, Executing
<1>8. CASE ConfirmDecline(w)
  <2>1. a \in Actions /\ log[a].option # NoOption
    BY <1>8, <1>h DEF ConfirmDecline, Holding
  <2>2. /\ \A b \in Actions : log'[b].option = log[b].option /\ log'[b].rec = log[b].rec
        /\ \A b \in Actions : log'[b].status # log[b].status =>
              b = a /\ log'[b].status = "CANCELLED"
    BY <1>8, <2>1, RefuseFacts DEF ConfirmDecline
  <2> QED
    BY <1>8, <1>t, <1>s, <1>f, <1>i, <2>1, <2>2, SafeStep DEF ConfirmDecline
<1>9. CASE Send(w)
  <2>1. /\ a \in Actions /\ log[a].option # NoOption /\ Authorised(a)
    BY <1>9, <1>h, <1>x DEF Send, Holding, Executing
  <2>2. /\ job'[w].step = "wait" /\ job'[w].action = a
        /\ \A v \in Workers \ {w} : job'[v] = job[v]
    BY <1>9, GotoFacts DEF Send
  <2>3. \A v \in Workers, b \in Actions :
           call'[v][b] # call[v][b] => b = a /\ call'[v][b] = "sent"
    BY <1>9, <2>1 DEF Send, TypeInv, TypeOK
  <2> QED
    BY <1>9, <1>t, <1>s, <2>1, <2>2, <2>3, SafeStep DEF Send, Authorised
<1>10. CASE Respond(w)
  <2>1. /\ a \in Actions /\ log[a].option # NoOption /\ Authorised(a)
    BY <1>10, <1>h, <1>x DEF Respond, Holding, Executing
  <2>2. /\ job'[w].step = StepAfter(call[w][a]) /\ job'[w].action = a
        /\ \A v \in Workers \ {w} : job'[v] = job[v]
    BY <1>10, GotoFacts DEF Respond
  <2>3. \A v \in Workers, b \in Actions :
           call'[v][b] # call[v][b] => b = a /\ call'[v][b] = "closed"
    BY <1>10, <2>1 DEF Respond, TypeInv, TypeOK
  <2>4. job'[w].step \in {"succeed", "fail"} /\ (job'[w].step = "succeed" => a \in keys)
    BY <2>1, <2>2 DEF StepAfter, Safe, AnswersTrue
  <2> QED
    BY <1>10, <1>t, <1>s, <2>1, <2>2, <2>3, <2>4, SafeStep DEF Respond, Authorised
<1>11. CASE Timeout(w)
  <2>1. /\ a \in Actions /\ log[a].option # NoOption /\ Authorised(a)
    BY <1>11, <1>h, <1>x DEF Timeout, Holding, Executing
  <2>2. /\ job'[w].step = "fail" /\ job'[w].action = a
        /\ \A v \in Workers \ {w} : job'[v] = job[v]
    BY <1>11, GotoFacts DEF Timeout
  <2> QED
    BY <1>11, <1>t, <1>s, <2>1, <2>2, SafeStep DEF Timeout, Authorised
<1>12. CASE ReportSuccess(w)
  <2>1. /\ a \in Actions /\ log[a].option # NoOption /\ a \in keys
    BY <1>12, <1>h DEF ReportSuccess, Holding, Safe, AnswersTrue
  <2>2. /\ job'[w].step \in {"mark", "idle"}
        /\ \A v \in Workers \ {w} : job'[v] = job[v]
    BY <1>12, <1>f, GotoFacts DEF ReportSuccess
  <2>3. log' = [log EXCEPT ![a].status = "SUCCESS"]
    BY <1>12 DEF ReportSuccess
  <2>4. /\ \A b \in Actions : log'[b].option = log[b].option /\ log'[b].rec = log[b].rec
        /\ \A b \in Actions : log'[b].status # log[b].status =>
              b = a /\ log'[b].status = "SUCCESS"
    BY <2>1, <2>3, RowFacts
  <2>5. \A s \in Signals : signal'[s] = "ACTIONED" =>
           signal[s] = "ACTIONED" \/ (log[a].rec \in Recs /\ SignalOf[log[a].rec] = s)
    BY <1>12 DEF ReportSuccess, SetSignal, TypeInv, TypeOK
  <2>6. \A b \in Actions : log'[b].status = "SUCCESS" => b \in keys
    BY <1>s, <2>1, <2>4
  <2> HIDE DEF a
  <2> QED
    BY <1>12, <1>t, <2>1, <2>2, <2>4, <2>5, <2>6, SafeStep
       DEF ReportSuccess, Executing, Holding
<1>13. CASE ReportFailure(w)
  <2>1. a \in Actions /\ log[a].option # NoOption
    BY <1>13, <1>h DEF ReportFailure, Holding
  <2>2. log' = [log EXCEPT ![a].status = "FAILED"]
    BY <1>13 DEF ReportFailure
  <2>3. /\ \A b \in Actions : log'[b].option = log[b].option /\ log'[b].rec = log[b].rec
        /\ \A b \in Actions : log'[b].status # log[b].status =>
              b = a /\ log'[b].status = "FAILED"
    BY <2>1, <2>2, RowFacts
  <2> QED
    BY <1>13, <1>t, <1>s, <1>f, <1>i, <2>1, <2>3, SafeStep DEF ReportFailure
<1> QED
  BY <1>1, <1>2, <1>3, <1>4, <1>5, <1>6, <1>7, <1>8, <1>9, <1>10, <1>11, <1>12, <1>13
     DEF Continue

LEMMA CoreSafe ==
    ASSUME IInv, NEW w \in Workers, NEW a \in Actions, CoreStep(w, a)
    PROVE  IInv'
<1> USE DEF agentVars, coreVars, history, IInv
<1>1. TypeInv'
  BY CoreType
<1>2. /\ UNCHANGED <<log, job, signal, consent>>
      /\ keys \subseteq keys'
      /\ call[w][a] \in {"sent", "missed"}
      /\ \A v \in Workers, b \in Actions :
            call'[v][b] # call[v][b] => v = w /\ b = a /\ (call'[v][b] = "ok" => b \in keys')
      /\ keys' \in {keys, keys \cup {a}}
      /\ \/ UNCHANGED <<keys, effects>>
         \/ a \notin keys /\ keys' = keys \cup {a} /\ effects' = [effects EXCEPT ![a] = @ + 1]
  <2> USE DEF TypeInv, TypeOK
  <2>1. CASE CoreLookup(w, a)
    BY <2>1 DEF CoreLookup
  <2>2. CASE CoreApply(w, a)
    BY <2>2 DEF CoreApply, KeyFree
  <2>3. CASE CoreDuplicate(w, a)
    BY <2>3 DEF CoreDuplicate
  <2>4. CASE CoreReject(w, a)
    BY <2>4 DEF CoreReject
  <2> QED
    BY <2>1, <2>2, <2>3, <2>4 DEF CoreStep
<1>3. Authorised(a)
  BY <1>2 DEF Safe, CallsAuthorised
<1>4. \A b \in Actions : Authorised(b)' <=> Authorised(b)
  BY <1>2 DEF Authorised
<1>5. RowsHaveOption' /\ JobsHoldRow' /\ JobsHaveOption' /\ ConsentHasRow'
  BY <1>2 DEF Safe, RowsHaveOption, JobsHoldRow, JobsHaveOption, ConsentHasRow
<1>6. JobsAuthorised'
  BY <1>2 DEF Safe, JobsAuthorised, Authorised
<1>7. CallsAuthorised'
  BY <1>2, <1>3, <1>4 DEF Safe, CallsAuthorised
<1>8. KeysCountEffects'
  BY <1>2 DEF Safe, KeysCountEffects, TypeInv, TypeOK
<1>9. KeysAuthorised'
  BY <1>2, <1>3, <1>4 DEF Safe, KeysAuthorised, TypeInv, TypeOK
<1>10. AnswersTrue'
  BY <1>2 DEF Safe, AnswersTrue
<1>11. ActionedMeansApplied'
  <2>1. \A b \in Actions : Applied(b) => Applied(b)'
    BY <1>2 DEF Applied, TypeInv, TypeOK
  <2> QED
    BY <1>2, <2>1 DEF Safe, ActionedMeansApplied
<1> QED
  BY <1>1, <1>5, <1>6, <1>7, <1>8, <1>9, <1>10, <1>11 DEF Safe

LEMMA EnvironmentSafe ==
    ASSUME IInv, Crash \/ \E r \in Recs : PassExpiry(r)
    PROVE  IInv'
<1> USE DEF agentVars, coreVars, history, IInv
<1>1. TypeInv'
  BY EnvironmentType
<1>2. /\ UNCHANGED <<signal, log, call, keys, effects, consent>>
      /\ \A w \in Workers : job'[w] \in {job[w], Idle}
  BY DEF Crash, PassExpiry, TypeInv, TypeOK
<1>3. \A w \in Workers : job'[w].step # "idle" => job'[w] = job[w]
  BY <1>2 DEF Idle
<1>4. /\ "idle" \notin Holding /\ "idle" \notin Executing
      /\ \A b \in Actions : Authorised(b)' <=> Authorised(b)
      /\ \A b \in Actions : Applied(b)' <=> Applied(b)
  BY <1>2 DEF Holding, Executing, Authorised, Applied
<1>5. JobsHoldRow' /\ JobsHaveOption' /\ JobsAuthorised' /\ AnswersTrue'
  BY <1>2, <1>3, <1>4 DEF Safe, JobsHoldRow, JobsHaveOption, JobsAuthorised, AnswersTrue,
     Authorised
<1>6. /\ RowsHaveOption' /\ CallsAuthorised' /\ KeysCountEffects' /\ KeysAuthorised'
      /\ ConsentHasRow' /\ ActionedMeansApplied'
  BY <1>2, <1>4 DEF Safe, RowsHaveOption, CallsAuthorised, KeysCountEffects,
     KeysAuthorised, ConsentHasRow, ActionedMeansApplied, Authorised, Applied
<1> QED
  BY <1>1, <1>5, <1>6 DEF Safe

LEMMA InitSafe == Init => IInv
BY InitType, ConstantsAssumption
   DEF Init, IInv, Safe, RowsHaveOption, JobsHoldRow, JobsHaveOption, JobsAuthorised,
       CallsAuthorised, KeysCountEffects, KeysAuthorised, AnswersTrue, ConsentHasRow,
       ActionedMeansApplied, Idle, NoRow, Holding, Executing

LEMMA NextSafe == IInv /\ [Next]_vars => IInv'
<1> SUFFICES ASSUME IInv, [Next]_vars PROVE IInv'
  OBVIOUS
<1>1. CASE UNCHANGED vars
  BY <1>1 DEF vars, IInv, TypeInv, TypeOK, JobsHoldAction, Safe, RowsHaveOption,
     JobsHoldRow, JobsHaveOption, JobsAuthorised, CallsAuthorised, KeysCountEffects,
     KeysAuthorised, AnswersTrue, ConsentHasRow, ActionedMeansApplied, Authorised, Applied
<1>2. CASE Next
  BY <1>2, RequestSafe, ContinueSafe, CoreSafe, EnvironmentSafe DEF Next
<1> QED
  BY <1>1, <1>2

LEMMA Invariance == Spec => []IInv
BY InitSafe, NextSafe, PTL DEF Spec

\* Core Banking applies an action at most once, however often and however
\* concurrently the agent asks for it, and whether or not it hears the answer.
THEOREM ActionsApplyAtMostOnce == Spec => []AtMostOnce
<1>1. IInv => AtMostOnce
  BY DEF IInv, Safe, KeysCountEffects, AtMostOnce
<1> QED
  BY <1>1, Invariance, PTL

\* No action that needs a confirmation is applied without a committed one.
THEOREM EffectsAreAuthorised == Spec => []EffectAuthorised
<1>1. IInv => EffectAuthorised
  BY DEF IInv, Safe, KeysCountEffects, KeysAuthorised, EffectAuthorised, Applied
<1> QED
  BY <1>1, Invariance, PTL

\* The audit log reports a success only of an action that took effect.
LEMMA SuccessIsTrue == Spec => []SuccessMeansApplied
<1>1. IInv => SuccessMeansApplied
  BY DEF IInv, Safe, KeysCountEffects, AnswersTrue, SuccessMeansApplied, Applied
<1> QED
  BY <1>1, Invariance, PTL

\* A signal is settled only by an action that took effect.
LEMMA ActionedIsTrue == Spec => []ActionedMeansApplied
<1>1. IInv => ActionedMeansApplied
  BY DEF IInv, Safe
<1> QED
  BY <1>1, Invariance, PTL

\* What the agent reports of actions and of signals has happened.
THEOREM ReportsAreTrue == Spec => []ReportsTrue
<1>1. SuccessMeansApplied /\ ActionedMeansApplied => ReportsTrue
  BY DEF ReportsTrue
<1> QED
  BY <1>1, SuccessIsTrue, ActionedIsTrue, PTL

-----------------------------------------------------------------------------
(* Refinement: the workflow implements ActionContract *)

Drafts == [a \in Actions |-> log[a].option]
Succeeded == {a \in Actions : log[a].status = "SUCCESS"}

\* Steps that only change the status columns of rows: at most one success is
\* withdrawn.
LEMMA WithdrawStep ==
    ASSUME UNCHANGED <<consent, effects>>, NEW a \in Actions,
           \A b \in Actions : log'[b].option = log[b].option,
           \A b \in Actions : log'[b].status # log[b].status =>
              b = a /\ log'[b].status # "SUCCESS"
    PROVE  [Contract!Next]_(Contract!vars)
<1>1. Drafts' = Drafts
  BY DEF Drafts
<1>2. Succeeded' = Succeeded \/ Succeeded' = Succeeded \ {a}
  <2>1. CASE log'[a].status = log[a].status
    BY <2>1 DEF Succeeded
  <2>2. CASE log'[a].status # log[a].status
    BY <2>2 DEF Succeeded
  <2> QED
    BY <2>1, <2>2
<1>3. CASE Succeeded' = Succeeded
  BY <1>1, <1>3 DEF Contract!vars, Drafts, Succeeded
<1>4. CASE Succeeded' = Succeeded \ {a}
  <2>1. Contract!Withdraw(a)
    BY <1>1, <1>4 DEF Contract!Withdraw, Drafts, Succeeded
  <2> QED
    BY <2>1 DEF Contract!Next
<1> QED
  BY <1>2, <1>3, <1>4

LEMMA ProposeStep ==
    ASSUME NEW a \in Actions, NEW o \in Options, Contract!Propose(a, o)
    PROVE  Contract!Next
BY DEF Contract!Next

LEMMA ContractStep ==
    ASSUME NEW a \in Actions,
           \/ Contract!Consent(a)
           \/ Contract!Apply(a)
           \/ Contract!ReportSuccess(a)
           \/ Contract!Withdraw(a)
    PROVE  Contract!Next
BY DEF Contract!Next

LEMMA QuietStep ==
    ASSUME UNCHANGED <<log, consent, effects>>
    PROVE  [Contract!Next]_(Contract!vars)
BY DEF Contract!vars

LEMMA ContinueImplements ==
    ASSUME IInv, NEW w \in Workers, Continue(w)
    PROVE  [Contract!Next]_(Contract!vars)
<1> USE DEF agentVars, coreVars, history, IInv, At
<1> DEFINE a == job[w].action
<1>h. job[w].step \in Holding => a \in Actions /\ log[a].option # NoOption
  BY DEF TypeInv, JobsHoldAction, Safe, JobsHoldRow
<1>1. CASE SelectExpire(w) \/ SelectReopen(w) \/ SelectSwitch(w) \/ SelectMark(w)
  BY <1>1, QuietStep DEF SelectExpire, SelectReopen, SelectSwitch, SelectMark
<1>2. CASE SelectCancel(w) \/ ConfirmDecline(w)
  <2>1. a \in Actions /\ Refuse(a) /\ UNCHANGED <<consent, effects>>
    BY <1>2, <1>h DEF SelectCancel, ConfirmDecline, Holding
  <2> QED
    BY <2>1, RefuseFacts, WithdrawStep
<1>3. CASE Prepare(w)
  <2>1. PICK b \in Unprepared :
           log' = [log EXCEPT ![b] =
               [rec |-> job[w].rec, option |-> job[w].option, status |-> "PREPARED",
                confirm |-> IF NeedsConfirmation(job[w].option) THEN "PENDING"
                                                                ELSE "NOT_REQUIRED"]]
    BY <1>3 DEF Prepare
  <2>2. /\ b \in Actions
        /\ log[b].option = NoOption
        /\ log[b].status = "ABSENT"
        /\ job[w].option \in Options
    BY <1>3, <2>1 DEF Unprepared, Prepare, Safe, RowsHaveOption, JobsHaveOption
  <2>3. /\ log'[b].option = job[w].option
        /\ log'[b].status = "PREPARED"
        /\ \A c \in Actions \ {b} : log'[c] = log[c]
    BY <2>1, <2>2 DEF TypeInv, TypeOK
  <2>4. Drafts[b] = NoOption /\ Drafts' = [Drafts EXCEPT ![b] = job[w].option]
    BY <2>2, <2>3 DEF Drafts
  <2>5. Succeeded' = Succeeded
    BY <2>2, <2>3 DEF Succeeded
  <2>6. PICK o \in Options : o = job[w].option
    BY <2>2
  <2>7. Contract!Propose(b, o)
    BY <1>3, <2>4, <2>5, <2>6 DEF Contract!Propose, Drafts, Succeeded, Prepare
  <2> QED
    BY <2>2, <2>7, ProposeStep
<1>4. CASE ConfirmAccept(w)
  <2>1. a \in Actions /\ log[a].option # NoOption
    BY <1>4, <1>h DEF ConfirmAccept, Holding
  <2>2. log' = [log EXCEPT ![a].confirm = "CONFIRMED"]
    BY <1>4 DEF ConfirmAccept
  <2>3. /\ \A b \in Actions : log'[b].option = log[b].option
        /\ \A b \in Actions : log'[b].status = log[b].status
    BY <2>1, <2>2, RowFacts
  <2>4. Drafts' = Drafts /\ Succeeded' = Succeeded /\ Drafts[a] # NoOption
    BY <2>1, <2>3 DEF Drafts, Succeeded
  <2>5. Contract!Consent(a)
    BY <1>4, <2>4 DEF Contract!Consent, Drafts, Succeeded, ConfirmAccept
  <2> QED
    BY <2>1, <2>5, ContractStep
<1>5. CASE Send(w) \/ Respond(w) \/ Timeout(w)
  BY <1>5, QuietStep DEF Send, Respond, Timeout
<1>6. CASE ReportSuccess(w)
  <2>1. /\ a \in Actions /\ log[a].option # NoOption /\ effects[a] = 1
    BY <1>6, <1>h DEF ReportSuccess, Holding, Safe, AnswersTrue, KeysCountEffects
  <2>2. log' = [log EXCEPT ![a].status = "SUCCESS"]
    BY <1>6 DEF ReportSuccess
  <2>3. /\ \A b \in Actions : log'[b].option = log[b].option
        /\ \A b \in Actions \ {a} : log'[b].status = log[b].status
    BY <2>1, <2>2, RowFacts
  <2>4. log'[a].status = "SUCCESS"
    BY <2>1, <2>2 DEF TypeInv, TypeOK, Rows
  <2>5. Drafts' = Drafts /\ Succeeded' = Succeeded \cup {a}
    <3> HIDE DEF a
    <3> QED
      BY <2>1, <2>3, <2>4 DEF Drafts, Succeeded
  <2>6. PICK b \in Actions : b = a
    BY <2>1
  <2>7. Contract!ReportSuccess(b)
    BY <1>6, <2>1, <2>5, <2>6 DEF Contract!ReportSuccess, Drafts, Succeeded, ReportSuccess
  <2> QED
    BY <2>6, <2>7, ContractStep
<1>7. CASE ReportFailure(w)
  <2>1. a \in Actions /\ UNCHANGED <<consent, effects>>
    BY <1>7, <1>h DEF ReportFailure, Holding
  <2>2. log' = [log EXCEPT ![a].status = "FAILED"]
    BY <1>7 DEF ReportFailure
  <2> QED
    BY <2>1, <2>2, RowFacts, WithdrawStep
<1> QED
  BY <1>1, <1>2, <1>3, <1>4, <1>5, <1>6, <1>7 DEF Continue

LEMMA CoreImplements ==
    ASSUME IInv, NEW w \in Workers, NEW a \in Actions, CoreStep(w, a)
    PROVE  [Contract!Next]_(Contract!vars)
<1> USE DEF agentVars, coreVars, history, IInv
<1>1. CASE CoreLookup(w, a) \/ CoreDuplicate(w, a) \/ CoreReject(w, a)
  BY <1>1, QuietStep DEF CoreLookup, CoreDuplicate, CoreReject
<1>2. CASE CoreApply(w, a)
  <2>0. effects[a] = 0
    BY <1>2 DEF CoreApply, KeyFree, Safe, KeysCountEffects
  <2>1. effects[a] = 0 /\ effects' = [effects EXCEPT ![a] = 1]
    BY <1>2, <2>0 DEF CoreApply
  <2>2. Authorised(a)
    BY <1>2 DEF CoreApply, Safe, CallsAuthorised
  <2>3. Drafts[a] # NoOption /\ (Drafts[a] \in Exempt \/ a \in consent)
    BY <2>2, ConstantsAssumption DEF Drafts, Authorised, Safe, ConsentHasRow
  <2>4. Contract!Apply(a)
    BY <1>2, <2>1, <2>3 DEF Contract!Apply, CoreApply, Drafts, Succeeded
  <2> QED
    BY <2>4, ContractStep
<1> QED
  BY <1>1, <1>2 DEF CoreStep

\* The workflow, with its threads, timeouts and crashes, keeps the promises of
\* ActionContract for any number of workers and actions.
THEOREM WorkflowKeepsContract == Spec => KeepsContract
<1>1. Init => Contract!Init
  <2> SUFFICES ASSUME Init PROVE Contract!Init
    OBVIOUS
  <2> QED
    BY DEF Init, Contract!Init, NoRow
<1>2. IInv /\ [Next]_vars => [Contract!Next]_(Contract!vars)
  <2> SUFFICES ASSUME IInv, [Next]_vars PROVE [Contract!Next]_(Contract!vars)
    OBVIOUS
  <2>1. CASE UNCHANGED vars
    BY <2>1, QuietStep DEF vars
  <2>2. CASE \E w \in Workers : Request(w)
    BY <2>2, QuietStep DEF Request, SelectLoad, DirectRequest, ConfirmLoad, agentVars,
       coreVars, history
  <2>3. CASE Crash \/ \E r \in Recs : PassExpiry(r)
    BY <2>3, QuietStep DEF Crash, PassExpiry, agentVars, coreVars, history
  <2> QED
    BY <2>1, <2>2, <2>3, ContinueImplements, CoreImplements DEF Next
<1> QED
  BY <1>1, <1>2, Invariance, PTL DEF Spec, KeepsContract, Contract!Spec

-----------------------------------------------------------------------------
(* One request at a time: what the agent promises when nothing is raced *)

\* The agent runs one worker.
OneAtATime == \A v, w \in Workers : v = w

\* The customer has agreed to the action, or need not be asked.
Settled(a) == log[a].confirm \in {"CONFIRMED", "NOT_REQUIRED"}

\* What a worker has read of its action and of its recommendation is still so.
JobCurrent(w) ==
    /\ job[w].step \in {"cancel", "accept", "decline"} => Awaiting(job[w].action)
    /\ job[w].step = "cancel" => log[job[w].action].rec = job[w].rec
    /\ job[w].step \in Executing =>
          log[job[w].action].status = "PREPARED" /\ Settled(job[w].action)
    /\ job[w].rec \in Recs =>
          /\ rec[job[w].rec] \in {"ACTIVE", "SELECTED"}
          /\ job[w].wasActive = (rec[job[w].rec] = "ACTIVE")

\* Core Banking sees settled actions only, and a refused one is closed.
SerialSafe ==
    /\ \A w \in Workers : JobCurrent(w)
    /\ \A w \in Workers, a \in Actions : call[w][a] # "none" => Settled(a)
    /\ \A a \in keys : Settled(a)
    /\ \A a \in refused : log[a].confirm = "DECLINED" /\ log[a].status = "CANCELLED"
    /\ \A a \in Unprepared : log[a].confirm = "NONE"

\* What a step may do to the row of action a.
RowPrepared(w, a) ==
    /\ job[w].step = "prepare"
    /\ log[a].status = "ABSENT"
    /\ log'[a].status = "PREPARED"
    /\ log'[a].rec = job[w].rec
    /\ log'[a].confirm \in {"PENDING", "NOT_REQUIRED"}
    /\ refused' = refused

RowAccepted(a) ==
    /\ Awaiting(a)
    /\ log'[a].rec = log[a].rec /\ log'[a].status = "PREPARED"
    /\ log'[a].confirm = "CONFIRMED"
    /\ refused' = refused

RowRefused(a) ==
    /\ Awaiting(a)
    /\ log'[a].rec = log[a].rec /\ log'[a].status = "CANCELLED"
    /\ log'[a].confirm = "DECLINED"
    /\ refused' = refused \cup {a}

RowReported(a) ==
    /\ log[a].status = "PREPARED" /\ Settled(a)
    /\ log'[a].rec = log[a].rec /\ log'[a].status \in {"SUCCESS", "FAILED"}
    /\ log'[a].confirm = log[a].confirm
    /\ refused' = refused

RowMove(w, a) ==
    /\ \A b \in Actions \ {a} : log'[b] = log[b]
    /\ RowPrepared(w, a) \/ RowAccepted(a) \/ RowRefused(a) \/ RowReported(a)

LEMMA RowFields ==
    ASSUME TypeInv, NEW a \in Actions, NEW c, NEW s
    PROVE  /\ log' = [log EXCEPT ![a].confirm = c] =>
                 /\ \A b \in Actions \ {a} : log'[b] = log[b]
                 /\ log'[a].rec = log[a].rec
                 /\ log'[a].confirm = c /\ log'[a].status = log[a].status
           /\ log' = [log EXCEPT ![a].status = s] =>
                 /\ \A b \in Actions \ {a} : log'[b] = log[b]
                 /\ log'[a].rec = log[a].rec
                 /\ log'[a].confirm = log[a].confirm /\ log'[a].status = s
           /\ log' = [log EXCEPT ![a].confirm = c, ![a].status = s] =>
                 /\ \A b \in Actions \ {a} : log'[b] = log[b]
                 /\ log'[a].rec = log[a].rec
                 /\ log'[a].confirm = c /\ log'[a].status = s
<1>1. log[a] \in Rows /\ log \in [Actions -> Rows]
  BY DEF TypeInv, TypeOK
<1>2. CASE log' = [log EXCEPT ![a].confirm = c]
  BY <1>1, <1>2 DEF Rows
<1>3. CASE log' = [log EXCEPT ![a].status = s]
  BY <1>1, <1>3 DEF Rows
<1>4. CASE log' = [log EXCEPT ![a].confirm = c, ![a].status = s]
  BY <1>1, <1>4 DEF Rows
<1> QED
  BY <1>2, <1>3, <1>4

LEMMA RefuseMoves ==
    ASSUME TypeInv, NEW w \in Workers, NEW a \in Actions, Awaiting(a), Refuse(a)
    PROVE  RowMove(w, a) /\ RowRefused(a)
<1>1. /\ log' = [log EXCEPT ![a].confirm = "DECLINED", ![a].status = "CANCELLED"]
      /\ refused' = refused \cup {a}
  BY DEF Refuse
<1>2. /\ \A b \in Actions \ {a} : log'[b] = log[b]
      /\ log'[a].rec = log[a].rec
      /\ log'[a].confirm = "DECLINED" /\ log'[a].status = "CANCELLED"
  BY <1>1, RowFields
<1> QED
  BY <1>1, <1>2 DEF RowMove, RowRefused

LEMMA PrepareMoves ==
    ASSUME TypeInv, NEW w \in Workers, Prepare(w)
    PROVE  \E a \in Actions :
              /\ RowMove(w, a) /\ RowPrepared(w, a)
              /\ \/ /\ job' = [job EXCEPT ![w] = [job[w] EXCEPT !.step = "call", !.action = a]]
                    /\ log'[a].confirm = "NOT_REQUIRED"
                 \/ /\ job' = [job EXCEPT ![w] = [job[w] EXCEPT !.step = "mark"]]
                    /\ log'[a].confirm = "PENDING" /\ job[w].rec \in Recs
                 \/ /\ job' = [job EXCEPT ![w] = Idle]
                    /\ log'[a].confirm = "PENDING" /\ job[w].rec \notin Recs
<1> DEFINE o == job[w].option
<1>1. PICK a \in Unprepared :
         /\ log' = [log EXCEPT ![a] =
               [rec |-> job[w].rec, option |-> o, status |-> "PREPARED",
                confirm |-> IF NeedsConfirmation(o) THEN "PENDING" ELSE "NOT_REQUIRED"]]
         /\ job' = [job EXCEPT ![w] =
               CASE ~NeedsConfirmation(o) -> [@ EXCEPT !.step = "call", !.action = a]
                 [] NeedsConfirmation(o) /\ job[w].rec \in Recs -> [@ EXCEPT !.step = "mark"]
                 [] NeedsConfirmation(o) /\ job[w].rec \notin Recs -> Idle]
  BY DEF Prepare
<1>2. a \in Actions /\ log[a].status = "ABSENT" /\ log \in [Actions -> Rows]
      /\ job \in [Workers -> Jobs]
  BY DEF Unprepared, TypeInv, TypeOK
<1>3. /\ \A b \in Actions \ {a} : log'[b] = log[b]
      /\ log'[a].rec = job[w].rec /\ log'[a].status = "PREPARED"
      /\ log'[a].confirm = IF NeedsConfirmation(o) THEN "PENDING" ELSE "NOT_REQUIRED"
  BY <1>1, <1>2
<1>4. RowMove(w, a) /\ RowPrepared(w, a)
  BY <1>2, <1>3 DEF RowMove, RowPrepared, Prepare, At, history
<1>5. CASE ~NeedsConfirmation(o)
  <2>1. job' = [job EXCEPT ![w] = [job[w] EXCEPT !.step = "call", !.action = a]]
    BY <1>1, <1>2, <1>5
  <2> QED
    BY <1>2, <1>3, <1>4, <1>5, <2>1
<1>6. CASE NeedsConfirmation(o) /\ job[w].rec \in Recs
  <2>1. job' = [job EXCEPT ![w] = [job[w] EXCEPT !.step = "mark"]]
    BY <1>1, <1>2, <1>6
  <2> QED
    BY <1>2, <1>3, <1>4, <1>6, <2>1
<1>7. CASE NeedsConfirmation(o) /\ job[w].rec \notin Recs
  <2>1. job' = [job EXCEPT ![w] = Idle]
    BY <1>1, <1>2, <1>7
  <2> QED
    BY <1>2, <1>3, <1>4, <1>7, <2>1
<1> QED
  BY <1>5, <1>6, <1>7

\* Served one at a time, a request writes the row of an action only while what
\* it read of it holds: an open draft is agreed to or refused, a settled action
\* gets its outcome.
LEMMA RowsMove ==
    ASSUME IInv, SerialSafe, NEW w \in Workers, Continue(w)
    PROVE  UNCHANGED <<log, refused>> \/ \E a \in Actions : RowMove(w, a)
<1> USE DEF agentVars, coreVars, history, At
<1>t. TypeInv /\ (job[w].step \in Holding => job[w].action \in Actions)
  BY DEF IInv, TypeInv, JobsHoldAction
<1>j. JobCurrent(w)
  BY DEF SerialSafe
<1>1. CASE SelectExpire(w) \/ SelectReopen(w) \/ SelectSwitch(w) \/ SelectMark(w)
           \/ Send(w) \/ Respond(w) \/ Timeout(w)
  BY <1>1 DEF SelectExpire, SelectReopen, SelectSwitch, SelectMark, Send, Respond, Timeout
<1>2. CASE SelectCancel(w) \/ ConfirmDecline(w)
  <2>1. job[w].action \in Actions /\ Awaiting(job[w].action) /\ Refuse(job[w].action)
    BY <1>2, <1>t, <1>j DEF SelectCancel, ConfirmDecline, Holding, JobCurrent
  <2> QED
    BY <1>t, <2>1, RefuseMoves
<1>3. CASE Prepare(w)
  BY <1>3, <1>t, PrepareMoves
<1>4. CASE ConfirmAccept(w)
  <2>1. PICK a \in Actions : a = job[w].action
    BY <1>4, <1>t DEF ConfirmAccept, Holding
  <2>2. Awaiting(a) /\ log' = [log EXCEPT ![a].confirm = "CONFIRMED"] /\ refused' = refused
    BY <1>4, <1>j, <2>1 DEF ConfirmAccept, JobCurrent
  <2>3. RowMove(w, a)
    BY <1>t, <2>2, RowFields DEF RowMove, RowAccepted, Awaiting
  <2> QED
    BY <2>3
<1>5. CASE ReportSuccess(w) \/ ReportFailure(w)
  <2>1. PICK a \in Actions : a = job[w].action
    BY <1>5, <1>t DEF ReportSuccess, ReportFailure, Holding
  <2>2. log[a].status = "PREPARED" /\ Settled(a) /\ refused' = refused
    BY <1>5, <1>j, <2>1 DEF ReportSuccess, ReportFailure, JobCurrent, Executing
  <2>3. \/ log' = [log EXCEPT ![a].status = "SUCCESS"]
        \/ log' = [log EXCEPT ![a].status = "FAILED"]
    BY <1>5, <2>1 DEF ReportSuccess, ReportFailure
  <2>4. RowMove(w, a)
    BY <1>t, <2>2, <2>3, RowFields DEF RowMove, RowReported
  <2> QED
    BY <2>4
<1> QED
  BY <1>1, <1>2, <1>3, <1>4, <1>5 DEF Continue

\* What has ended stays so in this step.
OutcomesKept ==
    /\ \A a \in Actions : log[a].status \in {"SUCCESS", "FAILED", "CANCELLED"} =>
          log'[a].status = log[a].status
    /\ \A r \in Recs : rec[r] = "EXPIRED" =>
          rec'[r] = "EXPIRED" /\ Pending(r)' \subseteq Pending(r)

\* A row's move makes at most the action prepared by it pending.
LEMMA PendingMoves ==
    ASSUME TypeInv, NEW w \in Workers, NEW a \in Actions, RowMove(w, a), NEW r \in Recs
    PROVE  \/ Pending(r)' \subseteq Pending(r)
           \/ /\ RowPrepared(w, a) /\ job[w].rec = r /\ log'[a].confirm = "PENDING"
              /\ Pending(r)' \subseteq Pending(r) \cup {a}
<1>1. \A b \in Actions \ {a} : b \in Pending(r)' <=> b \in Pending(r)
  BY DEF RowMove, Pending, Awaiting
<1>2. Pending(r) \subseteq Actions /\ Pending(r)' \subseteq Actions
  BY DEF Pending
<1>3. CASE a \notin Pending(r)'
  BY <1>1, <1>2, <1>3
<1>4. CASE a \in Pending(r)' /\ RowPrepared(w, a)
  BY <1>1, <1>2, <1>4 DEF Pending, Awaiting, RowPrepared
<1>5. CASE a \in Pending(r)' /\ ~RowPrepared(w, a)
  BY <1>5 DEF RowMove, RowAccepted, RowRefused, RowReported, Pending, Awaiting
<1> QED
  BY <1>3, <1>4, <1>5

\* The status of a recommendation is written only by the two ends of a
\* selection, from a row that is ACTIVE or SELECTED.
LEMMA RecMoves ==
    ASSUME IInv, SerialSafe, NEW w \in Workers, Continue(w)
    PROVE  \/ rec' = rec
           \/ /\ \A r \in Recs \ {job[w].rec} : rec'[r] = rec[r]
              /\ job[w].rec \in Recs => rec[job[w].rec] \in {"ACTIVE", "SELECTED"}
<1> USE DEF agentVars
<1>1. CASE SelectExpire(w) \/ SelectMark(w)
  BY <1>1 DEF SelectExpire, SelectMark, SerialSafe, JobCurrent, IInv, TypeInv, TypeOK
<1>2. CASE ~(SelectExpire(w) \/ SelectMark(w))
  BY <1>2 DEF Continue, SelectReopen, SelectSwitch, SelectCancel, Prepare, ConfirmAccept,
     ConfirmDecline, Send, Respond, Timeout, ReportSuccess, ReportFailure
<1> QED
  BY <1>1, <1>2

LEMMA ContinueOutcomes ==
    ASSUME IInv, SerialSafe, NEW w \in Workers, Continue(w)
    PROVE  OutcomesKept
<1>1. \A a \in Actions : log[a].status \in {"SUCCESS", "FAILED", "CANCELLED"} =>
          log'[a].status = log[a].status
  BY RowsMove DEF RowMove, RowPrepared, RowAccepted, RowRefused, RowReported, Awaiting
<1>2. ASSUME NEW r \in Recs, rec[r] = "EXPIRED"
      PROVE  rec'[r] = "EXPIRED" /\ Pending(r)' \subseteq Pending(r)
  <2>1. rec'[r] = "EXPIRED"
    BY <1>2, RecMoves
  <2>2. UNCHANGED <<log, refused>> => Pending(r)' \subseteq Pending(r)
    BY DEF Pending, Awaiting
  <2>3. ASSUME NEW a \in Actions, RowMove(w, a) PROVE Pending(r)' \subseteq Pending(r)
    <3>1. job[w].rec # r
      BY <1>2 DEF SerialSafe, JobCurrent
    <3> QED
      BY <2>3, <3>1, PendingMoves DEF IInv
  <2>4. Pending(r)' \subseteq Pending(r)
    BY <2>2, <2>3, RowsMove
  <2> QED
    BY <2>1, <2>4
<1> QED
  BY <1>1, <1>2 DEF OutcomesKept

\* Where the rows stay, so does everything that has ended.
LEMMA QuietOutcomes ==
    ASSUME UNCHANGED <<log, rec>>
    PROVE  OutcomesKept
BY DEF OutcomesKept, Pending, Awaiting

LEMMA OutcomesStep ==
    ASSUME IInv, SerialSafe, [Next]_vars
    PROVE  OutcomesKept
<1> USE DEF agentVars, coreVars, history
<1>1. CASE UNCHANGED vars
  BY <1>1, QuietOutcomes DEF vars
<1>2. CASE Crash \/ \E r \in Recs : PassExpiry(r)
  BY <1>2, QuietOutcomes DEF Crash, PassExpiry
<1>3. ASSUME NEW w \in Workers, NEW a \in Actions, CoreStep(w, a) PROVE OutcomesKept
  BY <1>3, QuietOutcomes DEF CoreStep, CoreLookup, CoreApply, CoreDuplicate, CoreReject
<1>4. ASSUME NEW w \in Workers, Request(w) PROVE OutcomesKept
  BY <1>4, QuietOutcomes DEF Request, SelectLoad, DirectRequest, ConfirmLoad
<1> QED
  BY <1>1, <1>2, <1>3, <1>4, ContinueOutcomes DEF Next

\* The parts of SerialSafe that speak of rows, calls and keys.
SettledSafe ==
    /\ \A w \in Workers, a \in Actions : call[w][a] # "none" => Settled(a)
    /\ \A a \in keys : Settled(a)
    /\ \A a \in refused : log[a].confirm = "DECLINED" /\ log[a].status = "CANCELLED"
    /\ \A a \in Unprepared : log[a].confirm = "NONE"

LEMMA SettledStep ==
    ASSUME IInv, SerialSafe, NEW w \in Workers,
           UNCHANGED <<log, refused>> \/ \E a \in Actions : RowMove(w, a),
           \A v \in Workers, b \in Actions : call'[v][b] # call[v][b] => Settled(b)',
           keys' \subseteq Actions,
           \A b \in keys' : b \in keys \/ Settled(b)'
    PROVE  SettledSafe'
<1>0. keys \subseteq Actions /\ refused \subseteq Actions
  BY DEF IInv, TypeInv, TypeOK
<1>1. CASE UNCHANGED <<log, refused>>
  BY <1>0, <1>1 DEF SettledSafe, SerialSafe, Settled, Unprepared
<1>2. ASSUME NEW a \in Actions, RowMove(w, a) PROVE SettledSafe'
  <2>1. \A b \in Actions : Settled(b) => Settled(b)'
    BY <1>2 DEF RowMove, RowPrepared, RowAccepted, RowRefused, RowReported, Settled,
       SerialSafe, Unprepared, Awaiting
  <2>2. \A v \in Workers, b \in Actions : call'[v][b] # "none" => Settled(b)'
    BY <2>1 DEF SerialSafe
  <2>3. \A b \in keys' : Settled(b)'
    BY <2>1 DEF SerialSafe
  <2>4. \A b \in refused' : log'[b].confirm = "DECLINED" /\ log'[b].status = "CANCELLED"
    BY <1>0, <1>2 DEF RowMove, RowPrepared, RowAccepted, RowRefused, RowReported, Settled,
       SerialSafe, Awaiting
  <2>5. \A b \in Unprepared' : log'[b].confirm = "NONE"
    BY <1>2 DEF RowMove, RowPrepared, RowAccepted, RowRefused, RowReported, SerialSafe,
       Unprepared
  <2> QED
    BY <2>2, <2>3, <2>4, <2>5 DEF SettledSafe
<1> QED
  BY <1>1, <1>2

LEMMA SerialJoin ==
    ASSUME OneAtATime, NEW w \in Workers, JobCurrent(w)', SettledSafe'
    PROVE  SerialSafe'
BY DEF OneAtATime, SerialSafe, SettledSafe

LEMMA IdleCurrent ==
    ASSUME NEW w \in Workers, job'[w] = Idle
    PROVE  JobCurrent(w)'
<1>1. job'[w].step = "idle" /\ job'[w].rec \notin Recs
  BY ConstantsAssumption DEF Idle
<1> QED
  BY <1>1 DEF JobCurrent, Executing

LEMMA StepFields ==
    ASSUME TypeInv, NEW w \in Workers, NEW s, Goto(w, s)
    PROVE  /\ job'[w].step = s
           /\ job'[w].action = job[w].action
           /\ job'[w].rec = job[w].rec
           /\ job'[w].wasActive = job[w].wasActive
BY DEF Goto, TypeInv, TypeOK, Jobs

LEMMA RequestSerial ==
    ASSUME OneAtATime, IInv, SerialSafe, NEW w \in Workers, Request(w)
    PROVE  SerialSafe'
<1> USE DEF agentVars, coreVars, history
<1>t. job \in [Workers -> Jobs] /\ keys \subseteq Actions
  BY DEF IInv, TypeInv, TypeOK
<1>1. UNCHANGED <<log, refused, rec, call, keys>>
  BY DEF Request, SelectLoad, DirectRequest, ConfirmLoad
<1>2. SettledSafe'
  BY <1>t, <1>1, SettledStep
<1>3. ASSUME NEW r \in Recs, NEW o \in Options, SelectLoad(w, r, o)
      PROVE  JobCurrent(w)'
  <2>1. /\ job'[w].step \in {"search", "expire", "prepare"}
        /\ job'[w].rec = r
        /\ job'[w].wasActive = (rec[r] = "ACTIVE")
    BY <1>t, <1>3 DEF SelectLoad
  <2>2. rec'[r] \in {"ACTIVE", "SELECTED"} /\ rec' = rec
    BY <1>3 DEF SelectLoad, Selectable
  <2> QED
    BY <2>1, <2>2 DEF JobCurrent, Executing
<1>4. ASSUME NEW o \in Options, DirectRequest(w, o)
      PROVE  JobCurrent(w)'
  <2>1. job'[w].step = "prepare" /\ job'[w].rec = NoRec
    BY <1>t, <1>4 DEF DirectRequest, Idle
  <2> QED
    BY <2>1, ConstantsAssumption DEF JobCurrent, Executing
<1>5. ASSUME NEW a \in Actions, NEW confirmed \in BOOLEAN, ConfirmLoad(w, a, confirmed)
      PROVE  JobCurrent(w)'
  <2>1. job'[w].step \in {"accept", "decline"} /\ job'[w].rec = NoRec /\ job'[w].action = a
    BY <1>t, <1>5 DEF ConfirmLoad, Idle
  <2>2. Awaiting(a)'
    BY <1>1, <1>5 DEF ConfirmLoad, Confirmable, Awaiting
  <2> QED
    BY <2>1, <2>2, ConstantsAssumption DEF JobCurrent, Executing, Awaiting
<1>6. JobCurrent(w)'
  BY <1>3, <1>4, <1>5 DEF Request
<1> QED
  BY <1>2, <1>6, SerialJoin

LEMMA ContinueCurrent ==
    ASSUME IInv, SerialSafe, NEW w \in Workers, Continue(w)
    PROVE  JobCurrent(w)'
<1> USE DEF agentVars, coreVars, history, At
<1>t. /\ TypeInv /\ job \in [Workers -> Jobs] /\ job[w] \in Jobs
      /\ job[w].step \in Holding => job[w].action \in Actions
  BY DEF IInv, TypeInv, TypeOK, JobsHoldAction
<1>j. JobCurrent(w)
  BY DEF SerialSafe
<1>f. Finish(w) => JobCurrent(w)'
  BY <1>t, FinishFacts, IdleCurrent
<1>1. CASE SelectExpire(w) \/ SelectReopen(w) \/ SelectMark(w) \/ ConfirmDecline(w)
           \/ ReportFailure(w)
  BY <1>1, <1>f DEF SelectExpire, SelectReopen, SelectMark, ConfirmDecline, ReportFailure
<1>2. CASE SelectSwitch(w)
  <2>1. PICK a \in Pending(job[w].rec) :
           job' = [job EXCEPT ![w].step = "cancel", ![w].action = a]
    BY <1>2 DEF SelectSwitch
  <2>2. /\ job'[w].step = "cancel" /\ job'[w].action = a
        /\ job'[w].rec = job[w].rec /\ job'[w].wasActive = job[w].wasActive
    BY <1>t, <2>1 DEF Jobs
  <2>3. UNCHANGED <<log, rec>>
    BY <1>2 DEF SelectSwitch
  <2>4. Awaiting(a) /\ log[a].rec = job[w].rec
    BY <2>1 DEF Pending
  <2> QED
    BY <1>j, <2>2, <2>3, <2>4 DEF JobCurrent, Awaiting, Executing
<1>3. CASE SelectCancel(w)
  <2>1. /\ job'[w].step = "prepare"
        /\ job'[w].rec = job[w].rec /\ job'[w].wasActive = job[w].wasActive
    BY <1>t, <1>3 DEF SelectCancel, Jobs
  <2>2. rec' = rec
    BY <1>3 DEF SelectCancel
  <2> QED
    BY <1>j, <2>1, <2>2 DEF JobCurrent, Executing
<1>4. CASE Prepare(w)
  <2>1. rec' = rec
    BY <1>4 DEF Prepare
  <2>2. PICK a \in Actions :
           /\ RowPrepared(w, a)
           /\ \/ /\ job' = [job EXCEPT ![w] = [job[w] EXCEPT !.step = "call", !.action = a]]
                 /\ log'[a].confirm = "NOT_REQUIRED"
              \/ job' = [job EXCEPT ![w] = [job[w] EXCEPT !.step = "mark"]]
              \/ job' = [job EXCEPT ![w] = Idle]
    BY <1>t, <1>4, PrepareMoves
  <2>3. CASE /\ job' = [job EXCEPT ![w] = [job[w] EXCEPT !.step = "call", !.action = a]]
             /\ log'[a].confirm = "NOT_REQUIRED"
    <3>1. /\ job'[w].step = "call" /\ job'[w].action = a
          /\ job'[w].rec = job[w].rec /\ job'[w].wasActive = job[w].wasActive
      BY <1>t, <2>3 DEF Jobs
    <3> QED
      BY <1>j, <2>1, <2>2, <2>3, <3>1 DEF JobCurrent, Settled, RowPrepared
  <2>4. CASE job' = [job EXCEPT ![w] = [job[w] EXCEPT !.step = "mark"]]
    <3>1. /\ job'[w].step = "mark"
          /\ job'[w].rec = job[w].rec /\ job'[w].wasActive = job[w].wasActive
      BY <1>t, <2>4 DEF Jobs
    <3> QED
      BY <1>j, <2>1, <3>1 DEF JobCurrent, Executing
  <2>5. CASE job' = [job EXCEPT ![w] = Idle]
    BY <1>t, <2>5, IdleCurrent
  <2> QED
    BY <2>2, <2>3, <2>4, <2>5
<1>5. CASE ConfirmAccept(w)
  <2>1. PICK a \in Actions : a = job[w].action
    BY <1>5, <1>t DEF ConfirmAccept, Holding
  <2>2. /\ rec' = rec /\ Awaiting(a)
        /\ log' = [log EXCEPT ![a].confirm = "CONFIRMED"]
    BY <1>5, <1>j, <2>1 DEF ConfirmAccept, JobCurrent
  <2>3. log'[a].confirm = "CONFIRMED" /\ log'[a].status = "PREPARED"
    BY <1>t, <2>2, RowFields DEF Awaiting
  <2>4. /\ job'[w].step = "call" /\ job'[w].action = a
        /\ job'[w].rec = job[w].rec /\ job'[w].wasActive = job[w].wasActive
    BY <1>5, <1>t, <2>1, StepFields DEF ConfirmAccept
  <2> QED
    BY <1>j, <2>2, <2>3, <2>4 DEF JobCurrent, Settled
<1>6. CASE Send(w) \/ Respond(w) \/ Timeout(w)
  <2>1. /\ job[w].step \in Executing
        /\ \E s \in Executing : Goto(w, s)
        /\ UNCHANGED <<log, rec>>
    BY <1>6 DEF Send, Respond, Timeout, StepAfter, Executing
  <2>2. /\ job'[w].step \in Executing /\ job'[w].action = job[w].action
        /\ job'[w].rec = job[w].rec /\ job'[w].wasActive = job[w].wasActive
    BY <1>t, <2>1, StepFields
  <2> QED
    BY <1>j, <2>1, <2>2 DEF JobCurrent, Settled, Executing
<1>7. CASE ReportSuccess(w)
  <2>1. rec' = rec
    BY <1>7 DEF ReportSuccess
  <2>2. CASE Goto(w, "mark")
    <3>1. /\ job'[w].step = "mark"
          /\ job'[w].rec = job[w].rec /\ job'[w].wasActive = job[w].wasActive
      BY <1>t, <2>2, StepFields
    <3> QED
      BY <1>j, <2>1, <3>1 DEF JobCurrent, Executing
  <2> QED
    BY <1>7, <1>f, <2>2 DEF ReportSuccess
<1> QED
  BY <1>1, <1>2, <1>3, <1>4, <1>5, <1>6, <1>7 DEF Continue

LEMMA ContinueSerial ==
    ASSUME OneAtATime, IInv, SerialSafe, NEW w \in Workers, Continue(w)
    PROVE  SerialSafe'
<1> USE DEF agentVars, coreVars, history, At
<1>1. keys' = keys
  BY DEF Continue, SelectExpire, SelectReopen, SelectMark, SelectSwitch, SelectCancel, Prepare,
     ConfirmAccept, ConfirmDecline, Send, Respond, Timeout, ReportSuccess, ReportFailure
<1>2. ASSUME NEW v \in Workers, NEW b \in Actions, call'[v][b] # call[v][b]
      PROVE  Settled(b)'
  <2>1. Send(w) \/ Respond(w)
    BY <1>2 DEF Continue, SelectExpire, SelectReopen, SelectMark, SelectSwitch, SelectCancel,
       Prepare, ConfirmAccept, ConfirmDecline, Timeout, ReportSuccess, ReportFailure
  <2>2. b = job[w].action /\ job[w].step \in Executing /\ log' = log
    BY <1>2, <2>1 DEF Send, Respond, Executing, IInv, TypeInv, TypeOK
  <2>3. Settled(b)
    BY <2>2 DEF SerialSafe, JobCurrent
  <2> QED
    BY <2>2, <2>3 DEF Settled
<1>3. SettledSafe'
  BY <1>1, <1>2, RowsMove, SettledStep DEF IInv, TypeInv, TypeOK
<1> QED
  BY <1>3, ContinueCurrent, SerialJoin

LEMMA SerialStep ==
    ASSUME OneAtATime, IInv, SerialSafe, [Next]_vars
    PROVE  SerialSafe'
<1> USE DEF agentVars, coreVars, history
<1>1. CASE UNCHANGED vars
  BY <1>1 DEF vars, SerialSafe, JobCurrent, Awaiting, Settled, Unprepared
<1>2. CASE \E r \in Recs : PassExpiry(r)
  BY <1>2 DEF PassExpiry, SerialSafe, JobCurrent, Awaiting, Settled, Unprepared
<1>3. CASE Crash
  <2>1. \A w \in Workers : JobCurrent(w)'
    BY <1>3, IdleCurrent DEF Crash
  <2> QED
    BY <1>3, <2>1 DEF Crash, SerialSafe, Settled, Unprepared
<1>4. ASSUME NEW w \in Workers, NEW a \in Actions, CoreStep(w, a) PROVE SerialSafe'
  <2>1. /\ UNCHANGED <<log, rec, job, refused>>
        /\ call[w][a] # "none"
        /\ \A v \in Workers, b \in Actions : call'[v][b] # call[v][b] => b = a
        /\ keys' \subseteq keys \cup {a}
    BY <1>4 DEF CoreStep, CoreLookup, CoreApply, CoreDuplicate, CoreReject, IInv, TypeInv, TypeOK
  <2>2. Settled(a)
    BY <2>1 DEF SerialSafe
  <2>3. \A v \in Workers, b \in Actions : call'[v][b] # "none" => Settled(b)'
    BY <2>1, <2>2 DEF SerialSafe, Settled
  <2> QED
    BY <2>1, <2>2, <2>3 DEF SerialSafe, JobCurrent, Awaiting, Settled, Unprepared, Executing
<1> QED
  BY <1>1, <1>2, <1>3, <1>4, RequestSerial, ContinueSerial DEF Next

LEMMA SerialInvariance == OneAtATime => (Spec => []SerialSafe)
<1> SUFFICES ASSUME OneAtATime PROVE Spec => []SerialSafe
  OBVIOUS
<1>1. Init => SerialSafe
  <2> SUFFICES ASSUME Init PROVE SerialSafe
    OBVIOUS
  <2>1. \A w \in Workers : job[w].step = "idle" /\ job[w].rec \notin Recs
    BY ConstantsAssumption DEF Init, Idle
  <2>2. \A a \in Actions : log[a].confirm = "NONE"
    BY DEF Init, NoRow
  <2> QED
    BY <2>1, <2>2 DEF Init, SerialSafe, JobCurrent, Executing, Unprepared
<1>2. IInv /\ SerialSafe /\ [Next]_vars => SerialSafe'
  BY SerialStep
<1> QED
  BY <1>1, <1>2, Invariance, PTL DEF Spec

\* Served one request at a time, an action the customer declined, or left for
\* another option, is never applied, whatever times out and wherever the agent
\* crashes: no request for it was ever sent, and none will be.
THEOREM RefusedStaysUndone == OneAtATime => (Spec => []RefusedNeverApplied)
<1> SUFFICES ASSUME OneAtATime PROVE Spec => []RefusedNeverApplied
  OBVIOUS
<1>1. IInv /\ SerialSafe => RefusedNeverApplied
  <2> SUFFICES ASSUME IInv, SerialSafe, NEW a \in refused PROVE ~Applied(a)
    BY DEF RefusedNeverApplied
  <2>1. a \in Actions /\ a \notin keys
    BY DEF IInv, TypeInv, TypeOK, SerialSafe, Settled
  <2> QED
    BY <2>1 DEF Applied, IInv, Safe, KeysCountEffects
<1> QED
  BY <1>1, SerialInvariance, Invariance, PTL

\* Served one request at a time, the outcome of an action is written once, and
\* an expired recommendation proposes nothing more.
THEOREM OutcomesStay == OneAtATime => (Spec => OutcomesFinal)
<1> SUFFICES ASSUME OneAtATime PROVE Spec => OutcomesFinal
  OBVIOUS
<1>1. IInv /\ SerialSafe /\ [Next]_vars => [OutcomesKept]_vars
  BY OutcomesStep
<1>2. OutcomesKept =>
         /\ \A a \in Actions : log[a].status \in {"SUCCESS", "FAILED", "CANCELLED"} =>
               log'[a].status = log[a].status
         /\ \A r \in Recs : rec[r] = "EXPIRED" =>
               rec'[r] = "EXPIRED" /\ Pending(r)' \subseteq Pending(r)
  BY DEF OutcomesKept
<1> QED
  BY <1>1, <1>2, SerialInvariance, Invariance, PTL
     DEF Spec, OutcomesFinal, OutcomeFinal, ExpiredIsFinal

\* Until a recommendation is SELECTED nothing is pending for it, except between
\* the two commits of its selection; a crash there would leave the draft behind.
DraftSafe ==
    /\ \A r \in Recs : \A a, b \in Pending(r) : a = b
    /\ \A r \in Recs : rec[r] # "SELECTED" /\ Pending(r) # {} =>
          \E w \in Workers : job[w].step = "mark" /\ job[w].rec = r
    /\ \A w \in Workers : job[w].step \in {"search", "cancel"} =>
          job[w].rec \in Recs /\ rec[job[w].rec] = "SELECTED"
    /\ \A w \in Workers : job[w].step \in {"prepare", "expire"} /\ job[w].rec \in Recs =>
          Pending(job[w].rec) = {}

\* What is left to show of a step of worker w.
LEMMA DraftJoin ==
    ASSUME OneAtATime, DraftSafe, NEW w \in Workers,
           \A r \in Recs : \A a, b \in Pending(r)' : a = b,
           \A r \in Recs : rec'[r] # "SELECTED" /\ Pending(r)' # {} =>
              job'[w].step = "mark" /\ job'[w].rec = r,
           job'[w].step \in {"search", "cancel"} =>
              job'[w].rec \in Recs /\ rec'[job'[w].rec] = "SELECTED",
           \A r \in Recs : job'[w].step \in {"prepare", "expire"} /\ job'[w].rec = r =>
              Pending(r)' = {}
    PROVE  DraftSafe'
<1>1. \A v \in Workers : v = w
  BY DEF OneAtATime
<1>2. \A r \in Recs : rec'[r] # "SELECTED" /\ Pending(r)' # {} =>
          \E v \in Workers : job'[v].step = "mark" /\ job'[v].rec = r
  OBVIOUS
<1>3. \A v \in Workers : job'[v].step \in {"search", "cancel"} =>
          job'[v].rec \in Recs /\ rec'[job'[v].rec] = "SELECTED"
  BY <1>1
<1>4. ASSUME NEW v \in Workers, job'[v].step \in {"prepare", "expire"}, job'[v].rec \in Recs
      PROVE  Pending(job[v].rec)' = {}
  <2>1. PICK r \in Recs : r = job'[v].rec
    BY <1>4
  <2>2. Pending(r)' = {} /\ v = w
    BY <1>1, <1>4, <2>1
  <2> QED
    BY <2>1, <2>2 DEF Pending
<1> QED
  BY <1>2, <1>3, <1>4 DEF DraftSafe

\* Between requests, and in every step of one but the last of a selection,
\* nothing is pending for a recommendation that is not SELECTED.
LEMMA Unmarked ==
    ASSUME OneAtATime, DraftSafe, NEW w \in Workers, NEW r \in Recs, rec[r] # "SELECTED",
           job[w].step # "mark" \/ job[w].rec # r
    PROVE  Pending(r) = {}
BY DEF OneAtATime, DraftSafe

LEMMA RequestDraft ==
    ASSUME OneAtATime, IInv, DraftSafe, NEW w \in Workers, Request(w)
    PROVE  DraftSafe'
<1> USE DEF agentVars, coreVars, history, At
<1>t. job \in [Workers -> Jobs]
  BY DEF IInv, TypeInv, TypeOK
<1>1. UNCHANGED <<log, rec>> /\ job[w].step = "idle"
  BY DEF Request, SelectLoad, DirectRequest, ConfirmLoad
<1>2. \A r \in Recs : Pending(r)' = Pending(r)
  BY <1>1 DEF Pending, Awaiting
<1>3. \A r \in Recs : rec[r] # "SELECTED" => Pending(r) = {}
  BY <1>1, Unmarked
<1>4. /\ \A r \in Recs : \A a, b \in Pending(r)' : a = b
      /\ \A r \in Recs : rec'[r] # "SELECTED" => Pending(r)' = {}
  BY <1>1, <1>2, <1>3 DEF DraftSafe
<1>5. /\ job'[w].step \in {"search", "cancel"} =>
            job'[w].rec \in Recs /\ rec[job'[w].rec] = "SELECTED"
      /\ \A r \in Recs : job'[w].step \in {"prepare", "expire"} /\ job'[w].rec = r =>
            rec[r] # "SELECTED"
  <2>1. ASSUME NEW r \in Recs, NEW o \in Options, SelectLoad(w, r, o)
        PROVE  /\ job'[w].step = CASE rec[r] = "SELECTED" -> "search"
                                   [] rec[r] = "ACTIVE" /\ r \in late -> "expire"
                                   [] OTHER -> "prepare"
               /\ job'[w].rec = r
    BY <1>t, <2>1 DEF SelectLoad
  <2>2. ASSUME NEW o \in Options, DirectRequest(w, o)
        PROVE  job'[w].step = "prepare" /\ job'[w].rec \notin Recs
    BY <1>t, <2>2, ConstantsAssumption DEF DirectRequest, Idle
  <2>3. ASSUME NEW a \in Actions, NEW confirmed \in BOOLEAN, ConfirmLoad(w, a, confirmed)
        PROVE  job'[w].step \in {"accept", "decline"}
    BY <1>t, <2>3 DEF ConfirmLoad, Idle
  <2>4. CASE \E r \in Recs, o \in Options : SelectLoad(w, r, o)
    BY <2>1, <2>4
  <2> QED
    BY <2>2, <2>3, <2>4 DEF Request
<1> QED
  BY <1>1, <1>4, <1>5, DraftJoin

\* Every step of a request but the preparation of an action and the two ends
\* of a selection.
LEMMA MiddleDraft ==
    ASSUME OneAtATime, IInv, SerialSafe, DraftSafe, NEW w \in Workers, Continue(w),
           rec' = rec, job[w].step # "mark", ~Prepare(w)
    PROVE  DraftSafe'
<1> USE DEF agentVars, coreVars, history, At
<1>t. /\ TypeInv /\ job \in [Workers -> Jobs] /\ job[w] \in Jobs
      /\ job[w].step \in Holding => job[w].action \in Actions
  BY DEF IInv, TypeInv, TypeOK, JobsHoldAction
<1>1. ASSUME NEW r \in Recs PROVE Pending(r)' \subseteq Pending(r)
  <2>1. UNCHANGED <<log, refused>> => Pending(r)' \subseteq Pending(r)
    BY DEF Pending, Awaiting
  <2>2. job[w].step # "prepare"
    BY DEF Continue, SelectExpire, SelectReopen, SelectMark, SelectSwitch, SelectCancel,
       ConfirmAccept, ConfirmDecline, Send, Respond, Timeout, ReportSuccess, ReportFailure
  <2> QED
    BY <1>t, <2>1, <2>2, RowsMove, PendingMoves DEF RowPrepared
<1>2. \A r \in Recs : \A a, b \in Pending(r)' : a = b
  BY <1>1 DEF DraftSafe
<1>3. \A r \in Recs : rec'[r] # "SELECTED" => Pending(r)' = {}
  BY <1>1, Unmarked
<1>4. CASE job'[w].step \notin {"search", "cancel", "prepare", "expire"}
  BY <1>2, <1>3, <1>4, DraftJoin
<1>5. CASE SelectSwitch(w)
  <2>1. PICK a : job' = [job EXCEPT ![w].step = "cancel", ![w].action = a]
    BY <1>5 DEF SelectSwitch
  <2>2. job'[w].step = "cancel" /\ job'[w].rec = job[w].rec
    BY <1>t, <2>1 DEF Jobs
  <2>3. job[w].rec \in Recs /\ rec[job[w].rec] = "SELECTED"
    BY <1>5 DEF SelectSwitch, DraftSafe
  <2> QED
    BY <1>2, <1>3, <2>2, <2>3, DraftJoin
<1>6. CASE SelectCancel(w)
  <2>1. job'[w].step = "prepare" /\ job'[w].rec = job[w].rec
    BY <1>t, <1>6 DEF SelectCancel, Jobs
  <2>2. PICK a \in Actions : a = job[w].action
    BY <1>t, <1>6 DEF SelectCancel, Holding
  <2>3. /\ Awaiting(a) /\ log[a].rec = job[w].rec /\ Refuse(a)
    BY <1>6, <2>2 DEF SelectCancel, SerialSafe, JobCurrent
  <2>4. RowRefused(a)
    BY <1>t, <2>3, RefuseMoves
  <2>5. ASSUME NEW r \in Recs, job[w].rec = r PROVE Pending(r)' = {}
    <3>1. a \in Pending(r) /\ a \notin Pending(r)'
      BY <2>3, <2>4, <2>5 DEF Pending, Awaiting, RowRefused
    <3>2. Pending(r) = {a}
      BY <3>1 DEF DraftSafe
    <3> QED
      BY <1>1, <3>1, <3>2
  <2> QED
    BY <1>2, <1>3, <2>1, <2>5, DraftJoin
<1>7. SelectSwitch(w) \/ SelectCancel(w) \/ job'[w].step \notin {"search", "cancel", "prepare", "expire"}
  <2>1. Finish(w) => job'[w].step = "idle"
    BY <1>t, FinishFacts DEF Idle
  <2>2. \A s : Goto(w, s) => job'[w].step = s
    BY <1>t, GotoFacts
  <2>3. CASE SelectExpire(w) \/ SelectReopen(w) \/ SelectMark(w) \/ ConfirmDecline(w)
             \/ ReportFailure(w)
    BY <2>1, <2>3 DEF SelectExpire, SelectReopen, SelectMark, ConfirmDecline, ReportFailure
  <2>4. CASE ConfirmAccept(w) \/ Send(w) \/ Respond(w) \/ Timeout(w) \/ ReportSuccess(w)
    BY <2>1, <2>2, <2>4 DEF ConfirmAccept, Send, Respond, Timeout, ReportSuccess, StepAfter
  <2> QED
    BY <2>3, <2>4 DEF Continue
<1> QED
  BY <1>4, <1>5, <1>6, <1>7

LEMMA PrepareDraft ==
    ASSUME OneAtATime, IInv, SerialSafe, DraftSafe, NEW w \in Workers, Prepare(w)
    PROVE  DraftSafe'
<1>t. TypeInv /\ job \in [Workers -> Jobs] /\ job[w] \in Jobs
  BY DEF IInv, TypeInv, TypeOK
<1>1. rec' = rec /\ job[w].step = "prepare"
  BY DEF Prepare, At
<1>2. PICK a \in Actions :
         /\ RowMove(w, a) /\ RowPrepared(w, a)
         /\ \/ /\ job' = [job EXCEPT ![w] = [job[w] EXCEPT !.step = "call", !.action = a]]
               /\ log'[a].confirm = "NOT_REQUIRED"
            \/ /\ job' = [job EXCEPT ![w] = [job[w] EXCEPT !.step = "mark"]]
               /\ log'[a].confirm = "PENDING" /\ job[w].rec \in Recs
            \/ /\ job' = [job EXCEPT ![w] = Idle]
               /\ log'[a].confirm = "PENDING" /\ job[w].rec \notin Recs
  BY <1>t, PrepareMoves
<1>3. /\ job'[w].step \in {"call", "mark", "idle"}
      /\ log'[a].confirm = "PENDING" /\ job[w].rec \in Recs =>
            job'[w].step = "mark" /\ job'[w].rec = job[w].rec
  <2>1. CASE /\ job' = [job EXCEPT ![w] = [job[w] EXCEPT !.step = "call", !.action = a]]
             /\ log'[a].confirm = "NOT_REQUIRED"
    BY <1>t, <2>1 DEF Jobs
  <2>2. CASE job' = [job EXCEPT ![w] = [job[w] EXCEPT !.step = "mark"]]
    BY <1>t, <2>2 DEF Jobs
  <2>3. CASE job' = [job EXCEPT ![w] = Idle] /\ job[w].rec \notin Recs
    BY <1>t, <2>3 DEF Idle
  <2> QED
    BY <1>2, <2>1, <2>2, <2>3
<1>4. ASSUME NEW r \in Recs
      PROVE  \/ Pending(r)' \subseteq Pending(r)
             \/ /\ job[w].rec = r /\ log'[a].confirm = "PENDING"
                /\ Pending(r)' \subseteq {a}
  <2>1. job[w].rec = r => Pending(r) = {}
    BY <1>1 DEF DraftSafe
  <2>2. \/ Pending(r)' \subseteq Pending(r)
        \/ /\ job[w].rec = r /\ log'[a].confirm = "PENDING"
           /\ Pending(r)' \subseteq Pending(r) \cup {a}
    BY <1>t, <1>2, PendingMoves
  <2> QED
    BY <2>1, <2>2
<1>5. ASSUME NEW r \in Recs, NEW b \in Pending(r)', NEW c \in Pending(r)' PROVE b = c
  BY <1>4, <1>5 DEF DraftSafe
<1>6. ASSUME NEW r \in Recs, rec'[r] # "SELECTED", Pending(r)' # {}
      PROVE  job'[w].step = "mark" /\ job'[w].rec = r
  <2>1. Pending(r) = {}
    BY <1>1, <1>6, Unmarked
  <2> QED
    BY <1>3, <1>4, <1>6, <2>1
<1> QED
  BY <1>3, <1>5, <1>6, DraftJoin

\* The two ends of a selection write the status of its recommendation.
LEMMA EndDraft ==
    ASSUME OneAtATime, IInv, SerialSafe, DraftSafe, NEW w \in Workers,
           SelectExpire(w) \/ SelectMark(w)
    PROVE  DraftSafe'
<1> USE DEF At
<1>t. TypeInv /\ job \in [Workers -> Jobs] /\ rec \in [Recs -> {"ACTIVE", "SELECTED", "EXPIRED"}]
  BY DEF IInv, TypeInv, TypeOK
<1>1. log' = log /\ job'[w].step = "idle"
  BY <1>t, FinishFacts DEF SelectExpire, SelectMark, Idle
<1>2. \A r \in Recs : Pending(r)' = Pending(r)
  BY <1>1 DEF Pending, Awaiting
<1>3. ASSUME NEW r \in Recs, rec'[r] # "SELECTED" PROVE Pending(r) = {}
  <2>1. CASE SelectExpire(w)
    <3>1. CASE job[w].rec = r
      BY <2>1, <3>1 DEF SelectExpire, DraftSafe
    <3>2. CASE job[w].rec # r
      <4>1. rec'[r] = rec[r] /\ job[w].step = "expire"
        BY <1>t, <2>1, <3>2 DEF SelectExpire
      <4> QED
        BY <1>3, <4>1, Unmarked
    <3> QED
      BY <3>1, <3>2
  <2>2. CASE SelectMark(w)
    <3>1. job[w].rec # r
      <4>1. ASSUME job[w].rec = r PROVE rec'[r] = "SELECTED"
        <5>1. /\ rec[r] \in {"ACTIVE", "SELECTED"}
              /\ job[w].wasActive = (rec[r] = "ACTIVE")
          BY <4>1 DEF SerialSafe, JobCurrent
        <5>2. CASE rec[r] = "ACTIVE"
          BY <1>t, <2>2, <4>1, <5>1, <5>2 DEF SelectMark
        <5>3. CASE rec[r] = "SELECTED"
          BY <1>t, <2>2, <4>1, <5>1, <5>3 DEF SelectMark
        <5> QED
          BY <5>1, <5>2, <5>3
      <4> QED
        BY <1>3, <4>1
    <3>2. rec'[r] = rec[r]
      BY <1>t, <2>2, <3>1 DEF SelectMark
    <3> QED
      BY <1>3, <3>1, <3>2, Unmarked
  <2> QED
    BY <2>1, <2>2
<1>4. /\ \A r \in Recs : \A a, b \in Pending(r)' : a = b
      /\ \A r \in Recs : rec'[r] # "SELECTED" => Pending(r)' = {}
  BY <1>2, <1>3 DEF DraftSafe
<1> QED
  BY <1>1, <1>4, DraftJoin

LEMMA DraftStep ==
    ASSUME OneAtATime, ~MayCrash, IInv, SerialSafe, DraftSafe, [Next]_vars
    PROVE  DraftSafe'
<1> USE DEF agentVars, coreVars, history
<1>1. CASE UNCHANGED <<log, rec, job>>
  BY <1>1 DEF DraftSafe, Pending, Awaiting
<1>2. (UNCHANGED vars \/ \E r \in Recs : PassExpiry(r)) => UNCHANGED <<log, rec, job>>
  BY DEF vars, PassExpiry
<1>3. \A w \in Workers, a \in Actions : CoreStep(w, a) => UNCHANGED <<log, rec, job>>
  BY DEF CoreStep, CoreLookup, CoreApply, CoreDuplicate, CoreReject
<1>4. ASSUME NEW w \in Workers, Continue(w) PROVE DraftSafe'
  <2>1. CASE ~(SelectExpire(w) \/ SelectMark(w) \/ Prepare(w))
    <3>1. rec' = rec /\ job[w].step # "mark"
      BY <1>4, <2>1 DEF Continue, SelectReopen, SelectSwitch, SelectCancel, ConfirmAccept,
         ConfirmDecline, Send, Respond, Timeout, ReportSuccess, ReportFailure, At
    <3> QED
      BY <1>4, <2>1, <3>1, MiddleDraft
  <2> QED
    BY <2>1, EndDraft, PrepareDraft
<1>5. ~Crash
  BY DEF Crash
<1> QED
  BY <1>1, <1>2, <1>3, <1>4, <1>5, RequestDraft DEF Next

\* Served one request at a time by a process that does not crash, selecting
\* another option never leaves two drafts of one recommendation waiting for
\* the customer.
THEOREM OneDraftPends ==
    OneAtATime /\ ~MayCrash => (Spec => []OnePendingPerRecommendation)
<1> SUFFICES ASSUME OneAtATime, ~MayCrash PROVE Spec => []OnePendingPerRecommendation
  OBVIOUS
<1>1. Init => DraftSafe
  <2> SUFFICES ASSUME Init PROVE DraftSafe
    OBVIOUS
  <2>1. \A w \in Workers : job[w].step = "idle"
    BY DEF Init, Idle
  <2>2. \A r \in Recs : Pending(r) = {}
    BY DEF Init, NoRow, Pending, Awaiting
  <2> QED
    BY <2>1, <2>2 DEF DraftSafe
<1>2. IInv /\ SerialSafe /\ DraftSafe /\ [Next]_vars => DraftSafe'
  BY DraftStep
<1>3. DraftSafe => OnePendingPerRecommendation
  <2> SUFFICES ASSUME DraftSafe, NEW r \in Recs PROVE Cardinality(Pending(r)) <= 1
    BY DEF OnePendingPerRecommendation
  <2>1. CASE Pending(r) = {}
    BY <2>1, FS_EmptySet
  <2>2. CASE Pending(r) # {}
    <3>1. PICK a \in Pending(r) : Pending(r) = {a}
      BY <2>2 DEF DraftSafe
    <3>2. Cardinality({a}) = 1
      BY FS_Singleton
    <3> QED
      BY <3>1, <3>2
  <2> QED
    BY <2>1, <2>2
<1> QED
  BY <1>1, <1>2, <1>3, SerialInvariance, Invariance, PTL DEF Spec
==============================================================================
