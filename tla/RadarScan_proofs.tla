-------------------------- MODULE RadarScan_proofs --------------------------
(***************************************************************************)
(* Proofs about RadarScan, for any number of threads and scans: types,     *)
(* that a scan is run by one thread, that a stored recommendation matches  *)
(* its scan, that a report says what stood while the scan ran, and that    *)
(* scans reuse the open signal of a type.                                  *)
(***************************************************************************)
EXTENDS RadarScan, FiniteSetTheorems, SequenceTheorems, TLAPS

Signal == [type : Types, status : Open \cup {"ACTIONED"}]

\* A scan that has begun and not ended is run by one thread at most, and not
\* waiting for one; signals are named by their places.
Owned ==
    /\ \A w \in Workers :
          /\ job[w].step # "idle" =>
                /\ job[w].scan \in Scans
                /\ scan[job[w].scan].status = "RUNNING"
                /\ job[w].scan \notin queue \cup stopped
          /\ job[w].step = "idle" => job[w].scan = NoScan
          /\ job[w].signal \in 0..Len(signals)
          /\ job[w].step = "recommend" => job[w].signal # 0
          /\ job[w].step \in {"ask", "find", "upsert", "recommend"} => job[w].type \in Types
    /\ \A v, w \in Workers :
          v # w /\ job[v].step # "idle" /\ job[w].step # "idle"
          => job[v].scan # job[w].scan
    /\ \A s \in queue \cup stopped : scan[s].status = "RUNNING"
    /\ queue \cap stopped = {}
    /\ \A s \in Scans : rec[s] \in 0..Len(signals)
    /\ \A s \in proposed : rec[s] # 0

Struct == TypeOK /\ Owned

-----------------------------------------------------------------------------
(* Signals *)

LEMMA SignalsFacts ==
    ASSUME TypeOK
    PROVE  /\ signals \in Seq(Signal)
           /\ Len(signals) \in Nat
           /\ DOMAIN signals = 1..Len(signals)
           /\ \A i \in 1..Len(signals) : signals[i] \in Signal
<1>1. signals \in Seq(Signal)
  BY DEF TypeOK, Signal
<1> QED
  BY <1>1, LenProperties, ElementOfSeq

LEMMA Restatused ==
    ASSUME TypeOK, NEW i \in 1..Len(signals), NEW status \in Open \cup {"ACTIONED"},
           signals' = [signals EXCEPT ![i].status = status]
    PROVE  /\ signals' \in Seq(Signal)
           /\ Len(signals') = Len(signals)
           /\ \A j \in 1..Len(signals) :
                 /\ signals'[j].type = signals[j].type
                 /\ signals'[j].status = IF j = i THEN status ELSE signals[j].status
<1> DEFINE new == [signals[i] EXCEPT !.status = status]
<1>1. signals \in Seq(Signal) /\ signals[i] \in Signal
  BY SignalsFacts
<1>2. /\ new \in Signal
      /\ new.type = signals[i].type
      /\ new.status = status
  BY <1>1 DEF Signal
<1>3. signals' = [signals EXCEPT ![i] = new]
  OBVIOUS
<1> HIDE DEF new
<1>4. /\ signals' \in Seq(Signal)
      /\ Len(signals') = Len(signals)
      /\ \A j \in 1..Len(signals) : signals'[j] = IF j = i THEN new ELSE signals[j]
  BY <1>1, <1>2, <1>3, ExceptSeq
<1> QED
  BY <1>2, <1>4

LEMMA Appended ==
    ASSUME TypeOK, NEW type \in Types,
           signals' = Append(signals, [type |-> type, status |-> "NEW"])
    PROVE  /\ signals' \in Seq(Signal)
           /\ Len(signals') = Len(signals) + 1
           /\ \A j \in 1..Len(signals) : signals'[j] = signals[j]
           /\ signals'[Len(signals) + 1] = [type |-> type, status |-> "NEW"]
<1>1. [type |-> type, status |-> "NEW"] \in Signal
  BY DEF Signal, Open
<1>2. signals \in Seq(Signal)
  BY SignalsFacts
<1> QED
  BY <1>1, <1>2, AppendProperties

\* Signals are never removed and keep their types.
LEMMA SignalsKept ==
    ASSUME Struct, [Next]_vars
    PROVE  /\ signals' \in Seq(Signal)
           /\ Len(signals') \in Nat
           /\ Len(signals) <= Len(signals')
           /\ \A i \in 1..Len(signals) : signals'[i].type = signals[i].type
<1>a. TypeOK /\ Owned
  BY DEF Struct
<1>b. Len(signals) \in Nat /\ signals \in Seq(Signal)
  BY <1>a, SignalsFacts
<1>1. CASE signals' = signals
  BY <1>1, <1>b
<1>2. ASSUME NEW w \in Workers, UpsertSignal(w)
      PROVE  \/ signals' = signals
             \/ /\ job[w].type \in Types
                /\ signals' = Append(signals, [type |-> job[w].type, status |-> "NEW"])
  BY <1>2, <1>a DEF UpsertSignal, At, Owned
<1>3. ASSUME NEW w \in Workers, Recommend(w)
      PROVE  \/ signals' = signals
             \/ /\ job[w].signal \in 1..Len(signals)
                /\ signals' = [signals EXCEPT ![job[w].signal].status = "SHOWN"]
  BY <1>3, <1>a DEF Recommend, Shown, At, Owned
<1>4. ASSUME NEW s \in Scans, Propose(s)
      PROVE  /\ rec[s] \in 1..Len(signals)
             /\ signals' = [signals EXCEPT ![rec[s]].status = "ACTION_PROPOSED"]
  BY <1>4, <1>a DEF Propose, Owned
<1>5. ASSUME NEW s \in Scans, Resolve(s)
      PROVE  \/ signals' = signals
             \/ /\ rec[s] \in 1..Len(signals)
                /\ signals' = [signals EXCEPT ![rec[s]].status = "ACTIONED"]
  BY <1>5, <1>a DEF Resolve, Owned
<1>6. ASSUME NEW i \in 1..Len(signals), NEW status \in Open \cup {"ACTIONED"},
             signals' = [signals EXCEPT ![i].status = status]
      PROVE  /\ signals' \in Seq(Signal)
             /\ Len(signals') = Len(signals)
             /\ \A j \in 1..Len(signals) : signals'[j].type = signals[j].type
  BY <1>6, <1>a, Restatused
<1>7. ASSUME NEW type \in Types,
             signals' = Append(signals, [type |-> type, status |-> "NEW"])
      PROVE  /\ signals' \in Seq(Signal)
             /\ Len(signals') = Len(signals) + 1
             /\ \A j \in 1..Len(signals) : signals'[j].type = signals[j].type
  BY <1>7, <1>a, Appended
<1>8. "SHOWN" \in Open /\ "ACTION_PROPOSED" \in Open
  BY DEF Open
<1>9. \/ signals' = signals
      \/ \E w \in Workers : UpsertSignal(w) \/ Recommend(w)
      \/ \E s \in Scans : Propose(s) \/ Resolve(s)
  BY DEF Next, vars, Continue, tables, Abandon, CreateAsync, CreateSync, Take, Change,
         Crash, ToolSucceeds, ToolFails, ReadContext, Answered, Malformed, FindSignal,
         Complete, Fail, Break
<1>10. ASSUME NEW w \in Workers, UpsertSignal(w) \/ Recommend(w)
       PROVE  /\ signals' \in Seq(Signal)
              /\ Len(signals') \in {Len(signals), Len(signals) + 1}
              /\ \A i \in 1..Len(signals) : signals'[i].type = signals[i].type
  BY <1>10, <1>1, <1>2, <1>3, <1>6, <1>7, <1>8
<1>11. ASSUME NEW s \in Scans, Propose(s) \/ Resolve(s)
       PROVE  /\ signals' \in Seq(Signal)
              /\ Len(signals') = Len(signals)
              /\ \A i \in 1..Len(signals) : signals'[i].type = signals[i].type
  BY <1>11, <1>1, <1>4, <1>5, <1>6, <1>8
<1> QED
  BY <1>b, <1>1, <1>9, <1>10, <1>11

-----------------------------------------------------------------------------
(* Types and owners *)

LEMMA PrimaryFacts ==
    ASSUME NEW flags \in SUBSET Types, flags # {}
    PROVE  /\ Primary(flags) \in flags
           /\ \A t \in flags : Rank[Primary(flags)] <= Rank[t]
<1>1. \A t \in Types : Rank[t] \in Nat
  BY DEF Types, Rank
<1>2. \E t \in flags : \A other \in flags : Rank[t] <= Rank[other]
  <2>1. CASE "CASHFLOW_RISK" \in flags
    BY <2>1 DEF Types, Rank
  <2>2. CASE "CASHFLOW_RISK" \notin flags /\ "SPENDING_ANOMALY" \in flags
    BY <2>2 DEF Types, Rank
  <2>3. CASE {"CASHFLOW_RISK", "SPENDING_ANOMALY"} \cap flags = {}
             /\ "GOAL_DRIFT" \in flags
    BY <2>3 DEF Types, Rank
  <2>4. CASE {"CASHFLOW_RISK", "SPENDING_ANOMALY", "GOAL_DRIFT"} \cap flags = {}
             /\ "UPCOMING_RECURRING" \in flags
    BY <2>4 DEF Types, Rank
  <2>5. CASE {"CASHFLOW_RISK", "SPENDING_ANOMALY", "GOAL_DRIFT", "UPCOMING_RECURRING"}
             \cap flags = {}
    <3>1. flags = {"IDLE_CASH"}
      BY <2>5 DEF Types
    <3> QED
      BY <3>1 DEF Rank
  <2> QED
    BY <2>1, <2>2, <2>3, <2>4, <2>5 DEF Types
<1> QED
  BY <1>2 DEF Primary

\* The steps of a running scan that leave it running.
Goes(w) ==
    \/ ToolSucceeds(w) \/ ToolFails(w) \/ ReadContext(w)
    \/ Answered(w) \/ Malformed(w)
    \/ FindSignal(w) \/ UpsertSignal(w) \/ Recommend(w) \/ Break(w)

LEMMA IdleFacts ==
    /\ Idle \in Jobs
    /\ Idle.step = "idle" /\ Idle.scan = NoScan /\ Idle.signal = 0
BY DEF Idle, Jobs, Steps, Calm, NoScan, Open

\* A thread that begins a scan.
LEMMA StartedFacts ==
    ASSUME NEW s \in Scans
    PROVE  LET new == [Idle EXCEPT !.step = "snapshot", !.scan = s]
           IN /\ new \in Jobs
              /\ new.step = "snapshot" /\ new.scan = s /\ new.signal = 0 /\ new.flags = {}
BY DEF Idle, Jobs, Steps, Tools, Calm, NoScan, Open

LEMMA ToolFacts ==
    \A tool \in Tools :
        /\ tool # "idle" /\ tool \in Steps
        /\ After[tool] \in (Tools \ {"snapshot"}) \cup {"context"}
        /\ AfterError(tool) \subseteq {"failing", "context"}
        /\ Detects[tool] \in Types \cup {Calm}
BY DEF Tools, After, AfterError, Detects, Types, Calm, Steps

\* What a step of a running scan does to its thread, field by field.
LEMMA GoesFacts ==
    ASSUME Struct, NEW w \in Workers, Goes(w)
    PROVE  /\ job[w].step # "idle"
           /\ job'[w] \in Jobs
           /\ job'[w].step # "idle"
           /\ job'[w].scan = job[w].scan
           /\ job'[w].signal \in 0..Len(signals')
           /\ job'[w].step = "recommend" => job'[w].signal # 0
           /\ job'[w].step \in {"ask", "find", "upsert", "recommend"} => job'[w].type \in Types
           /\ \A v \in Workers : v # w => job'[v] = job[v]
           /\ job' \in [Workers -> Jobs]
           /\ UNCHANGED <<scan, queue, proposed, risks, changes, stood, seen, stopped>>
<1>a. /\ job \in [Workers -> Jobs] /\ job[w] \in Jobs
      /\ Owned
      /\ risks \subseteq Types
  BY DEF Struct, TypeOK
<1>b. Len(signals) \in Nat /\ Len(signals') \in Nat /\ Len(signals) <= Len(signals')
  <2>1. [Next]_vars
    BY DEF Goes, Next, Continue
  <2> QED
    BY <2>1, SignalsFacts, SignalsKept DEF Struct
<1>c. job[w].signal \in 0..Len(signals')
  BY <1>a, <1>b DEF Owned
<1>d. UNCHANGED <<scan, queue, proposed, risks, changes, stood, seen, stopped>>
  BY DEF Goes, ToolSucceeds, ToolFails, ReadContext, Answered, Malformed, FindSignal,
         UpsertSignal, Recommend, Break, tables, world, history
<1>1. ASSUME NEW new \in Jobs, job' = [job EXCEPT ![w] = new]
      PROVE  /\ job'[w] = new
             /\ \A v \in Workers : v # w => job'[v] = job[v]
             /\ job' \in [Workers -> Jobs]
  BY <1>1, <1>a
<1>2. ASSUME NEW new \in Jobs, job' = [job EXCEPT ![w] = new],
             job[w].step # "idle", new.step # "idle", new.scan = job[w].scan,
             new.signal \in 0..Len(signals'),
             new.step = "recommend" => new.signal # 0,
             new.step \in {"ask", "find", "upsert", "recommend"} => new.type \in Types
      PROVE  /\ job[w].step # "idle"
             /\ job'[w] \in Jobs
             /\ job'[w].step # "idle"
             /\ job'[w].scan = job[w].scan
             /\ job'[w].signal \in 0..Len(signals')
             /\ job'[w].step = "recommend" => job'[w].signal # 0
             /\ job'[w].step \in {"ask", "find", "upsert", "recommend"} => job'[w].type \in Types
             /\ \A v \in Workers : v # w => job'[v] = job[v]
             /\ job' \in [Workers -> Jobs]
  BY <1>1, <1>2
<1>3. CASE ToolSucceeds(w)
  <2> DEFINE tool == job[w].step
             flags == job[w].flags \cup ({Detects[tool]} \cap risks)
             new == [job[w] EXCEPT !.step = After[tool], !.flags = flags]
  <2>1. tool \in Tools /\ job' = [job EXCEPT ![w] = new]
    BY <1>3, <1>a DEF ToolSucceeds
  <2>2. After[tool] \in (Tools \ {"snapshot"}) \cup {"context"} /\ tool # "idle"
    BY <2>1, ToolFacts
  <2>3. flags \subseteq Types
    BY <1>a DEF Jobs
  <2>4. After[tool] \in Steps \ {"idle", "ask", "find", "upsert", "recommend"}
    BY <2>2 DEF Steps, Tools
  <2> HIDE DEF flags, tool
  <2>5. /\ new \in Jobs /\ new.step = After[tool] /\ new.scan = job[w].scan
        /\ new.signal = job[w].signal
    BY <1>a, <2>3, <2>4 DEF Jobs
  <2> HIDE DEF new
  <2> QED
    BY <1>2, <1>c, <1>d, <2>1, <2>2, <2>4, <2>5 DEF tool
<1>4. CASE ReadContext(w)
  <2> DEFINE flags == job[w].flags \cup ({"IDLE_CASH"} \cap risks)
             step == IF flags = {} THEN "complete" ELSE "ask"
             new == [job[w] EXCEPT !.flags = {}, !.type = Primary(flags), !.step = step]
  <2>1. job[w].step = "context" /\ job' = [job EXCEPT ![w] = new]
    BY <1>4, <1>a DEF ReadContext, At
  <2>2. flags \in SUBSET Types
    BY <1>a DEF Jobs
  <2> HIDE DEF flags
  <2>3. /\ Primary(flags) \in Types \cup {Calm}
        /\ step = "ask" => Primary(flags) \in Types
    BY <2>2, PrimaryFacts DEF Primary
  <2>4. step \in Steps /\ step \in {"ask", "complete"}
    BY DEF Steps
  <2> HIDE DEF step
  <2>5. /\ new \in Jobs /\ new.step = step /\ new.scan = job[w].scan
        /\ new.signal = job[w].signal /\ new.type = Primary(flags)
    BY <1>a, <2>3, <2>4 DEF Jobs
  <2> HIDE DEF new
  <2> QED
    BY <1>2, <1>c, <1>d, <2>1, <2>3, <2>4, <2>5
<1>5. CASE ToolFails(w) \/ Recommend(w)
  <2>1. PICK step \in {"failing", "context", "complete"} :
            job' = [job EXCEPT ![w] = [job[w] EXCEPT !.step = step]]
    BY <1>5, <1>a, ToolFacts DEF ToolFails, Recommend, Goto
  <2>2. job[w].step # "idle"
    BY <1>5, ToolFacts DEF ToolFails, Recommend, At
  <2> DEFINE new == [job[w] EXCEPT !.step = step]
  <2>3. /\ new \in Jobs /\ new.step = step /\ new.scan = job[w].scan
        /\ new.signal = job[w].signal
    BY <1>a DEF Jobs, Steps
  <2> HIDE DEF new
  <2> QED
    BY <1>2, <1>c, <1>d, <2>1, <2>2, <2>3 DEF new
<1>6. CASE Answered(w) \/ Malformed(w) \/ Break(w)
  <2>1. PICK step \in {"failing", "find", "ask"}, asked \in Nat :
            /\ job' = [job EXCEPT ![w] = [job[w] EXCEPT !.step = step, !.asked = asked]]
            /\ step # "failing" => job[w].step = "ask"
    <3>1. job[w].asked \in Nat
      BY <1>a DEF Jobs
    <3>2. CASE Answered(w) \/ Break(w)
      BY <3>2, <1>a DEF Answered, Break, At
    <3>3. CASE Malformed(w)
      <4>1. CASE job[w].asked < Retries
        <5>1. job' = [job EXCEPT ![w] = [job[w] EXCEPT !.asked = job[w].asked + 1]]
          BY <3>3, <4>1, <1>a DEF Malformed, At
        <5>2. [job[w] EXCEPT !.asked = job[w].asked + 1]
              = [job[w] EXCEPT !.step = "ask", !.asked = job[w].asked + 1]
          BY <3>3, <1>a DEF Malformed, At, Jobs
        <5>3. job[w].asked + 1 \in Nat /\ job[w].step = "ask"
          BY <3>1, <3>3 DEF Malformed, At
        <5> QED
          BY <5>1, <5>2, <5>3
      <4>2. CASE ~(job[w].asked < Retries)
        BY <3>3, <4>2, <1>a DEF Malformed, At
      <4> QED
        BY <4>1, <4>2
    <3> QED
      BY <1>6, <3>2, <3>3
  <2>2. job[w].step # "idle"
    BY <1>6 DEF Answered, Malformed, Break, At
  <2> DEFINE new == [job[w] EXCEPT !.step = step, !.asked = asked]
  <2>3. /\ new \in Jobs /\ new.step = step /\ new.scan = job[w].scan
        /\ new.signal = job[w].signal /\ new.type = job[w].type
    BY <1>a DEF Jobs, Steps
  <2>4. step # "failing" => job[w].type \in Types
    BY <1>a, <2>1 DEF Owned
  <2> HIDE DEF new
  <2> QED
    BY <1>2, <1>c, <1>d, <2>1, <2>2, <2>3, <2>4 DEF new
<1>7. CASE FindSignal(w)
  <2>1. job[w].step = "find" /\ job[w].type \in Types
    BY <1>7, <1>a DEF FindSignal, At, Owned
  <2>2. PICK signal \in 0..Len(signals'), loaded \in Open :
            job' = [job EXCEPT ![w] = [job[w] EXCEPT !.step = "upsert", !.signal = signal,
                                                     !.loaded = loaded]]
    <3> DEFINE found == Matching(job[w].type)
    <3>1. CASE found = {}
      <4>1. job' = [job EXCEPT ![w] = [job[w] EXCEPT !.step = "upsert"]]
        BY <1>7, <3>1, <1>a DEF FindSignal, Goto
      <4>2. [job[w] EXCEPT !.step = "upsert"]
            = [job[w] EXCEPT !.step = "upsert", !.signal = job[w].signal,
                             !.loaded = job[w].loaded]
        BY <1>a DEF Jobs
      <4>3. job[w].loaded \in Open
        BY <1>a DEF Jobs
      <4> QED
        BY <1>c, <4>1, <4>2, <4>3
    <3>2. CASE found # {}
      <4>1. PICK k \in found : job' = [job EXCEPT ![w] = [job[w] EXCEPT !.step = "upsert",
                                                   !.signal = k,
                                                   !.loaded = signals[k].status]]
        BY <1>7, <3>2, <1>a DEF FindSignal
      <4>2. k \in 1..Len(signals)
        BY SignalsFacts DEF Struct, Matching
      <4> k \in 0..Len(signals')
        BY <1>b, <4>2
      <4> signals[k].status \in Open
        BY DEF Matching
      <4> WITNESS k \in 0..Len(signals'), signals[k].status \in Open
      <4> QED
        BY <4>1
    <3> QED
      BY <3>1, <3>2
  <2> DEFINE new == [job[w] EXCEPT !.step = "upsert", !.signal = signal, !.loaded = loaded]
  <2>3. /\ new \in Jobs /\ new.step = "upsert" /\ new.scan = job[w].scan
        /\ new.signal = signal /\ new.type = job[w].type
    <3>1. signal \in Nat
      BY <1>b
    <3> QED
      BY <1>a, <3>1 DEF Jobs, Steps
  <2> HIDE DEF new
  <2> QED
    BY <1>2, <1>d, <2>1, <2>2, <2>3 DEF new
<1>8. CASE UpsertSignal(w)
  <2>1. job[w].step = "upsert" /\ job[w].type \in Types
    BY <1>8, <1>a DEF UpsertSignal, At, Owned
  <2>2. PICK signal \in 0..Len(signals') :
            /\ job' = [job EXCEPT ![w] = [job[w] EXCEPT !.step = "recommend", !.signal = signal]]
            /\ signal # 0
    <3>1. CASE job[w].signal = 0
      <4>1. /\ signals' = Append(signals, [type |-> job[w].type, status |-> "NEW"])
            /\ job' = [job EXCEPT ![w] = [job[w] EXCEPT !.step = "recommend",
                                                       !.signal = Len(signals) + 1]]
        BY <1>8, <3>1, <1>a DEF UpsertSignal
      <4>2. Len(signals') = Len(signals) + 1
        BY <2>1, <4>1, Appended DEF Struct
      <4>3. Len(signals) + 1 # 0
        BY <1>b
      <4> Len(signals) + 1 \in 0..Len(signals')
        BY <1>b, <4>2
      <4> WITNESS Len(signals) + 1 \in 0..Len(signals')
      <4> QED
        BY <4>1, <4>3
    <3>2. CASE job[w].signal # 0
      <4>1. job' = [job EXCEPT ![w] = [job[w] EXCEPT !.step = "recommend"]]
        BY <1>8, <3>2, <1>a DEF UpsertSignal, Goto
      <4>2. [job[w] EXCEPT !.step = "recommend"]
            = [job[w] EXCEPT !.step = "recommend", !.signal = job[w].signal]
        BY <1>a DEF Jobs
      <4> QED
        BY <1>c, <3>2, <4>1, <4>2
    <3> QED
      BY <3>1, <3>2
  <2> DEFINE new == [job[w] EXCEPT !.step = "recommend", !.signal = signal]
  <2>3. /\ new \in Jobs /\ new.step = "recommend" /\ new.scan = job[w].scan
        /\ new.signal = signal /\ new.type = job[w].type
    <3>1. signal \in Nat
      BY <1>b
    <3> QED
      BY <1>a, <3>1 DEF Jobs, Steps
  <2> HIDE DEF new
  <2> QED
    BY <1>2, <1>d, <2>1, <2>2, <2>3 DEF new
<1> QED
  BY <1>3, <1>4, <1>5, <1>6, <1>7, <1>8 DEF Goes

\* A step of a running scan keeps the types and the owners.
LEMMA GoesKeep ==
    ASSUME Struct, NEW w \in Workers, Goes(w)
    PROVE  Struct'
<1>a. TypeOK /\ Owned
  BY DEF Struct
<1>b. /\ signals' \in Seq(Signal) /\ Len(signals) \in Nat /\ Len(signals') \in Nat
      /\ Len(signals) <= Len(signals')
  <2>1. [Next]_vars
    BY DEF Goes, Next, Continue
  <2> QED
    BY <2>1, <1>a, SignalsFacts, SignalsKept
<1>c. /\ job[w].step # "idle" /\ job'[w].step # "idle"
      /\ job'[w].scan = job[w].scan
      /\ job'[w].signal \in 0..Len(signals')
      /\ job'[w].step = "recommend" => job'[w].signal # 0
      /\ job'[w].step \in {"ask", "find", "upsert", "recommend"} => job'[w].type \in Types
      /\ \A v \in Workers : v # w => job'[v] = job[v]
      /\ job' \in [Workers -> Jobs]
  BY GoesFacts
<1>d. UNCHANGED <<scan, queue, proposed, risks, changes, stood, seen, stopped>>
  BY GoesFacts
<1>e. job[w].scan \in Scans /\ job[w].signal \in 0..Len(signals)
  BY <1>a, <1>c DEF Owned
<1>1. /\ rec' \in [Scans -> Nat]
      /\ \A s \in Scans : rec'[s] \in 0..Len(signals')
      /\ \A s \in proposed' : rec'[s] # 0
  <2>1. CASE Recommend(w)
    <3>1. rec' = [rec EXCEPT ![job[w].scan] = job[w].signal] /\ job[w].signal # 0
      BY <2>1, <1>a DEF Recommend, At, Owned
    <3>2. job[w].signal \in 1..Len(signals')
      BY <1>b, <1>e, <3>1
    <3>3. \A s \in Scans : rec[s] \in 0..Len(signals')
      BY <1>a, <1>b DEF Owned
    <3>4. rec \in [Scans -> Nat] /\ proposed \subseteq Scans
      BY <1>a DEF TypeOK
    <3>5. \A s \in proposed : rec[s] # 0
      BY <1>a DEF Owned
    <3> QED
      BY <1>b, <1>d, <1>e, <3>1, <3>2, <3>3, <3>4, <3>5
  <2>2. CASE rec' = rec
    <3>1. \A s \in Scans : rec[s] \in 0..Len(signals')
      BY <1>a, <1>b DEF Owned
    <3> QED
      BY <1>a, <1>d, <2>2, <3>1 DEF TypeOK, Owned
  <2> QED
    BY <2>1, <2>2 DEF Goes, ToolSucceeds, ToolFails, ReadContext, Answered, Malformed,
       FindSignal, UpsertSignal, Break, tables
<1>2. simulated' \subseteq Scans
  <2>1. simulated' = simulated \/ simulated' = simulated \cup {job[w].scan}
    BY DEF Goes, ToolSucceeds, ToolFails, ReadContext, Answered, Malformed, FindSignal,
           UpsertSignal, Recommend, Break, tables
  <2> QED
    BY <1>a, <1>e, <2>1 DEF TypeOK
<1>3. excused' \subseteq Types
  <2>1. CASE Recommend(w)
    <3>1. job[w].signal \in 1..Len(signals)
      BY <2>1, <1>a, <1>b DEF Recommend, At, Owned
    <3>2. signals[job[w].signal].type \in Types
      BY <1>a, <3>1, SignalsFacts DEF Signal
    <3> QED
      BY <2>1, <1>a, <3>2 DEF Recommend, Reopens, TypeOK
  <2>2. CASE FindSignal(w)
    <3>1. excused' = excused \/ excused' = excused \cup {job[w].type}
      BY <2>2 DEF FindSignal
    <3>2. job[w].type \in Types
      BY <2>2, <1>a DEF FindSignal, At, Owned
    <3> QED
      BY <1>a, <3>1, <3>2 DEF TypeOK
  <2>3. CASE excused' = excused
    BY <2>3, <1>a DEF TypeOK
  <2> QED
    BY <2>1, <2>2, <2>3 DEF Goes, ToolSucceeds, ToolFails, ReadContext, Answered, Malformed,
       UpsertSignal, Break, history
<1>4. TypeOK'
  BY <1>a, <1>b, <1>c, <1>d, <1>1, <1>2, <1>3 DEF TypeOK, Signal
<1>5. \A v \in Workers :
         /\ job'[v].step # "idle" =>
               /\ job'[v].scan \in Scans
               /\ scan'[job'[v].scan].status = "RUNNING"
               /\ job'[v].scan \notin queue' \cup stopped'
         /\ job'[v].step = "idle" => job'[v].scan = NoScan
  BY <1>a, <1>c, <1>d DEF Owned
<1>6. \A v \in Workers :
         /\ job'[v].signal \in 0..Len(signals')
         /\ job'[v].step = "recommend" => job'[v].signal # 0
         /\ job'[v].step \in {"ask", "find", "upsert", "recommend"} => job'[v].type \in Types
  BY <1>a, <1>b, <1>c DEF Owned
<1>7. \A u, v \in Workers :
         u # v /\ job'[u].step # "idle" /\ job'[v].step # "idle" => job'[u].scan # job'[v].scan
  BY <1>a, <1>c DEF Owned
<1>8. (\A s \in queue' \cup stopped' : scan'[s].status = "RUNNING")
      /\ queue' \cap stopped' = {}
  BY <1>a, <1>d DEF Owned
<1>9. Owned'
  BY <1>1, <1>5, <1>6, <1>7, <1>8 DEF Owned
<1> QED
  BY <1>4, <1>9 DEF Struct

\* A scan that is created is nobody's, and one that is taken the queue's.
LEMMA BeginKeeps ==
    ASSUME Struct, NEW w \in Workers, NEW s \in Scans,
           CreateAsync(w, s) \/ CreateSync(w, s) \/ Take(w, s)
    PROVE  Struct'
<1>a. TypeOK /\ Owned
  BY DEF Struct
<1>b. UNCHANGED <<rec, signals, simulated, proposed, risks, changes, stopped, excused>>
  BY DEF CreateAsync, CreateSync, Take, tables, world, history
<1>c. job \in [Workers -> Jobs] /\ job[w].step = "idle"
      /\ scan \in [Scans -> [status : {"ABSENT", "RUNNING", "COMPLETED", "FAILED"},
                             found : Types \cup {Calm}]]
      /\ stood \in [Scans -> SUBSET Types] /\ seen \in [Scans -> SUBSET Types]
      /\ risks \in SUBSET Types
  BY <1>a DEF TypeOK, CreateAsync, CreateSync, Take, At
<1> DEFINE new == [Idle EXCEPT !.step = "snapshot", !.scan = s]
<1>d. new \in Jobs /\ new.step = "snapshot" /\ new.scan = s /\ new.signal = 0
  BY StartedFacts
<1> HIDE DEF new
<1>e. \A v \in Workers : job[v].step # "idle" => scan[job[v].scan].status = "RUNNING"
      /\ job[v].scan \in Scans /\ job[v].scan \notin queue \cup stopped
  BY <1>a DEF Owned
<1>1. /\ scan' \in [Scans -> [status : {"ABSENT", "RUNNING", "COMPLETED", "FAILED"},
                             found : Types \cup {Calm}]]
      /\ \A z \in Scans : z # s => scan'[z] = scan[z]
      /\ scan'[s].status = "RUNNING"
      /\ stood' \in [Scans -> SUBSET Types] /\ seen' \in [Scans -> SUBSET Types]
  <2>1. CASE Created(s)
    <3> DEFINE row == [scan[s] EXCEPT !.status = "RUNNING"]
    <3>1. /\ scan' = [scan EXCEPT ![s] = row]
          /\ stood' = [stood EXCEPT ![s] = risks]
          /\ seen' = [seen EXCEPT ![s] = risks]
      BY <2>1, <1>c DEF Created
    <3>2. /\ row \in [status : {"ABSENT", "RUNNING", "COMPLETED", "FAILED"},
                      found : Types \cup {Calm}]
          /\ row.status = "RUNNING"
      BY <1>c
    <3> HIDE DEF row
    <3> QED
      BY <3>1, <3>2, <1>c
  <2>2. CASE Take(w, s)
    BY <2>2, <1>c DEF Take, tables, world
  <2> QED
    BY <2>1, <2>2 DEF CreateAsync, CreateSync
<1>2. s \notin stopped /\ \A v \in Workers : job[v].step # "idle" => job[v].scan # s
  BY <1>a, <1>e DEF Owned, CreateAsync, CreateSync, Take, Created
<1>3. \/ queue' = queue \cup {s} /\ job' = job
      \/ s \notin queue' /\ queue' \subseteq queue /\ job' = [job EXCEPT ![w] = new]
  BY <1>a DEF CreateAsync, CreateSync, Take, Created, Owned, new
<1>4. job' \in [Workers -> Jobs] /\ queue' \subseteq Scans
  BY <1>a, <1>c, <1>d, <1>3 DEF TypeOK
<1>5. TypeOK'
  BY <1>a, <1>b, <1>1, <1>4 DEF TypeOK
<1>6. \A v \in Workers :
         \/ job'[v] = job[v]
         \/ v = w /\ job'[v] = new /\ s \notin queue'
  BY <1>c, <1>3
<1>7. \A v \in Workers :
         /\ job'[v].step # "idle" =>
               /\ job'[v].scan \in Scans
               /\ scan'[job'[v].scan].status = "RUNNING"
               /\ job'[v].scan \notin queue' \cup stopped'
         /\ job'[v].step = "idle" => job'[v].scan = NoScan
  <2> SUFFICES ASSUME NEW v \in Workers
               PROVE  /\ job'[v].step # "idle" =>
                            /\ job'[v].scan \in Scans
                            /\ scan'[job'[v].scan].status = "RUNNING"
                            /\ job'[v].scan \notin queue' \cup stopped'
                      /\ job'[v].step = "idle" => job'[v].scan = NoScan
    OBVIOUS
  <2>1. CASE job'[v] = job[v]
    BY <2>1, <1>a, <1>b, <1>e, <1>1, <1>2, <1>3 DEF Owned
  <2>2. CASE v = w /\ job'[v] = new /\ s \notin queue'
    BY <2>2, <1>b, <1>d, <1>1, <1>2
  <2> QED
    BY <2>1, <2>2, <1>6
<1>8. \A v \in Workers :
         /\ job'[v].signal \in 0..Len(signals')
         /\ job'[v].step = "recommend" => job'[v].signal # 0
         /\ job'[v].step \in {"ask", "find", "upsert", "recommend"} => job'[v].type \in Types
  <2>1. Len(signals) \in Nat
    BY <1>a, SignalsFacts
  <2> QED
    BY <2>1, <1>a, <1>b, <1>d, <1>6 DEF Owned
<1>9. \A u, v \in Workers :
         u # v /\ job'[u].step # "idle" /\ job'[v].step # "idle" => job'[u].scan # job'[v].scan
  BY <1>a, <1>d, <1>2, <1>6 DEF Owned
<1>10. (\A z \in queue' \cup stopped' : scan'[z].status = "RUNNING")
       /\ queue' \cap stopped' = {}
  <2>1. queue \subseteq Scans /\ stopped \subseteq Scans
    BY <1>a DEF TypeOK
  <2> QED
    BY <2>1, <1>a, <1>b, <1>1, <1>2, <1>3 DEF Owned
<1>11. Owned'
  BY <1>a, <1>b, <1>7, <1>8, <1>9, <1>10 DEF Owned
<1> QED
  BY <1>5, <1>11 DEF Struct

\* A worker that ends a scan, or leaves it RUNNING.
LEMMA EndKeeps ==
    ASSUME Struct, NEW w \in Workers, Complete(w) \/ Fail(w) \/ Abandon(w)
    PROVE  Struct'
<1>a. TypeOK /\ Owned
  BY DEF Struct
<1>b. UNCHANGED <<rec, signals, simulated, queue, proposed, risks, changes, excused>>
  BY DEF Complete, Fail, Abandon, tables, world, history
<1> DEFINE Rows == [status : {"ABSENT", "RUNNING", "COMPLETED", "FAILED"},
                    found : Types \cup {Calm}]
           ended == job[w].scan
<1>c. job \in [Workers -> Jobs] /\ job[w] \in Jobs /\ job[w].step # "idle"
      /\ scan \in [Scans -> Rows]
      /\ stood \in [Scans -> SUBSET Types] /\ seen \in [Scans -> SUBSET Types]
      /\ stopped \subseteq Scans /\ queue \subseteq Scans
  BY <1>a DEF TypeOK, Complete, Fail, Abandon, At
<1>d. ended \in Scans /\ ended \notin queue \cup stopped
      /\ scan[ended].status = "RUNNING"
  BY <1>a, <1>c DEF Owned
<1>e. job' = [job EXCEPT ![w] = Idle]
  BY DEF Complete, Fail, Abandon
<1>1. job' \in [Workers -> Jobs] /\ job'[w] = Idle
      /\ \A v \in Workers : v # w => job'[v] = job[v]
  BY <1>c, <1>e, IdleFacts
<1>2. /\ scan' \in [Scans -> Rows]
      /\ \A z \in Scans : z # ended => scan'[z] = scan[z]
      /\ stopped' = stopped \/ (stopped' = stopped \cup {ended} /\ scan' = scan)
  <2>1. CASE Complete(w)
    <3> DEFINE row == [status |-> "COMPLETED", found |-> job[w].type]
    <3>1. row \in Rows
      BY <1>c DEF Jobs
    <3>2. scan' = [scan EXCEPT ![ended] = row] /\ stopped' = stopped
      BY <2>1 DEF Complete, history
    <3> HIDE DEF row, Rows
    <3> QED
      BY <3>1, <3>2, <1>c
  <2>2. CASE Fail(w)
    <3> DEFINE row == [scan[ended] EXCEPT !.status = "FAILED"]
    <3>1. row \in Rows
      BY <1>c, <1>d
    <3>2. scan' = [scan EXCEPT ![ended] = row] /\ stopped' = stopped
      BY <2>2, <1>c DEF Fail, history
    <3> HIDE DEF row, Rows
    <3> QED
      BY <3>1, <3>2, <1>c
  <2>3. CASE Abandon(w)
    BY <2>3, <1>c DEF Abandon, tables
  <2> QED
    BY <2>1, <2>2, <2>3
<1>3. stood' \in [Scans -> SUBSET Types] /\ seen' \in [Scans -> SUBSET Types]
  BY <1>c DEF Complete, Fail, Abandon, Unobserved, world
<1>4. stopped' \subseteq Scans
  BY <1>c, <1>d, <1>2
<1> HIDE DEF ended
<1>5. TypeOK'
  BY <1>a, <1>b, <1>1, <1>2, <1>3, <1>4 DEF TypeOK
<1>6. \A v \in Workers : v # w /\ job[v].step # "idle" => job[v].scan # ended
  BY <1>a, <1>c DEF Owned, ended
<1>7. \A v \in Workers :
         /\ job'[v].step # "idle" =>
               /\ job'[v].scan \in Scans
               /\ scan'[job'[v].scan].status = "RUNNING"
               /\ job'[v].scan \notin queue' \cup stopped'
         /\ job'[v].step = "idle" => job'[v].scan = NoScan
  BY <1>a, <1>b, <1>1, <1>2, <1>6, IdleFacts DEF Owned
<1>8. \A v \in Workers :
         /\ job'[v].signal \in 0..Len(signals')
         /\ job'[v].step = "recommend" => job'[v].signal # 0
         /\ job'[v].step \in {"ask", "find", "upsert", "recommend"} => job'[v].type \in Types
  <2>1. Len(signals) \in Nat
    BY <1>a, SignalsFacts
  <2> QED
    BY <2>1, <1>a, <1>b, <1>1, IdleFacts DEF Owned
<1>9. \A u, v \in Workers :
         u # v /\ job'[u].step # "idle" /\ job'[v].step # "idle" => job'[u].scan # job'[v].scan
  BY <1>a, <1>1, IdleFacts DEF Owned
<1>10. (\A z \in queue' \cup stopped' : scan'[z].status = "RUNNING")
       /\ queue' \cap stopped' = {}
  BY <1>a, <1>b, <1>c, <1>d, <1>2 DEF Owned
<1>11. Owned'
  BY <1>a, <1>b, <1>7, <1>8, <1>9, <1>10 DEF Owned
<1> QED
  BY <1>5, <1>11 DEF Struct

\* The customer and Core Banking leave threads, scans and queues alone.
LEMMA CustomerKeeps ==
    ASSUME Struct, (\E s \in Scans : Propose(s) \/ Resolve(s)) \/ Change
    PROVE  Struct'
<1>a. TypeOK /\ Owned
  BY DEF Struct
<1>b. UNCHANGED <<scan, rec, simulated, job, queue, stopped>>
  BY DEF Propose, Resolve, Change, tables, world, history
<1>1. signals' \in Seq(Signal) /\ Len(signals) \in Nat /\ Len(signals') \in Nat
      /\ Len(signals) <= Len(signals')
  <2>1. [Next]_vars
    BY DEF Next
  <2> QED
    BY <2>1, <1>a, SignalsFacts, SignalsKept
<1>2. /\ proposed' \subseteq Scans
      /\ \A z \in proposed' : rec[z] # 0
  BY <1>a DEF TypeOK, Owned, Propose, Resolve, Change
<1>3. excused' \subseteq Types
  <2>1. ASSUME NEW s \in Scans, Propose(s)
        PROVE  excused' \subseteq Types
    <3>1. rec[s] \in 1..Len(signals)
      BY <2>1, <1>a, <1>1 DEF Propose, Owned
    <3>2. signals[rec[s]].type \in Types
      BY <1>a, <3>1, SignalsFacts DEF Signal
    <3> QED
      BY <2>1, <1>a, <3>2 DEF Propose, Reopens, TypeOK
  <2> QED
    BY <2>1, <1>a DEF TypeOK, Resolve, Change, history
<1>4. risks' \subseteq Types /\ changes' \in Nat
      /\ stood' \in [Scans -> SUBSET Types] /\ seen' \in [Scans -> SUBSET Types]
  <2>1. CASE Change
    <3>1. risks' \in SUBSET Types
      BY <2>1, ConstantsAssumption DEF Change
    <3>2. changes' \in Nat
      BY <2>1, <1>a DEF Change, TypeOK
    <3>3. stood' \in [Scans -> SUBSET Types]
      BY <2>1, <1>a DEF Change, TypeOK
    <3>4. seen' \in [Scans -> SUBSET Types]
      BY <2>1, <3>1, <1>a DEF Change, TypeOK
    <3> QED
      BY <3>1, <3>2, <3>3, <3>4
  <2> QED
    BY <2>1, <1>a DEF Propose, Resolve, world, TypeOK
<1>5. TypeOK'
  BY <1>a, <1>b, <1>1, <1>2, <1>3, <1>4 DEF TypeOK, Signal
<1>6. Owned'
  BY <1>a, <1>b, <1>1, <1>2 DEF Owned
<1> QED
  BY <1>5, <1>6 DEF Struct

LEMMA CrashKeeps ==
    ASSUME Struct, NEW process \in {Api, Workers \ Api}, Crash(process)
    PROVE  Struct'
<1>a. TypeOK /\ Owned
  BY DEF Struct
<1> DEFINE lost == (IF process = Api THEN queue ELSE {})
                   \cup ({job[w].scan : w \in process} \ {NoScan})
<1>b. /\ UNCHANGED <<scan, rec, signals, simulated, proposed, risks, changes, excused>>
      /\ queue' = queue \ lost
      /\ stopped' = stopped \cup lost
      /\ Unobserved(lost)
      /\ job' = [w \in Workers |-> IF w \in process THEN Idle ELSE job[w]]
  BY DEF Crash, tables
<1>c. process \subseteq Workers
  BY ConstantsAssumption
<1>d. \A z \in lost : z \in queue \/ \E w \in process : z = job[w].scan /\ job[w].step # "idle"
  BY <1>a, <1>c DEF Owned
<1> HIDE DEF lost
<1>1. lost \subseteq Scans /\ \A z \in lost : scan[z].status = "RUNNING"
  <2>1. \A z \in queue : z \in Scans /\ scan[z].status = "RUNNING"
    BY <1>a DEF Owned, TypeOK
  <2>2. \A w \in process : job[w].step # "idle" =>
           job[w].scan \in Scans /\ scan[job[w].scan].status = "RUNNING"
    BY <1>a, <1>c DEF Owned
  <2> QED
    BY <1>d, <2>1, <2>2
<1>2. \A v \in Workers : job'[v] = Idle \/ (job'[v] = job[v] /\ v \notin process)
  BY <1>b
<1>3. \A v \in Workers : v \notin process /\ job[v].step # "idle" => job[v].scan \notin lost
  BY <1>a, <1>c, <1>d DEF Owned
<1>4. TypeOK'
  <2>1. job' \in [Workers -> Jobs]
    BY <1>a, <1>b, IdleFacts DEF TypeOK
  <2>2. stood' \in [Scans -> SUBSET Types] /\ seen' \in [Scans -> SUBSET Types]
    BY <1>a, <1>b DEF Unobserved, TypeOK
  <2> QED
    BY <2>1, <2>2, <1>a, <1>b, <1>1 DEF TypeOK
<1>5. \A v \in Workers :
         /\ job'[v].step # "idle" =>
               /\ job'[v].scan \in Scans
               /\ scan'[job'[v].scan].status = "RUNNING"
               /\ job'[v].scan \notin queue' \cup stopped'
         /\ job'[v].step = "idle" => job'[v].scan = NoScan
  BY <1>a, <1>b, <1>2, <1>3, IdleFacts DEF Owned
<1>6. \A v \in Workers :
         /\ job'[v].signal \in 0..Len(signals')
         /\ job'[v].step = "recommend" => job'[v].signal # 0
         /\ job'[v].step \in {"ask", "find", "upsert", "recommend"} => job'[v].type \in Types
  <2>1. Len(signals) \in Nat
    BY <1>a, SignalsFacts
  <2> QED
    BY <2>1, <1>a, <1>b, <1>2, IdleFacts DEF Owned
<1>7. \A u, v \in Workers :
         u # v /\ job'[u].step # "idle" /\ job'[v].step # "idle" => job'[u].scan # job'[v].scan
  BY <1>a, <1>2, IdleFacts DEF Owned
<1>8. (\A z \in queue' \cup stopped' : scan'[z].status = "RUNNING")
      /\ queue' \cap stopped' = {}
  BY <1>a, <1>b, <1>1 DEF Owned
<1>9. Owned'
  BY <1>a, <1>b, <1>5, <1>6, <1>7, <1>8 DEF Owned
<1> QED
  BY <1>4, <1>9 DEF Struct

LEMMA StructInit == Init => Struct
<1> SUFFICES ASSUME Init
             PROVE  TypeOK /\ Owned
  BY DEF Struct
<1>1. signals = <<>> /\ Len(signals) = 0
  BY DEF Init
<1>2. TypeOK
  BY <1>1, ConstantsAssumption, IdleFacts DEF Init, TypeOK
<1>3. Owned
  BY <1>1, IdleFacts DEF Init, Owned
<1> QED
  BY <1>2, <1>3

LEMMA StructStep ==
    ASSUME Struct, [Next]_vars
    PROVE  Struct'
<1>1. CASE UNCHANGED vars
  BY <1>1 DEF Struct, TypeOK, Owned, vars
<1>2. ASSUME NEW w \in Workers, Goes(w)
      PROVE  Struct'
  BY <1>2, GoesKeep
<1>3. ASSUME NEW w \in Workers, NEW s \in Scans,
             CreateAsync(w, s) \/ CreateSync(w, s) \/ Take(w, s)
      PROVE  Struct'
  BY <1>3, BeginKeeps
<1>4. ASSUME NEW w \in Workers, Complete(w) \/ Fail(w) \/ Abandon(w)
      PROVE  Struct'
  BY <1>4, EndKeeps
<1>5. CASE (\E s \in Scans : Propose(s) \/ Resolve(s)) \/ Change
  BY <1>5, CustomerKeeps
<1>6. ASSUME NEW process \in {Api, Workers \ Api}, Crash(process)
      PROVE  Struct'
  BY <1>6, CrashKeeps
<1> QED
  BY <1>1, <1>2, <1>3, <1>4, <1>5, <1>6 DEF Next, Continue, Goes

\* The variables keep their types: only rows that exist are referred to.
THEOREM TypeCorrect == Spec => []TypeOK
<1>1. Spec => []Struct
  BY StructInit, StructStep, PTL DEF Spec
<1>2. Struct => TypeOK
  BY DEF Struct
<1> QED
  BY <1>1, <1>2, PTL

-----------------------------------------------------------------------------
(* The recommendation *)

\* The fields of a thread after each step of a running scan.
LEMMA Moves ==
    ASSUME TypeOK, NEW w \in Workers
    PROVE  LET old == job[w]
               Keeps(new) == new.scan = old.scan /\ new.signal = old.signal
                             /\ new.type = old.type
           IN /\ ToolSucceeds(w) =>
                    /\ job'[w].step = After[old.step]
                    /\ job'[w].flags = old.flags \cup ({Detects[old.step]} \cap risks)
                    /\ Keeps(job'[w])
              /\ ToolFails(w) =>
                    /\ job'[w].step \in AfterError(old.step)
                    /\ job'[w].flags = old.flags
                    /\ Keeps(job'[w])
              /\ Answered(w) => job'[w].step = "find" /\ Keeps(job'[w])
              /\ Malformed(w) => job'[w].step \in {"ask", "failing"} /\ Keeps(job'[w])
              /\ Break(w) => job'[w].step = "failing" /\ Keeps(job'[w])
              /\ Recommend(w) => job'[w].step = "complete" /\ Keeps(job'[w])
<1> DEFINE old == job[w]
           Keeps(new) == new.scan = old.scan /\ new.signal = old.signal
                         /\ new.type = old.type
<1>a. job \in [Workers -> Jobs] /\ old \in Jobs
  BY DEF TypeOK
<1>b. ASSUME NEW new, job' = [job EXCEPT ![w] = new]
      PROVE  job'[w] = new
  BY <1>a, <1>b
<1>1. ASSUME ToolSucceeds(w)
      PROVE  /\ job'[w].step = After[old.step]
             /\ job'[w].flags = old.flags \cup ({Detects[old.step]} \cap risks)
             /\ Keeps(job'[w])
  <2> DEFINE flags == old.flags \cup ({Detects[old.step]} \cap risks)
             new == [old EXCEPT !.step = After[old.step], !.flags = flags]
  <2>1. job' = [job EXCEPT ![w] = new]
    BY <1>1, <1>a DEF ToolSucceeds
  <2>2. new.step = After[old.step] /\ new.flags = flags /\ Keeps(new)
    BY <1>a DEF Jobs
  <2>3. job'[w] = new
    BY <1>b, <2>1
  <2> QED
    BY <2>2, <2>3
<1>2. ASSUME ToolFails(w)
      PROVE  /\ job'[w].step \in AfterError(old.step)
             /\ job'[w].flags = old.flags
             /\ Keeps(job'[w])
  <2>1. PICK next \in AfterError(old.step) : job' = [job EXCEPT ![w] = [old EXCEPT !.step = next]]
    BY <1>2, <1>a DEF ToolFails, Goto
  <2> DEFINE new == [old EXCEPT !.step = next]
  <2>2. new.step = next /\ new.flags = old.flags /\ Keeps(new)
    BY <1>a DEF Jobs
  <2>3. job'[w] = new
    BY <1>b, <2>1
  <2> QED
    BY <2>2, <2>3
<1>3. ASSUME NEW step, NEW asked,
             job' = [job EXCEPT ![w] = [old EXCEPT !.step = step, !.asked = asked]]
      PROVE  job'[w].step = step /\ Keeps(job'[w])
  <2> DEFINE new == [old EXCEPT !.step = step, !.asked = asked]
  <2>1. new.step = step /\ Keeps(new)
    BY <1>a DEF Jobs
  <2>2. job'[w] = new
    BY <1>b, <1>3
  <2> QED
    BY <2>1, <2>2
<1>4. ASSUME Answered(w)
      PROVE  job'[w].step = "find" /\ Keeps(job'[w])
  <2>1. job' = [job EXCEPT ![w] = [old EXCEPT !.step = "find", !.asked = 0]]
    BY <1>4, <1>a DEF Answered
  <2> QED
    BY <1>3, <2>1
<1>5. ASSUME Malformed(w)
      PROVE  job'[w].step \in {"ask", "failing"} /\ Keeps(job'[w])
  <2>1. CASE job[w].asked < Retries
    <3> DEFINE new == [old EXCEPT !.asked = old.asked + 1]
    <3>1. job' = [job EXCEPT ![w] = new]
      BY <1>5, <1>a, <2>1 DEF Malformed
    <3>2. new.step = "ask" /\ Keeps(new)
      BY <1>5, <1>a DEF Jobs, Malformed, At
    <3>3. job'[w] = new
      BY <1>b, <3>1
    <3> QED
      BY <3>2, <3>3
  <2>2. CASE ~(job[w].asked < Retries)
    <3>1. job' = [job EXCEPT ![w] = [old EXCEPT !.step = "failing", !.asked = 0]]
      BY <1>5, <1>a, <2>2 DEF Malformed
    <3> QED
      BY <1>3, <3>1
  <2> QED
    BY <2>1, <2>2
<1>6. ASSUME Break(w)
      PROVE  job'[w].step = "failing" /\ Keeps(job'[w])
  <2>1. job' = [job EXCEPT ![w] = [old EXCEPT !.step = "failing", !.asked = 0]]
    BY <1>6, <1>a DEF Break
  <2> QED
    BY <1>3, <2>1
<1>7. ASSUME Recommend(w)
      PROVE  job'[w].step = "complete" /\ Keeps(job'[w])
  <2> DEFINE new == [old EXCEPT !.step = "complete"]
  <2>1. job' = [job EXCEPT ![w] = new]
    BY <1>7, <1>a DEF Recommend, Goto
  <2>2. new.step = "complete" /\ Keeps(new)
    BY <1>a DEF Jobs
  <2>3. job'[w] = new
    BY <1>b, <2>1
  <2> QED
    BY <2>2, <2>3
<1> QED
  BY <1>1, <1>2, <1>4, <1>5, <1>6, <1>7

LEMMA ContextMoves ==
    ASSUME TypeOK, NEW w \in Workers, ReadContext(w)
    PROVE  LET flags == job[w].flags \cup ({"IDLE_CASH"} \cap risks)
           IN /\ flags \in SUBSET Types
              /\ job'[w].step = IF flags = {} THEN "complete" ELSE "ask"
              /\ job'[w].type = Primary(flags)
              /\ job'[w].scan = job[w].scan /\ job'[w].signal = job[w].signal
<1> DEFINE flags == job[w].flags \cup ({"IDLE_CASH"} \cap risks)
           step == IF flags = {} THEN "complete" ELSE "ask"
           new == [job[w] EXCEPT !.flags = {}, !.type = Primary(flags), !.step = step]
<1>1. job \in [Workers -> Jobs] /\ job[w] \in Jobs
  BY DEF TypeOK
<1>2. flags \in SUBSET Types
  BY <1>1 DEF Jobs, TypeOK
<1>3. job' = [job EXCEPT ![w] = new]
  BY <1>1 DEF ReadContext
<1> HIDE DEF flags, step
<1>4. new.step = step /\ new.type = Primary(flags)
      /\ new.scan = job[w].scan /\ new.signal = job[w].signal
  BY <1>1 DEF Jobs
<1> HIDE DEF new
<1>5. job'[w] = new
  BY <1>1, <1>3
<1> QED
  BY <1>2, <1>4, <1>5 DEF flags, step

LEMMA SignalMoves ==
    ASSUME TypeOK, NEW w \in Workers
    PROVE  LET Keeps(new) == new.scan = job[w].scan /\ new.type = job[w].type
           IN /\ FindSignal(w) =>
                    /\ job'[w].step = "upsert" /\ Keeps(job'[w])
                    /\ \/ job'[w].signal = job[w].signal /\ Matching(job[w].type) = {}
                       \/ job'[w].signal \in Matching(job[w].type)
              /\ UpsertSignal(w) =>
                    /\ job'[w].step = "recommend" /\ Keeps(job'[w])
                    /\ \/ /\ job[w].signal = 0
                          /\ job'[w].signal = Len(signals) + 1
                          /\ signals' = Append(signals, [type |-> job[w].type,
                                                         status |-> "NEW"])
                       \/ /\ job[w].signal # 0
                          /\ job'[w].signal = job[w].signal
                          /\ signals' = signals
<1> DEFINE Keeps(new) == new.scan = job[w].scan /\ new.type = job[w].type
<1>a. job \in [Workers -> Jobs] /\ job[w] \in Jobs
  BY DEF TypeOK
<1>b. ASSUME NEW new, job' = [job EXCEPT ![w] = new]
      PROVE  job'[w] = new
  BY <1>a, <1>b
<1>c. ASSUME NEW step, job' = [job EXCEPT ![w] = [job[w] EXCEPT !.step = step]]
      PROVE  job'[w].step = step /\ Keeps(job'[w]) /\ job'[w].signal = job[w].signal
  <2> DEFINE new == [job[w] EXCEPT !.step = step]
  <2>1. new.step = step /\ Keeps(new) /\ new.signal = job[w].signal
    BY <1>a DEF Jobs
  <2>2. job'[w] = new
    BY <1>b, <1>c
  <2> QED
    BY <2>1, <2>2
<1>1. ASSUME FindSignal(w)
      PROVE  /\ job'[w].step = "upsert" /\ Keeps(job'[w])
             /\ \/ job'[w].signal = job[w].signal /\ Matching(job[w].type) = {}
                \/ job'[w].signal \in Matching(job[w].type)
  <2>1. CASE Matching(job[w].type) = {}
    <3>1. job' = [job EXCEPT ![w] = [job[w] EXCEPT !.step = "upsert"]]
      BY <1>1, <1>a, <2>1 DEF FindSignal, Goto
    <3> QED
      BY <1>c, <2>1, <3>1
  <2>2. CASE Matching(job[w].type) # {}
    <3>1. PICK k \in Matching(job[w].type) :
              job' = [job EXCEPT ![w] = [job[w] EXCEPT !.step = "upsert", !.signal = k,
                                                       !.loaded = signals[k].status]]
      BY <1>1, <1>a, <2>2 DEF FindSignal
    <3> DEFINE new == [job[w] EXCEPT !.step = "upsert", !.signal = k,
                                     !.loaded = signals[k].status]
    <3>2. new.step = "upsert" /\ Keeps(new) /\ new.signal = k
      BY <1>a DEF Jobs
    <3>3. job'[w] = new
      BY <1>b, <3>1
    <3> QED
      BY <3>2, <3>3
  <2> QED
    BY <2>1, <2>2
<1>2. ASSUME UpsertSignal(w)
      PROVE  /\ job'[w].step = "recommend" /\ Keeps(job'[w])
             /\ \/ /\ job[w].signal = 0
                   /\ job'[w].signal = Len(signals) + 1
                   /\ signals' = Append(signals, [type |-> job[w].type, status |-> "NEW"])
                \/ /\ job[w].signal # 0
                   /\ job'[w].signal = job[w].signal
                   /\ signals' = signals
  <2>1. CASE job[w].signal = 0
    <3> DEFINE new == [job[w] EXCEPT !.step = "recommend", !.signal = Len(signals) + 1]
    <3>1. job' = [job EXCEPT ![w] = new]
          /\ signals' = Append(signals, [type |-> job[w].type, status |-> "NEW"])
      BY <1>2, <1>a, <2>1 DEF UpsertSignal
    <3>2. new.step = "recommend" /\ Keeps(new) /\ new.signal = Len(signals) + 1
      BY <1>a DEF Jobs
    <3>3. job'[w] = new
      BY <1>b, <3>1
    <3> QED
      BY <2>1, <3>1, <3>2, <3>3
  <2>2. CASE job[w].signal # 0
    <3>1. job' = [job EXCEPT ![w] = [job[w] EXCEPT !.step = "recommend"]]
          /\ signals' = signals
      BY <1>2, <1>a, <2>2 DEF UpsertSignal, Goto
    <3> QED
      BY <1>c, <2>2, <3>1
  <2> QED
    BY <2>1, <2>2
<1> QED
  BY <1>1, <1>2

\* Row i is a signal of the type.
Typed(i, type) == i \in 1..Len(signals) /\ signals[i].type = type

\* What a thread has found so far, and its scan has stored.
MatchedJob(w) ==
    LET j == job[w] IN
    /\ j.step \in Tools \cup {"context", "ask", "find"} => j.signal = 0
    /\ j.step \in Tools \cup {"context", "ask", "find", "upsert", "recommend"} =>
          rec[j.scan] = 0
    /\ j.step = "upsert" /\ j.signal # 0 => Typed(j.signal, j.type)
    /\ j.step = "recommend" => Typed(j.signal, j.type)
    /\ j.step = "complete" => IF j.type = Calm THEN rec[j.scan] = 0
                              ELSE Typed(rec[j.scan], j.type)

MatchedScan(s) ==
    /\ scan[s].status = "ABSENT" \/ s \in queue => rec[s] = 0
    /\ scan[s].status = "COMPLETED" => IF scan[s].found = Calm THEN rec[s] = 0
                                       ELSE Typed(rec[s], scan[s].found)

Matched ==
    /\ \A w \in Workers : MatchedJob(w)
    /\ \A s \in Scans : MatchedScan(s)

LEMMA TypedKept ==
    ASSUME Struct, [Next]_vars, NEW i, NEW type, Typed(i, type)
    PROVE  Typed(i, type)'
<1>1. Len(signals) \in Nat
  BY SignalsFacts DEF Struct
<1> QED
  BY <1>1, SignalsKept DEF Typed

\* The thread that makes the step.
LEMMA GoesMatched ==
    ASSUME Struct, Matched, NEW w \in Workers, Goes(w)
    PROVE  MatchedJob(w)'
<1>a. TypeOK /\ Owned /\ MatchedJob(w)
  BY DEF Struct, Matched
<1>b. [Next]_vars
  BY DEF Goes, Next, Continue
<1>c. Len(signals) \in Nat /\ Len(signals') \in Nat
  BY <1>a, <1>b, SignalsFacts, SignalsKept
<1>d. job[w].scan \in Scans
  BY <1>a, GoesFacts DEF Owned
<1>1. CASE ToolSucceeds(w) \/ ToolFails(w)
  <2>1. job[w].step \in Tools
    BY <1>1 DEF ToolSucceeds, ToolFails
  <2>2. job'[w].step \in Tools \cup {"context", "failing"}
    BY <1>1, <1>a, <2>1, Moves, ToolFacts
  <2>3. rec' = rec /\ job'[w].scan = job[w].scan /\ job'[w].signal = job[w].signal
    BY <1>1, <1>a, Moves DEF ToolSucceeds, ToolFails, tables
  <2> QED
    BY <1>a, <2>1, <2>2, <2>3 DEF MatchedJob, Tools
<1>2. CASE ReadContext(w)
  <2> DEFINE flags == job[w].flags \cup ({"IDLE_CASH"} \cap risks)
  <2>1. job[w].step = "context" /\ rec' = rec
    BY <1>2 DEF ReadContext, At, tables
  <2>2. /\ job'[w].step = IF flags = {} THEN "complete" ELSE "ask"
        /\ job'[w].type = Primary(flags)
        /\ job'[w].scan = job[w].scan /\ job'[w].signal = job[w].signal
    BY <1>2, <1>a, ContextMoves
  <2> HIDE DEF flags
  <2>3. flags = {} => job'[w].type = Calm
    BY <2>2 DEF Primary
  <2> QED
    BY <1>a, <2>1, <2>2, <2>3 DEF MatchedJob, Tools
<1>3. CASE Answered(w) \/ Malformed(w)
  <2>1. job[w].step = "ask" /\ rec' = rec
    BY <1>3 DEF Answered, Malformed, At, tables
  <2>2. /\ job'[w].step \in {"ask", "find", "failing"}
        /\ job'[w].scan = job[w].scan /\ job'[w].signal = job[w].signal
    BY <1>3, <1>a, Moves
  <2> QED
    BY <1>a, <2>1, <2>2 DEF MatchedJob, Tools
<1>4. CASE Break(w)
  BY <1>4, <1>a, Moves DEF MatchedJob, Tools
<1>5. CASE FindSignal(w)
  <2>1. job[w].step = "find" /\ rec' = rec /\ signals' = signals
    BY <1>5 DEF FindSignal, At, tables
  <2>2. /\ job'[w].step = "upsert"
        /\ job'[w].scan = job[w].scan /\ job'[w].type = job[w].type
        /\ job'[w].signal = job[w].signal \/ job'[w].signal \in Matching(job[w].type)
    BY <1>5, <1>a, SignalMoves
  <2>3. \A i \in Matching(job[w].type) : Typed(i, job[w].type)
    BY <1>a, SignalsFacts DEF Matching, Typed
  <2>4. job[w].signal = 0 /\ rec[job[w].scan] = 0
    BY <1>a, <2>1 DEF MatchedJob
  <2>5. job'[w].signal # 0 => Typed(job'[w].signal, job'[w].type)
    BY <2>2, <2>3, <2>4
  <2>6. job'[w].signal # 0 => Typed(job[w].signal, job[w].type)'
    BY <2>1, <2>5 DEF Typed
  <2> QED
    BY <2>1, <2>2, <2>4, <2>6 DEF MatchedJob, Tools
<1>6. CASE UpsertSignal(w)
  <2>1. job[w].step = "upsert" /\ rec' = rec /\ job[w].type \in Types
    BY <1>6, <1>a DEF UpsertSignal, At, Owned
  <2>2. /\ job'[w].step = "recommend"
        /\ job'[w].scan = job[w].scan /\ job'[w].type = job[w].type
    BY <1>6, <1>a, SignalMoves
  <2>3. Typed(job[w].signal, job[w].type)'
    <3>1. CASE job[w].signal = 0
      <4>1. /\ job'[w].signal = Len(signals) + 1
            /\ signals' = Append(signals, [type |-> job[w].type, status |-> "NEW"])
        BY <1>6, <1>a, <3>1, SignalMoves
      <4>2. Len(signals') = Len(signals) + 1
            /\ signals'[Len(signals) + 1] = [type |-> job[w].type, status |-> "NEW"]
        BY <1>a, <2>1, <4>1, Appended
      <4> QED
        BY <1>c, <2>2, <4>1, <4>2 DEF Typed
    <3>2. CASE job[w].signal # 0
      <4>1. job'[w].signal = job[w].signal
        BY <1>6, <1>a, <3>2, SignalMoves
      <4>2. Typed(job[w].signal, job[w].type)
        BY <1>a, <2>1, <3>2 DEF MatchedJob
      <4>3. ASSUME NEW i, NEW type, Typed(i, type)
            PROVE  Typed(i, type)'
        BY <4>3, <1>b, TypedKept
      <4> QED
        BY <2>2, <4>1, <4>2, <4>3 DEF Typed
    <3> QED
      BY <3>1, <3>2
  <2>4. rec[job[w].scan] = 0
    BY <1>a, <2>1 DEF MatchedJob
  <2> QED
    BY <2>1, <2>2, <2>3, <2>4 DEF MatchedJob, Tools
<1>7. CASE Recommend(w)
  <2>1. job[w].step = "recommend" /\ rec' = [rec EXCEPT ![job[w].scan] = job[w].signal]
    BY <1>7 DEF Recommend, At
  <2>2. /\ job'[w].step = "complete"
        /\ job'[w].scan = job[w].scan /\ job'[w].type = job[w].type
    BY <1>7, <1>a, Moves
  <2>3. rec'[job[w].scan] = job[w].signal
    BY <1>a, <1>d, <2>1 DEF TypeOK
  <2>4. Typed(job[w].signal, job[w].type)
    BY <1>a, <2>1 DEF MatchedJob
  <2>5. job[w].type # Calm
    BY <1>a, <2>1 DEF Owned, Types, Calm
  <2>6. Typed(rec[job[w].scan], job[w].type)'
    <3>1. ASSUME NEW i, NEW type, Typed(i, type)
          PROVE  Typed(i, type)'
      BY <3>1, <1>b, TypedKept
    <3> QED
      BY <2>2, <2>3, <2>4, <3>1 DEF Typed
  <2> QED
    BY <2>2, <2>5, <2>6 DEF MatchedJob, Tools
<1> QED
  BY <1>1, <1>2, <1>3, <1>4, <1>5, <1>6, <1>7 DEF Goes

\* A thread that is left alone, as is the recommendation of its scan.
LEMMA MatchedJobKept ==
    ASSUME Struct, Matched, [Next]_vars, NEW v \in Workers, job'[v] = job[v],
           job[v].step # "idle" => rec'[job[v].scan] = rec[job[v].scan]
    PROVE  MatchedJob(v)'
<1>1. ASSUME NEW i, NEW type, Typed(i, type)
      PROVE  Typed(i, type)'
  BY <1>1, TypedKept
<1>2. MatchedJob(v)
  BY DEF Matched
<1>3. job[v].step \in Tools \cup {"context", "ask", "find", "upsert", "recommend", "complete"}
      => rec'[job[v].scan] = rec[job[v].scan]
  BY DEF Tools
<1>4. /\ Typed(job[v].signal, job[v].type) => Typed(job[v].signal, job[v].type)'
      /\ job[v].step = "complete" /\ Typed(rec[job[v].scan], job[v].type)
         => Typed(rec[job[v].scan], job[v].type)'
  <2>1. ASSUME job[v].step = "complete", Typed(rec[job[v].scan], job[v].type)
        PROVE  Typed(rec[job[v].scan], job[v].type)'
    <3>1. rec'[job[v].scan] = rec[job[v].scan]
      BY <2>1, <1>3
    <3> QED
      BY <2>1, <1>1, <3>1 DEF Typed
  <2> QED
    BY <1>1, <2>1 DEF Typed
<1> QED
  BY <1>2, <1>3, <1>4 DEF MatchedJob

\* A scan whose row, place in the queue and recommendation are left alone.
LEMMA MatchedScanKept ==
    ASSUME Struct, Matched, [Next]_vars, NEW s \in Scans, scan'[s] = scan[s],
           rec'[s] = rec[s], s \in queue' => s \in queue
    PROVE  MatchedScan(s)'
<1>1. MatchedScan(s)
  BY DEF Matched
<1>2. Typed(rec[s], scan[s].found) => Typed(rec[s], scan[s].found)'
  <2>1. ASSUME NEW i, NEW type, Typed(i, type)
        PROVE  Typed(i, type)'
    BY <2>1, TypedKept
  <2> QED
    BY <2>1 DEF Typed
<1> QED
  BY <1>1, <1>2 DEF MatchedScan

LEMMA MatchedInit == Init => Matched
<1> SUFFICES ASSUME Init
             PROVE  Matched
  OBVIOUS
<1>1. \A w \in Workers : MatchedJob(w)
  BY IdleFacts DEF Init, MatchedJob, Tools
<1>2. \A s \in Scans : MatchedScan(s)
  BY DEF Init, MatchedScan
<1> QED
  BY <1>1, <1>2 DEF Matched

LEMMA MatchedStep ==
    ASSUME Struct, Matched, [Next]_vars
    PROVE  Matched'
<1>a. TypeOK /\ Owned
  BY DEF Struct
<1>1. CASE UNCHANGED vars
  <2>1. ASSUME NEW v \in Workers
        PROVE  MatchedJob(v)'
    <3>1. job' = job /\ rec' = rec
      BY <1>1 DEF vars
    <3> QED
      BY <3>1, MatchedJobKept
  <2>2. ASSUME NEW s \in Scans
        PROVE  MatchedScan(s)'
    <3>1. scan' = scan /\ rec' = rec /\ queue' = queue
      BY <1>1 DEF vars
    <3> QED
      BY <3>1, MatchedScanKept
  <2> QED
    BY <2>1, <2>2 DEF Matched
<1>2. ASSUME NEW w \in Workers, Goes(w)
      PROVE  Matched'
  <2>1. /\ job[w].step # "idle" /\ scan' = scan /\ queue' = queue
        /\ \A v \in Workers : v # w => job'[v] = job[v]
    BY <1>2, GoesFacts
  <2>2. job[w].scan \in Scans /\ scan[job[w].scan].status = "RUNNING"
        /\ job[w].scan \notin queue
    BY <1>a, <2>1 DEF Owned
  <2>3. \A s \in Scans : s # job[w].scan => rec'[s] = rec[s]
    BY <1>2, <1>a, <2>2 DEF Goes, ToolSucceeds, ToolFails, ReadContext, Answered, Malformed,
       FindSignal, UpsertSignal, Recommend, Break, tables, TypeOK
  <2>4. ASSUME NEW v \in Workers
        PROVE  MatchedJob(v)'
    <3>1. CASE v = w
      BY <1>2, <3>1, GoesMatched
    <3>2. CASE v # w
      <4>1. job[v].step # "idle" => job[v].scan \in Scans /\ job[v].scan # job[w].scan
        BY <1>a, <2>1, <3>2 DEF Owned
      <4>2. job'[v] = job[v]
            /\ (job[v].step # "idle" => rec'[job[v].scan] = rec[job[v].scan])
        BY <2>1, <2>3, <3>2, <4>1
      <4> QED
        BY <4>2, MatchedJobKept
    <3> QED
      BY <3>1, <3>2
  <2>5. ASSUME NEW s \in Scans
        PROVE  MatchedScan(s)'
    <3>1. CASE s = job[w].scan
      BY <2>1, <2>2, <3>1 DEF MatchedScan
    <3>2. CASE s # job[w].scan
      <4>1. scan'[s] = scan[s] /\ rec'[s] = rec[s] /\ (s \in queue' => s \in queue)
        BY <2>1, <2>3, <3>2
      <4> QED
        BY <4>1, MatchedScanKept
    <3> QED
      BY <3>1, <3>2
  <2> QED
    BY <2>4, <2>5 DEF Matched
<1>3. ASSUME NEW w \in Workers, NEW s \in Scans,
             CreateAsync(w, s) \/ CreateSync(w, s) \/ Take(w, s)
      PROVE  Matched'
  <2> DEFINE new == [Idle EXCEPT !.step = "snapshot", !.scan = s]
  <2>1. new.step = "snapshot" /\ new.scan = s /\ new.signal = 0
    BY StartedFacts
  <2>2. job' = job \/ job' = [job EXCEPT ![w] = new]
    BY <1>3 DEF CreateAsync, CreateSync, Take
  <2> HIDE DEF new
  <2>3. rec' = rec /\ rec[s] = 0
    BY <1>3 DEF CreateAsync, CreateSync, Take, Created, tables, Matched, MatchedScan
  <2>4. ASSUME NEW v \in Workers
        PROVE  MatchedJob(v)'
    <3>1. CASE job'[v] = job[v]
      BY <2>3, <3>1, MatchedJobKept
    <3>2. CASE job'[v] # job[v]
      <4>1. job'[v] = new
        BY <1>a, <2>2, <3>2 DEF TypeOK
      <4> QED
        BY <2>1, <2>3, <4>1 DEF MatchedJob, Tools
    <3> QED
      BY <3>1, <3>2
  <2>5. ASSUME NEW z \in Scans
        PROVE  MatchedScan(z)'
    <3>1. CASE z = s
      <4>1. scan'[s].status = "RUNNING"
        BY <1>3, <1>a DEF CreateAsync, CreateSync, Take, Created, tables, TypeOK
      <4> QED
        BY <2>3, <3>1, <4>1 DEF MatchedScan
    <3>2. CASE z # s
      <4>1. scan'[z] = scan[z] /\ (z \in queue' => z \in queue)
        BY <1>3, <1>a, <3>2 DEF CreateAsync, CreateSync, Take, Created, tables, TypeOK
      <4> QED
        BY <2>3, <4>1, MatchedScanKept
    <3> QED
      BY <3>1, <3>2
  <2> QED
    BY <2>4, <2>5 DEF Matched
<1>4. ASSUME NEW w \in Workers, Complete(w) \/ Fail(w) \/ Abandon(w)
      PROVE  Matched'
  <2>1. rec' = rec /\ queue' = queue /\ signals' = signals
        /\ job' = [job EXCEPT ![w] = Idle]
        /\ job[w].step # "idle"
    BY <1>4 DEF Complete, Fail, Abandon, At, tables
  <2>2. job[w].scan \in Scans /\ scan[job[w].scan].status = "RUNNING"
        /\ job[w].scan \notin queue
    BY <1>a, <2>1 DEF Owned
  <2>3. ASSUME NEW v \in Workers
        PROVE  MatchedJob(v)'
    <3>1. CASE v = w
      <4>1. job'[v] = Idle
        BY <1>a, <2>1, <3>1 DEF TypeOK
      <4> QED
        BY <4>1, IdleFacts DEF MatchedJob, Tools
    <3>2. CASE v # w
      <4>1. job'[v] = job[v]
        BY <1>a, <2>1, <3>2 DEF TypeOK
      <4> QED
        BY <2>1, <4>1, MatchedJobKept
    <3> QED
      BY <3>1, <3>2
  <2>4. ASSUME NEW s \in Scans
        PROVE  MatchedScan(s)'
    <3>1. CASE s = job[w].scan /\ Complete(w)
      <4>1. scan'[s] = [status |-> "COMPLETED", found |-> job[w].type]
            /\ job[w].step = "complete"
        BY <1>a, <2>2, <3>1 DEF Complete, TypeOK, At
      <4>2. IF job[w].type = Calm THEN rec[s] = 0 ELSE Typed(rec[s], job[w].type)
        BY <3>1, <4>1 DEF Matched, MatchedJob
      <4> QED
        BY <2>1, <2>2, <3>1, <4>1, <4>2 DEF MatchedScan, Typed
    <3>2. CASE s = job[w].scan /\ Fail(w)
      <4>1. scan'[s].status = "FAILED"
        BY <1>a, <2>2, <3>2 DEF Fail, TypeOK
      <4> QED
        BY <2>1, <2>2, <3>2, <4>1 DEF MatchedScan
    <3>3. CASE s # job[w].scan \/ Abandon(w)
      <4>1. scan'[s] = scan[s]
        BY <1>4, <1>a, <2>2, <3>3 DEF Complete, Fail, Abandon, tables, TypeOK
      <4> QED
        BY <2>1, <4>1, MatchedScanKept
    <3> QED
      BY <1>4, <3>1, <3>2, <3>3
  <2> QED
    BY <2>3, <2>4 DEF Matched
<1>5. CASE (\E s \in Scans : Propose(s) \/ Resolve(s)) \/ Change
  <2>1. job' = job /\ rec' = rec /\ scan' = scan /\ queue' = queue
    BY <1>5 DEF Propose, Resolve, Change, tables
  <2>2. ASSUME NEW v \in Workers
        PROVE  MatchedJob(v)'
    BY <2>1, MatchedJobKept
  <2>3. ASSUME NEW s \in Scans
        PROVE  MatchedScan(s)'
    BY <2>1, MatchedScanKept
  <2> QED
    BY <2>2, <2>3 DEF Matched
<1>6. ASSUME NEW process \in {Api, Workers \ Api}, Crash(process)
      PROVE  Matched'
  <2>1. scan' = scan /\ rec' = rec /\ queue' \subseteq queue
        /\ \A v \in Workers : job'[v] = Idle \/ job'[v] = job[v]
    BY <1>6 DEF Crash, tables
  <2>2. ASSUME NEW v \in Workers
        PROVE  MatchedJob(v)'
    <3>1. CASE job'[v] = Idle
      BY <3>1, IdleFacts DEF MatchedJob, Tools
    <3>2. CASE job'[v] = job[v]
      BY <2>1, <3>2, MatchedJobKept
    <3> QED
      BY <2>1, <3>1, <3>2
  <2>3. ASSUME NEW s \in Scans
        PROVE  MatchedScan(s)'
    <3>1. scan'[s] = scan[s] /\ rec'[s] = rec[s] /\ (s \in queue' => s \in queue)
      BY <2>1
    <3> QED
      BY <3>1, MatchedScanKept
  <2> QED
    BY <2>2, <2>3 DEF Matched
<1> QED
  BY <1>1, <1>2, <1>3, <1>4, <1>5, <1>6 DEF Next, Continue, Goes

\* Whatever other scans, the customer and failures do to the rows, a completed
\* scan has stored a recommendation about a signal of the type it found, and
\* none if it found nothing.
THEOREM RecommendationsMatch == Spec => []RecommendationMatches
<1>1. Init => Struct /\ Matched
  BY StructInit, MatchedInit
<1>2. Struct /\ Matched /\ [Next]_vars => (Struct /\ Matched)'
  BY StructStep, MatchedStep
<1>3. Struct /\ Matched => RecommendationMatches
  BY SignalsFacts DEF Struct, Matched, MatchedScan, Typed, RecommendationMatches
<1> QED
  BY <1>1, <1>2, <1>3, PTL DEF Spec

-----------------------------------------------------------------------------
(* The report *)

\* The risks that were looked for before a step.
Passed == [snapshot |-> {}, forecast |-> {}, anomaly |-> {"CASHFLOW_RISK"},
           recurring |-> {"CASHFLOW_RISK", "SPENDING_ANOMALY"},
           goal |-> {"CASHFLOW_RISK", "SPENDING_ANOMALY", "UPCOMING_RECURRING"},
           context |-> Types \ {"IDLE_CASH"}]

\* What ReportIsFaithful says of a scan and the type it reports.
Reports(s, type) ==
    /\ type \in seen[s] \cup {Calm}
    /\ \A t \in stood[s] : Told(s, t) => type # Calm /\ Rank[type] <= Rank[t]

FaithfulJob(w) ==
    LET j == job[w] IN
    /\ j.step \in Tools \cup {"context"} =>
          /\ j.flags \subseteq seen[j.scan]
          /\ \A t \in Passed[j.step] : t \in stood[j.scan] /\ Told(j.scan, t) => t \in j.flags
    /\ j.step \in Tools => j.scan \notin simulated
    /\ j.step \in {"ask", "find", "upsert", "recommend", "complete"} => Reports(j.scan, j.type)

FaithfulScan(s) ==
    /\ s \in simulated => scan[s].status # "ABSENT" /\ s \notin queue
    /\ scan[s].status = "RUNNING" /\ s \notin stopped =>
          stood[s] \subseteq risks /\ risks \subseteq seen[s]
    /\ scan[s].status = "COMPLETED" => Reports(s, scan[s].found)

Faithful ==
    /\ \A w \in Workers : FaithfulJob(w)
    /\ \A s \in Scans : FaithfulScan(s)

\* What has been observed of a scan can only become less, and what was seen more.
Observed(s) ==
    /\ stood'[s] \subseteq stood[s]
    /\ seen[s] \subseteq seen'[s]
    /\ s \in simulated' <=> s \in simulated

LEMMA ReportsKept ==
    ASSUME NEW s \in Scans, Observed(s), NEW type, Reports(s, type)
    PROVE  Reports(s, type)'
BY DEF Observed, Reports, Told

LEMMA FaithfulJobKept ==
    ASSUME Struct, Faithful, NEW v \in Workers, job'[v] = job[v],
           job[v].step # "idle" => Observed(job[v].scan)
    PROVE  FaithfulJob(v)'
<1>1. FaithfulJob(v)
  BY DEF Faithful
<1>2. CASE job[v].step = "idle"
  BY <1>2 DEF FaithfulJob, Tools
<1>3. CASE job[v].step # "idle"
  <2>1. job[v].scan \in Scans /\ Observed(job[v].scan)
    BY <1>3 DEF Struct, Owned
  <2>2. Reports(job[v].scan, job[v].type) => Reports(job[v].scan, job[v].type)'
    <3>1. ASSUME NEW s \in Scans, Observed(s), NEW type, Reports(s, type)
          PROVE  Reports(s, type)'
      BY <3>1, ReportsKept
    <3> QED
      BY <2>1, <3>1 DEF Reports, Observed, Told
  <2>3. job[v].step \in Tools \cup {"context"} =>
           \A t \in Passed[job[v].step] :
              t \in stood'[job[v].scan] /\ Told(job[v].scan, t)' => t \in job[v].flags
    BY <1>1, <2>1 DEF FaithfulJob, Observed, Told
  <2> QED
    BY <1>1, <2>1, <2>2, <2>3 DEF FaithfulJob, Observed, Reports, Told
<1> QED
  BY <1>2, <1>3

LEMMA FaithfulScanKept ==
    ASSUME Faithful, NEW s \in Scans, scan'[s] = scan[s], Observed(s),
           s \in queue' => s \in queue,
           s \notin stopped' => s \notin stopped,
           scan[s].status = "RUNNING" /\ s \notin stopped' =>
              stood'[s] \subseteq risks' /\ risks' \subseteq seen'[s]
    PROVE  FaithfulScan(s)'
<1>1. FaithfulScan(s)
  BY DEF Faithful
<1>2. Reports(s, scan[s].found) => Reports(s, scan[s].found)'
  BY DEF Observed, Reports, Told
<1> QED
  BY <1>1, <1>2 DEF FaithfulScan, Observed, Reports, Told

LEMMA PassedFacts ==
    /\ \A tool \in Tools :
          /\ Passed[After[tool]] \subseteq Passed[tool] \cup {Detects[tool]}
          /\ "goal" # tool => After[tool] \in Tools
    /\ Passed["context"] \subseteq Passed["goal"] \cup {"GOAL_DRIFT"}
    /\ Passed["context"] = Types \ {"IDLE_CASH"}
    /\ Passed["snapshot"] = {}
BY DEF Tools, After, Detects, Passed, Types, Calm

\* The thread that makes the step: what it has looked for it has found.
LEMMA GoesFaithful ==
    ASSUME Struct, Faithful, NEW w \in Workers, Goes(w)
    PROVE  FaithfulJob(w)'
<1>a. TypeOK /\ Owned /\ FaithfulJob(w)
  BY DEF Struct, Faithful
<1> PICK s \in Scans : s = job[w].scan
  BY <1>a, GoesFacts DEF Owned
<1>b. /\ job[w].scan = s /\ job'[w].scan = s
      /\ stood' = stood /\ seen' = seen
  BY GoesFacts
<1>c. stood[s] \subseteq risks /\ risks \subseteq seen[s] /\ stood[s] \subseteq Types
  <2>1. scan[s].status = "RUNNING" /\ s \notin stopped
    BY <1>a, GoesFacts DEF Owned
  <2> QED
    BY <1>a, <1>b, <2>1 DEF Faithful, FaithfulScan, TypeOK
<1>1. CASE ToolSucceeds(w)
  <2> DEFINE tool == job[w].step
  <2>1. tool \in Tools /\ simulated' = IF tool = "goal" THEN simulated \cup {s} ELSE simulated
    BY <1>1, <1>b DEF ToolSucceeds
  <2>2. job'[w].step = After[tool]
        /\ job'[w].flags = job[w].flags \cup ({Detects[tool]} \cap risks)
    BY <1>1, <1>a, Moves
  <2>3. /\ job[w].flags \subseteq seen[s] /\ s \notin simulated
        /\ \A t \in Passed[tool] : t \in stood[s] /\ Told(s, t) => t \in job[w].flags
    BY <1>a, <1>b, <2>1 DEF FaithfulJob
  <2> HIDE DEF tool
  <2>4. After[tool] \in Tools \cup {"context"}
    BY <2>1, ToolFacts
  <2>5. job'[w].flags \subseteq seen[s]
    BY <1>c, <2>2, <2>3
  <2>6. \A t \in Passed[After[tool]] : t \in stood[s] /\ Told(s, t)' => t \in job'[w].flags
    <3> SUFFICES ASSUME NEW t \in Passed[After[tool]], t \in stood[s], Told(s, t)'
                 PROVE  t \in job'[w].flags
      OBVIOUS
    <3>1. CASE t = Detects[tool]
      BY <1>c, <2>2, <3>1
    <3>2. CASE t \in Passed[tool]
      <4>1. t # "GOAL_DRIFT"
        BY <2>1, <3>2 DEF Passed, Tools
      <4> QED
        BY <2>2, <2>3, <3>2, <4>1 DEF Told
    <3> QED
      BY <2>1, <3>1, <3>2, PassedFacts
  <2>7. After[tool] \in Tools => s \notin simulated'
    BY <2>1, <2>3 DEF After, Tools
  <2> QED
    BY <1>b, <2>2, <2>4, <2>5, <2>6, <2>7 DEF FaithfulJob, Tools
<1>2. CASE ToolFails(w)
  <2> DEFINE tool == job[w].step
  <2>1. tool \in Tools /\ simulated' = simulated
    BY <1>2 DEF ToolFails, tables
  <2>2. job'[w].step \in AfterError(tool) /\ job'[w].flags = job[w].flags
    BY <1>2, <1>a, Moves
  <2>3. /\ job[w].flags \subseteq seen[s] /\ s \notin simulated
        /\ \A t \in Passed[tool] : t \in stood[s] /\ Told(s, t) => t \in job[w].flags
    BY <1>a, <1>b, <2>1 DEF FaithfulJob
  <2> HIDE DEF tool
  <2>4. job'[w].step = "failing" \/ (tool = "goal" /\ job'[w].step = "context")
    BY <2>2 DEF AfterError
  <2>5. tool = "goal" =>
           \A t \in Passed["context"] : t \in stood[s] /\ Told(s, t) => t \in job[w].flags
    BY <2>3, PassedFacts DEF Told
  <2> QED
    BY <1>b, <2>1, <2>2, <2>3, <2>4, <2>5 DEF FaithfulJob, Tools, Told
<1>3. CASE ReadContext(w)
  <2> DEFINE flags == job[w].flags \cup ({"IDLE_CASH"} \cap risks)
  <2>1. job[w].step = "context" /\ simulated' = simulated
    BY <1>3 DEF ReadContext, At, tables
  <2>2. /\ flags \in SUBSET Types
        /\ job'[w].step = IF flags = {} THEN "complete" ELSE "ask"
        /\ job'[w].type = Primary(flags)
    BY <1>3, <1>a, ContextMoves
  <2>3. /\ job[w].flags \subseteq seen[s]
        /\ \A t \in Passed["context"] : t \in stood[s] /\ Told(s, t) => t \in job[w].flags
    BY <1>a, <1>b, <2>1 DEF FaithfulJob
  <2>4. flags \subseteq seen[s]
    BY <1>c, <2>3
  <2>5. \A t \in stood[s] : Told(s, t) => t \in flags
    BY <1>c, <2>3, PassedFacts
  <2> HIDE DEF flags
  <2>6. Reports(s, Primary(flags))
    <3>1. CASE flags = {}
      BY <2>5, <3>1 DEF Reports, Primary
    <3>2. CASE flags # {}
      <4>1. Primary(flags) \in flags /\ \A t \in flags : Rank[Primary(flags)] <= Rank[t]
        BY <2>2, <3>2, PrimaryFacts
      <4>2. Primary(flags) # Calm
        BY <2>2, <4>1 DEF Types, Calm
      <4> QED
        BY <2>4, <2>5, <4>1, <4>2 DEF Reports
    <3> QED
      BY <3>1, <3>2
  <2>7. Reports(s, job[w].type)'
    BY <1>b, <2>1, <2>2, <2>6 DEF Reports, Told
  <2> QED
    BY <1>b, <2>2, <2>7 DEF FaithfulJob, Tools, Reports, Told
<1>4. CASE Answered(w) \/ Malformed(w) \/ Break(w) \/ FindSignal(w) \/ UpsertSignal(w)
           \/ Recommend(w)
  <2>1. /\ simulated' = simulated
        /\ job'[w].step \in {"ask", "find", "upsert", "recommend", "complete", "failing"}
        /\ job'[w].type = job[w].type
    BY <1>4, <1>a, Moves, SignalMoves DEF Answered, Malformed, Break, FindSignal,
       UpsertSignal, Recommend, tables
  <2>2. job'[w].step = "failing"
        \/ job[w].step \in {"ask", "find", "upsert", "recommend"}
    BY <1>4, <1>a, Moves DEF Answered, Malformed, FindSignal, UpsertSignal, Recommend, At
  <2>3. job'[w].step # "failing" => Reports(s, job[w].type)
    BY <1>a, <1>b, <2>2 DEF FaithfulJob
  <2>4. job'[w].step # "failing" => Reports(s, job[w].type)'
    BY <1>b, <2>1, <2>3 DEF Reports, Told
  <2> QED
    BY <1>b, <2>1, <2>4 DEF FaithfulJob, Tools, Reports, Told
<1> QED
  BY <1>1, <1>2, <1>3, <1>4 DEF Goes

LEMMA FaithfulInit == Init => Faithful
<1> SUFFICES ASSUME Init
             PROVE  Faithful
  OBVIOUS
<1>1. \A w \in Workers : FaithfulJob(w)
  BY IdleFacts DEF Init, FaithfulJob, Tools
<1>2. \A s \in Scans : FaithfulScan(s)
  BY DEF Init, FaithfulScan
<1> QED
  BY <1>1, <1>2 DEF Faithful

LEMMA FaithfulStep ==
    ASSUME Struct, Faithful, [Next]_vars
    PROVE  Faithful'
<1>a. TypeOK /\ Owned
  BY DEF Struct
<1>b. \A s \in Scans : scan[s].status = "RUNNING" /\ s \notin stopped =>
         stood[s] \subseteq risks /\ risks \subseteq seen[s]
  BY DEF Faithful, FaithfulScan
<1>c. \A v \in Workers : job[v].step # "idle" =>
         job[v].scan \in Scans /\ scan[job[v].scan].status = "RUNNING"
         /\ job[v].scan \notin queue \cup stopped
  BY <1>a DEF Owned
<1>1. CASE UNCHANGED vars
  <2>1. job' = job /\ scan' = scan /\ queue' = queue /\ stopped' = stopped
        /\ risks' = risks /\ stood' = stood /\ seen' = seen
        /\ \A s \in Scans : Observed(s)
    BY <1>1 DEF vars, Observed
  <2>2. ASSUME NEW v \in Workers
        PROVE  FaithfulJob(v)'
    BY <2>1, <1>c, FaithfulJobKept
  <2>3. ASSUME NEW s \in Scans
        PROVE  FaithfulScan(s)'
    BY <2>1, <1>b, FaithfulScanKept
  <2> QED
    BY <2>2, <2>3 DEF Faithful
<1>2. ASSUME NEW w \in Workers, Goes(w)
      PROVE  Faithful'
  <2>1. /\ job[w].step # "idle" /\ scan' = scan /\ queue' = queue /\ stopped' = stopped
        /\ risks' = risks /\ stood' = stood /\ seen' = seen
        /\ \A v \in Workers : v # w => job'[v] = job[v]
    BY <1>2, GoesFacts
  <2>2. simulated' = simulated \/ simulated' = simulated \cup {job[w].scan}
    BY <1>2 DEF Goes, ToolSucceeds, ToolFails, ReadContext, Answered, Malformed, FindSignal,
           UpsertSignal, Recommend, Break, tables
  <2>3. \A s \in Scans : s # job[w].scan => Observed(s)
    BY <2>1, <2>2 DEF Observed
  <2>4. ASSUME NEW v \in Workers
        PROVE  FaithfulJob(v)'
    <3>1. CASE v = w
      BY <1>2, <3>1, GoesFaithful
    <3>2. CASE v # w
      <4>1. job[v].step # "idle" => job[v].scan \in Scans /\ job[v].scan # job[w].scan
        BY <1>a, <2>1, <3>2 DEF Owned
      <4>2. job'[v] = job[v] /\ (job[v].step # "idle" => Observed(job[v].scan))
        BY <2>1, <2>3, <3>2, <4>1
      <4> QED
        BY <4>2, FaithfulJobKept
    <3> QED
      BY <3>1, <3>2
  <2>5. ASSUME NEW s \in Scans
        PROVE  FaithfulScan(s)'
    <3>1. CASE s = job[w].scan
      BY <1>b, <1>c, <2>1, <3>1 DEF FaithfulScan
    <3>2. CASE s # job[w].scan
      <4>1. Observed(s)
        BY <2>3, <3>2
      <4> QED
        BY <1>b, <2>1, <4>1, FaithfulScanKept
    <3> QED
      BY <3>1, <3>2
  <2> QED
    BY <2>4, <2>5 DEF Faithful
<1>3. ASSUME NEW w \in Workers, NEW s \in Scans,
             CreateAsync(w, s) \/ CreateSync(w, s) \/ Take(w, s)
      PROVE  Faithful'
  <2> DEFINE new == [Idle EXCEPT !.step = "snapshot", !.scan = s]
  <2>1. new.step = "snapshot" /\ new.scan = s /\ new.flags = {}
    BY StartedFacts
  <2>2. /\ simulated' = simulated /\ s \notin simulated
        /\ stopped' = stopped /\ risks' = risks
    BY <1>3 DEF CreateAsync, CreateSync, Take, Created, tables, world, history, Faithful,
       FaithfulScan
  <2>3. \A z \in Scans : z # s =>
           /\ scan'[z] = scan[z] /\ stood'[z] = stood[z] /\ seen'[z] = seen[z]
           /\ z \in queue' => z \in queue
    BY <1>3, <1>a DEF CreateAsync, CreateSync, Take, Created, tables, world, TypeOK
  <2>4. scan'[s].status = "RUNNING"
    BY <1>3, <1>a DEF CreateAsync, CreateSync, Take, Created, tables, TypeOK
  <2>5. s \notin stopped => stood'[s] \subseteq risks /\ risks \subseteq seen'[s]
    <3>1. CASE Created(s)
      BY <1>a, <3>1 DEF Created, TypeOK
    <3>2. CASE Take(w, s)
      BY <1>b, <3>2 DEF Take, world
    <3> QED
      BY <1>3, <3>1, <3>2 DEF CreateAsync, CreateSync
  <2>6. \A v \in Workers : job[v].step # "idle" => job[v].scan # s
    BY <1>3, <1>c DEF CreateAsync, CreateSync, Take, Created
  <2>7. job' = job \/ job' = [job EXCEPT ![w] = new]
    BY <1>3 DEF CreateAsync, CreateSync, Take
  <2> HIDE DEF new
  <2>8. \A z \in Scans : z # s => Observed(z)
    BY <2>2, <2>3 DEF Observed
  <2>9. ASSUME NEW v \in Workers
        PROVE  FaithfulJob(v)'
    <3>1. CASE job'[v] = job[v]
      <4>1. job[v].step # "idle" => Observed(job[v].scan)
        BY <1>c, <2>6, <2>8
      <4> QED
        BY <3>1, <4>1, FaithfulJobKept
    <3>2. CASE job'[v] # job[v]
      <4>1. job'[v] = new
        BY <1>a, <2>7, <3>2 DEF TypeOK
      <4> QED
        BY <2>1, <2>2, <4>1, PassedFacts DEF FaithfulJob, Tools
    <3> QED
      BY <3>1, <3>2
  <2>10. ASSUME NEW z \in Scans
         PROVE  FaithfulScan(z)'
    <3>1. CASE z = s
      BY <2>2, <2>4, <2>5, <3>1 DEF FaithfulScan
    <3>2. CASE z # s
      <4>1. Observed(z) /\ scan'[z] = scan[z] /\ stood'[z] = stood[z] /\ seen'[z] = seen[z]
            /\ (z \in queue' => z \in queue)
        BY <2>3, <2>8, <3>2
      <4> QED
        BY <1>b, <2>2, <4>1, FaithfulScanKept
    <3> QED
      BY <3>1, <3>2
  <2> QED
    BY <2>9, <2>10 DEF Faithful
<1>4. ASSUME NEW w \in Workers, Complete(w) \/ Fail(w) \/ Abandon(w)
      PROVE  Faithful'
  <2> PICK s \in Scans : s = job[w].scan
    BY <1>4, <1>c DEF Complete, Fail, Abandon, At
  <2>1. /\ simulated' = simulated /\ risks' = risks /\ queue' = queue
        /\ job' = [job EXCEPT ![w] = Idle]
        /\ job[w].step # "idle"
    BY <1>4 DEF Complete, Fail, Abandon, At, tables, world
  <2>2. \A z \in Scans : z # s =>
           /\ scan'[z] = scan[z] /\ stood'[z] = stood[z] /\ seen'[z] = seen[z]
           /\ z \notin stopped' => z \notin stopped
    BY <1>4, <1>a DEF Complete, Fail, Abandon, Unobserved, tables, world, history, TypeOK
  <2>3. \A z \in Scans : z # s => Observed(z)
    BY <2>1, <2>2 DEF Observed
  <2>4. ASSUME NEW v \in Workers
        PROVE  FaithfulJob(v)'
    <3>1. CASE v = w
      <4>1. job'[v] = Idle
        BY <1>a, <2>1, <3>1 DEF TypeOK
      <4> QED
        BY <4>1, IdleFacts DEF FaithfulJob, Tools
    <3>2. CASE v # w
      <4>1. job'[v] = job[v]
        BY <1>a, <2>1, <3>2 DEF TypeOK
      <4>2. job[v].step # "idle" => job[v].scan # s
        BY <1>a, <2>1, <3>2 DEF Owned
      <4>3. job[v].step # "idle" => Observed(job[v].scan)
        BY <1>c, <2>3, <4>2
      <4> QED
        BY <4>1, <4>3, FaithfulJobKept
    <3> QED
      BY <3>1, <3>2
  <2>5. FaithfulScan(s)'
    <3>1. scan[s].status = "RUNNING" /\ s \notin queue
      BY <1>c, <2>1
    <3>2. s \in simulated' => scan'[s].status # "ABSENT" /\ s \notin queue'
      BY <1>4, <1>a, <2>1, <3>1 DEF Complete, Fail, Abandon, tables, TypeOK
    <3>3. CASE Complete(w)
      <4>1. scan'[s] = [status |-> "COMPLETED", found |-> job[w].type]
            /\ job[w].step = "complete" /\ stood' = stood /\ seen' = seen
        BY <1>a, <3>3 DEF Complete, TypeOK, At, world
      <4>2. Reports(s, job[w].type)
        BY <4>1 DEF Faithful, FaithfulJob
      <4> QED
        BY <2>1, <3>2, <4>1, <4>2 DEF FaithfulScan, Reports, Told
    <3>4. CASE Fail(w)
      <4>1. scan'[s].status = "FAILED"
        BY <1>a, <3>4 DEF Fail, TypeOK
      <4> QED
        BY <3>2, <4>1 DEF FaithfulScan
    <3>5. CASE Abandon(w)
      <4>1. s \in stopped' /\ scan' = scan
        BY <3>5 DEF Abandon, tables
      <4> QED
        BY <3>1, <3>2, <4>1 DEF FaithfulScan
    <3> QED
      BY <1>4, <3>3, <3>4, <3>5
  <2>6. ASSUME NEW z \in Scans
        PROVE  FaithfulScan(z)'
    <3>1. CASE z # s
      <4>1. Observed(z) /\ scan'[z] = scan[z] /\ stood'[z] = stood[z] /\ seen'[z] = seen[z]
            /\ (z \notin stopped' => z \notin stopped)
        BY <2>2, <2>3, <3>1
      <4> QED
        BY <1>b, <2>1, <4>1, FaithfulScanKept
    <3> QED
      BY <2>5, <3>1
  <2> QED
    BY <2>4, <2>6 DEF Faithful
<1>5. CASE \E s \in Scans : Propose(s) \/ Resolve(s)
  <2>1. job' = job /\ scan' = scan /\ queue' = queue /\ stopped' = stopped
        /\ risks' = risks /\ stood' = stood /\ seen' = seen
        /\ \A s \in Scans : Observed(s)
    BY <1>5 DEF Propose, Resolve, world, history, Observed
  <2>2. ASSUME NEW v \in Workers
        PROVE  FaithfulJob(v)'
    BY <2>1, <1>c, FaithfulJobKept
  <2>3. ASSUME NEW s \in Scans
        PROVE  FaithfulScan(s)'
    BY <2>1, <1>b, FaithfulScanKept
  <2> QED
    BY <2>2, <2>3 DEF Faithful
<1>6. CASE Change
  <2>1. job' = job /\ scan' = scan /\ queue' = queue /\ stopped' = stopped
        /\ simulated' = simulated
    BY <1>6 DEF Change, tables, history
  <2>2. \A s \in Scans :
           /\ stood'[s] \subseteq stood[s] /\ seen[s] \subseteq seen'[s]
           /\ scan[s].status = "RUNNING" /\ s \notin stopped =>
                 stood'[s] \subseteq risks' /\ risks' \subseteq seen'[s]
    BY <1>6 DEF Change
  <2>3. \A s \in Scans : Observed(s)
    BY <2>1, <2>2 DEF Observed
  <2>4. ASSUME NEW v \in Workers
        PROVE  FaithfulJob(v)'
    BY <2>1, <2>3, <1>c, FaithfulJobKept
  <2>5. ASSUME NEW s \in Scans
        PROVE  FaithfulScan(s)'
    BY <2>1, <2>2, <2>3, FaithfulScanKept
  <2> QED
    BY <2>4, <2>5 DEF Faithful
<1>7. ASSUME NEW process \in {Api, Workers \ Api}, Crash(process)
      PROVE  Faithful'
  <2> DEFINE lost == (IF process = Api THEN queue ELSE {})
                     \cup ({job[w].scan : w \in process} \ {NoScan})
  <2>1. /\ scan' = scan /\ simulated' = simulated /\ risks' = risks
        /\ queue' = queue \ lost /\ stopped' = stopped \cup lost
        /\ Unobserved(lost)
        /\ job' = [w \in Workers |-> IF w \in process THEN Idle ELSE job[w]]
    BY <1>7 DEF Crash, tables
  <2>2. process \subseteq Workers
    BY ConstantsAssumption
  <2>3. \A z \in lost : z \in queue \/ \E w \in process : z = job[w].scan /\ job[w].step # "idle"
    BY <1>a, <2>2 DEF Owned
  <2> HIDE DEF lost
  <2>4. \A v \in Workers : v \notin process /\ job[v].step # "idle" => job[v].scan \notin lost
    BY <1>a, <2>2, <2>3 DEF Owned
  <2>5. \A s \in Scans \ lost :
           stood'[s] = stood[s] /\ seen'[s] = seen[s] /\ Observed(s)
    BY <2>1 DEF Unobserved, Observed
  <2>6. ASSUME NEW v \in Workers
        PROVE  FaithfulJob(v)'
    <3>1. CASE v \in process
      BY <2>1, <3>1, IdleFacts DEF FaithfulJob, Tools
    <3>2. CASE v \notin process
      <4>1. job'[v] = job[v]
        BY <2>1, <3>2
      <4>2. job[v].step # "idle" => Observed(job[v].scan)
        BY <1>c, <2>4, <2>5, <3>2
      <4> QED
        BY <4>1, <4>2, FaithfulJobKept
    <3> QED
      BY <3>1, <3>2
  <2>7. ASSUME NEW s \in Scans
        PROVE  FaithfulScan(s)'
    <3>1. CASE s \in lost
      <4>1. scan[s].status = "RUNNING" /\ s \in stopped'
        BY <1>a, <1>c, <2>1, <2>2, <2>3, <3>1 DEF Owned
      <4>2. s \notin queue'
        BY <2>1, <3>1
      <4> QED
        BY <2>1, <4>1, <4>2 DEF FaithfulScan
    <3>2. CASE s \notin lost
      <4>1. stood'[s] = stood[s] /\ seen'[s] = seen[s] /\ Observed(s)
        BY <2>5, <3>2
      <4>2. scan'[s] = scan[s] /\ (s \in queue' => s \in queue)
            /\ (s \notin stopped' => s \notin stopped)
        BY <2>1
      <4> QED
        BY <1>b, <2>1, <4>1, <4>2, FaithfulScanKept
    <3> QED
      BY <3>1, <3>2
  <2> QED
    BY <2>6, <2>7 DEF Faithful
<1> QED
  BY <1>1, <1>2, <1>3, <1>4, <1>5, <1>6, <1>7 DEF Next, Continue, Goes

\* Whatever changes between the tools of a scan and whatever other scans do, a
\* completed scan reports a risk that did stand, and one at least as urgent as
\* every risk that stood all the time it ran.
THEOREM ReportsAreFaithful == Spec => []ReportIsFaithful
<1>1. Init => Struct /\ Faithful
  BY StructInit, FaithfulInit
<1>2. Struct /\ Faithful /\ [Next]_vars => (Struct /\ Faithful)'
  BY StructStep, FaithfulStep
<1>3. Faithful => ReportIsFaithful
  BY DEF Faithful, FaithfulScan, Reports, ReportIsFaithful
<1> QED
  BY <1>1, <1>2, <1>3, PTL DEF Spec

-----------------------------------------------------------------------------
(* The open signals *)

\* There is one open signal of a type at most, and while a thread is about to
\* insert one there is none and nobody else is.
Bounded(t) ==
    /\ \A i, k \in OpenSignals(t) : i = k
    /\ \A w \in Workers : Inserting(w, t) =>
          /\ OpenSignals(t) = {}
          /\ \A v \in Workers : v # w => ~Inserting(v, t)

AllBounded == \A t \in Types : t \in excused \/ Bounded(t)

LEMMA OpenFacts ==
    ASSUME TypeOK, NEW t \in Types
    PROVE  /\ OpenSignals(t) = Matching(t)
           /\ \A i : i \in OpenSignals(t) <=> /\ i \in 1..Len(signals)
                                              /\ signals[i].type = t
                                              /\ signals[i].status \in Open
BY SignalsFacts DEF OpenSignals, Matching

\* A status that is written opens no signal but one that is excused.
LEMMA RestatusedOpen ==
    ASSUME TypeOK, NEW t \in Types, NEW i \in 1..Len(signals),
           NEW status \in Open \cup {"ACTIONED"},
           signals' = [signals EXCEPT ![i].status = status],
           status \in Open /\ signals[i].status \notin Open => signals[i].type # t
    PROVE  OpenSignals(t)' \subseteq OpenSignals(t)
<1>1. /\ signals' \in Seq(Signal) /\ Len(signals') = Len(signals)
      /\ \A j \in 1..Len(signals) :
            /\ signals'[j].type = signals[j].type
            /\ signals'[j].status = IF j = i THEN status ELSE signals[j].status
  BY Restatused
<1>2. DOMAIN signals' = 1..Len(signals) /\ DOMAIN signals = 1..Len(signals)
  BY <1>1, SignalsFacts, LenProperties
<1>3. ASSUME NEW j \in OpenSignals(t)'
      PROVE  j \in OpenSignals(t)
  <2>1. j \in 1..Len(signals) /\ signals'[j].type = t /\ signals'[j].status \in Open
    BY <1>2, <1>3 DEF OpenSignals
  <2>2. signals[j].type = t /\ signals[j].status \in Open
    BY <1>1, <2>1
  <2> QED
    BY <1>2, <2>1, <2>2 DEF OpenSignals
<1> QED
  BY <1>3

\* A thread that is about to insert a signal was so, or has just found none.
LEMMA InsertingFacts ==
    ASSUME Struct, [Next]_vars, NEW v \in Workers, NEW t, Inserting(v, t)'
    PROVE  \/ Inserting(v, t) /\ job'[v] = job[v]
           \/ FindSignal(v) /\ job[v].type = t /\ Matching(t) = {}
<1>a. TypeOK /\ Owned
  BY DEF Struct
<1>b. job'[v].step = "upsert" /\ job'[v].signal = 0 /\ job'[v].type = t
  BY DEF Inserting, At
<1>1. CASE job'[v] = job[v]
  BY <1>1, <1>b DEF Inserting, At
<1>2. CASE job'[v] # job[v] /\ Goes(v)
  <2>1. FindSignal(v)
    BY <1>2, <1>a, <1>b, Moves, ToolFacts, ContextMoves, SignalMoves
       DEF Goes, ToolSucceeds, ToolFails, Tools
  <2>2. 0 \notin Matching(job[v].type)
    BY <1>a, SignalsFacts DEF Matching
  <2> QED
    BY <1>a, <1>b, <2>1, <2>2, SignalMoves
<1>3. ASSUME NEW w \in Workers, Goes(w), w # v
      PROVE  job'[v] = job[v]
  BY <1>3, GoesFacts
<1>4. ASSUME NEW w \in Workers, NEW s \in Scans,
             CreateAsync(w, s) \/ CreateSync(w, s) \/ Take(w, s)
      PROVE  job'[v] = job[v]
  <2> DEFINE new == [Idle EXCEPT !.step = "snapshot", !.scan = s]
  <2>1. new.step = "snapshot"
    BY StartedFacts
  <2>2. job' = job \/ job' = [job EXCEPT ![w] = new]
    BY <1>4 DEF CreateAsync, CreateSync, Take
  <2> HIDE DEF new
  <2> QED
    BY <1>a, <1>b, <2>1, <2>2 DEF TypeOK
<1>5. ASSUME NEW w \in Workers, Complete(w) \/ Fail(w) \/ Abandon(w)
      PROVE  job'[v] = job[v]
  <2>1. job' = [job EXCEPT ![w] = Idle]
    BY <1>5 DEF Complete, Fail, Abandon
  <2> QED
    BY <1>a, <1>b, <2>1, IdleFacts DEF TypeOK
<1>6. ASSUME (\E s \in Scans : Propose(s) \/ Resolve(s)) \/ Change \/ UNCHANGED vars
      PROVE  job'[v] = job[v]
  BY <1>6 DEF Propose, Resolve, Change, vars
<1>7. ASSUME NEW process \in {Api, Workers \ Api}, Crash(process)
      PROVE  job'[v] = job[v]
  BY <1>7, <1>b, IdleFacts DEF Crash
<1> QED
  BY <1>1, <1>2, <1>3, <1>4, <1>5, <1>6, <1>7 DEF Next, Continue, Goes

\* Only a thread that inserts adds a signal to those of a type that is not
\* excused.
LEMMA OpenKept ==
    ASSUME Struct, [Next]_vars, NEW t \in Types, t \notin excused',
           \A w \in Workers : UpsertSignal(w) => ~Inserting(w, t)
    PROVE  OpenSignals(t)' \subseteq OpenSignals(t)
<1>a. TypeOK /\ Owned /\ Len(signals) \in Nat
  BY SignalsFacts DEF Struct
<1>1. CASE signals' = signals
  BY <1>1 DEF OpenSignals
<1>2. ASSUME NEW w \in Workers, UpsertSignal(w)
      PROVE  OpenSignals(t)' \subseteq OpenSignals(t)
  <2>1. CASE job[w].signal = 0
    <3>1. /\ job[w].type \in Types /\ job[w].type # t
          /\ signals' = Append(signals, [type |-> job[w].type, status |-> "NEW"])
      BY <1>2, <1>a, <2>1 DEF UpsertSignal, At, Owned, Inserting
    <3>2. /\ signals' \in Seq(Signal) /\ Len(signals') = Len(signals) + 1
          /\ \A j \in 1..Len(signals) : signals'[j] = signals[j]
          /\ signals'[Len(signals) + 1].type = job[w].type
      BY <1>a, <3>1, Appended
    <3>3. DOMAIN signals' = 1..(Len(signals) + 1) /\ DOMAIN signals = 1..Len(signals)
      BY <1>a, <3>2, SignalsFacts, LenProperties
    <3>4. ASSUME NEW j \in OpenSignals(t)'
          PROVE  j \in OpenSignals(t)
      <4>1. j \in 1..(Len(signals) + 1) /\ signals'[j].type = t /\ signals'[j].status \in Open
        BY <3>3, <3>4 DEF OpenSignals
      <4>2. j \in 1..Len(signals)
        BY <1>a, <3>1, <3>2, <4>1
      <4> QED
        BY <3>2, <3>3, <4>1, <4>2 DEF OpenSignals
    <3> QED
      BY <3>4
  <2>2. CASE job[w].signal # 0
    BY <1>1, <1>2, <2>2 DEF UpsertSignal
  <2> QED
    BY <2>1, <2>2
<1>3. ASSUME NEW w \in Workers, Recommend(w)
      PROVE  OpenSignals(t)' \subseteq OpenSignals(t)
  <2>1. CASE signals' # signals
    <3> PICK i \in 1..Len(signals) : i = job[w].signal
      BY <1>3, <1>a DEF Recommend, At, Owned
    <3>1. signals' = [signals EXCEPT ![i].status = "SHOWN"]
          /\ Reopens(i)
      BY <1>3, <2>1 DEF Recommend, Shown
    <3>2. signals[i].status \notin Open => signals[i].type # t
      BY <1>a, <3>1, SignalsFacts DEF Reopens, Signal
    <3>3. "SHOWN" \in Open
      BY DEF Open
    <3> QED
      BY <1>a, <3>1, <3>2, <3>3, RestatusedOpen
  <2> QED
    BY <1>1, <2>1
<1>4. ASSUME NEW s \in Scans, Propose(s)
      PROVE  OpenSignals(t)' \subseteq OpenSignals(t)
  <2> PICK i \in 1..Len(signals) : i = rec[s]
    BY <1>4, <1>a DEF Propose, Owned
  <2>1. signals' = [signals EXCEPT ![i].status = "ACTION_PROPOSED"] /\ Reopens(i)
    BY <1>4 DEF Propose
  <2>2. signals[i].status \notin Open => signals[i].type # t
    BY <1>a, <2>1, SignalsFacts DEF Reopens, Signal
  <2>3. "ACTION_PROPOSED" \in Open
    BY DEF Open
  <2> QED
    BY <1>a, <2>1, <2>2, <2>3, RestatusedOpen
<1>5. ASSUME NEW s \in Scans, Resolve(s)
      PROVE  OpenSignals(t)' \subseteq OpenSignals(t)
  <2>1. CASE signals' # signals
    <3> PICK i \in 1..Len(signals) : i = rec[s]
      BY <1>5, <1>a DEF Resolve, Owned
    <3>1. signals' = [signals EXCEPT ![i].status = "ACTIONED"]
      BY <1>5, <2>1 DEF Resolve
    <3>2. "ACTIONED" \notin Open
      BY DEF Open
    <3> QED
      BY <1>a, <3>1, <3>2, RestatusedOpen
  <2> QED
    BY <1>1, <2>1
<1>6. \/ signals' = signals
      \/ \E w \in Workers : UpsertSignal(w) \/ Recommend(w)
      \/ \E s \in Scans : Propose(s) \/ Resolve(s)
  BY DEF Next, vars, Continue, tables, Abandon, CreateAsync, CreateSync, Take, Change,
         Crash, ToolSucceeds, ToolFails, ReadContext, Answered, Malformed, FindSignal,
         Complete, Fail, Break
<1> QED
  BY <1>1, <1>2, <1>3, <1>4, <1>5, <1>6

LEMMA ExcusedGrows ==
    ASSUME [Next]_vars
    PROVE  excused \subseteq excused'
BY DEF Next, vars, Continue, history, Reopens, Abandon, CreateAsync, CreateSync, Take,
       Change, Crash, ToolSucceeds, ToolFails, ReadContext, Answered, Malformed, FindSignal,
       UpsertSignal, Recommend, Propose, Resolve, Complete, Fail, Break

LEMMA BoundedStep ==
    ASSUME Struct, AllBounded, [Next]_vars
    PROVE  AllBounded'
<1> SUFFICES ASSUME NEW t \in Types, t \notin excused'
             PROVE  Bounded(t)'
  BY DEF AllBounded
<1>a. TypeOK /\ Owned /\ Len(signals) \in Nat
  BY SignalsFacts DEF Struct
<1>b. Bounded(t)
  BY ExcusedGrows DEF AllBounded
<1>c. ASSUME NEW u \in Workers, NEW v \in Workers, FindSignal(u), job[u].type = t,
             Matching(t) = {}
      PROVE  u = v \/ ~Inserting(v, t)
  BY <1>c DEF FindSignal
<1>d. \A v \in Workers : Inserting(v, t)' =>
         \/ Inserting(v, t) /\ job'[v] = job[v]
         \/ FindSignal(v) /\ job[v].type = t /\ Matching(t) = {}
  BY InsertingFacts
<1>1. CASE \E w \in Workers : UpsertSignal(w) /\ Inserting(w, t)
  <2> PICK w \in Workers : UpsertSignal(w) /\ Inserting(w, t)
    BY <1>1
  <2>1. OpenSignals(t) = {} /\ \A v \in Workers : v # w => ~Inserting(v, t)
    BY <1>b DEF Bounded
  <2>2. signals' = Append(signals, [type |-> t, status |-> "NEW"])
    BY DEF UpsertSignal, Inserting
  <2>3. /\ signals' \in Seq(Signal) /\ Len(signals') = Len(signals) + 1
        /\ \A j \in 1..Len(signals) : signals'[j] = signals[j]
    BY <1>a, <2>2, Appended
  <2>4. DOMAIN signals' = 1..(Len(signals) + 1) /\ DOMAIN signals = 1..Len(signals)
    BY <1>a, <2>3, SignalsFacts, LenProperties
  <2>5. \A j \in OpenSignals(t)' : j = Len(signals) + 1
    <3> SUFFICES ASSUME NEW j \in OpenSignals(t)'
                 PROVE  j = Len(signals) + 1
      OBVIOUS
    <3>1. j \in 1..(Len(signals) + 1) /\ signals'[j].type = t /\ signals'[j].status \in Open
      BY <2>4 DEF OpenSignals
    <3>2. j \notin 1..Len(signals)
      BY <2>1, <2>3, <2>4, <3>1 DEF OpenSignals
    <3> QED
      BY <1>a, <3>1, <3>2
  <2>6. \A v \in Workers : ~Inserting(v, t)'
    <3>1. job'[w].step = "recommend" /\ job[w].step = "upsert"
      BY <1>a, SignalMoves DEF UpsertSignal, At
    <3>2. \A v \in Workers : v # w => job'[v] = job[v]
      BY GoesFacts DEF Goes
    <3>3. \A v \in Workers : FindSignal(v) => job'[v].step = "upsert" /\ job[v].step = "find"
      BY <1>a, SignalMoves DEF FindSignal, At
    <3> QED
      BY <1>d, <2>1, <3>1, <3>2, <3>3
  <2> QED
    BY <2>5, <2>6 DEF Bounded
<1>2. CASE \A w \in Workers : UpsertSignal(w) => ~Inserting(w, t)
  <2>1. OpenSignals(t)' \subseteq OpenSignals(t)
    BY <1>2, OpenKept
  <2>2. \A i, k \in OpenSignals(t)' : i = k
    BY <1>b, <2>1 DEF Bounded
  <2>3. OpenSignals(t) = Matching(t)
    BY <1>a, OpenFacts
  <2>4. ASSUME NEW v \in Workers, Inserting(v, t)'
        PROVE  OpenSignals(t)' = {}
    BY <1>b, <1>d, <2>1, <2>3, <2>4 DEF Bounded
  <2>5. ASSUME NEW u \in Workers, NEW v \in Workers, Inserting(u, t)', Inserting(v, t)'
        PROVE  u = v
    <3>1. CASE Inserting(u, t) /\ Inserting(v, t)
      BY <1>b, <3>1 DEF Bounded
    <3>2. CASE ~Inserting(u, t)
      <4>1. FindSignal(u) /\ job[u].type = t /\ Matching(t) = {}
        BY <1>d, <2>5, <3>2
      <4>2. CASE Inserting(v, t)
        BY <1>c, <4>1, <4>2
      <4>3. CASE ~Inserting(v, t)
        <5>1. FindSignal(v)
          BY <1>d, <2>5, <4>3
        <5>2. job[v].step = "find" /\ job'[v].step = "upsert"
          BY <1>a, <5>1, SignalMoves DEF FindSignal, At
        <5>3. v # u => job'[v] = job[v]
          BY <4>1, GoesFacts DEF Goes
        <5> QED
          BY <5>2, <5>3
      <4> QED
        BY <4>2, <4>3
    <3>3. CASE ~Inserting(v, t) /\ Inserting(u, t)
      <4>1. FindSignal(v) /\ job[v].type = t /\ Matching(t) = {}
        BY <1>d, <2>5, <3>3
      <4> QED
        BY <1>c, <3>3, <4>1
    <3> QED
      BY <3>1, <3>2, <3>3
  <2> QED
    BY <2>2, <2>4, <2>5 DEF Bounded
<1> QED
  BY <1>1, <1>2

LEMMA BoundedInit == Init => AllBounded
<1> SUFFICES ASSUME Init, NEW t \in Types
             PROVE  Bounded(t)
  BY DEF AllBounded
<1>1. signals = <<>> /\ DOMAIN signals = {}
  BY DEF Init
<1>2. OpenSignals(t) = {}
  BY <1>1 DEF OpenSignals
<1>3. \A w \in Workers : ~Inserting(w, t)
  BY IdleFacts DEF Init, Inserting, At
<1> QED
  BY <1>2, <1>3 DEF Bounded

\* For any number of threads and scans that fail or are stopped at any step, a
\* type has a second open signal only if two threads looked for one at the same
\* time or one was opened again after it was actioned.
THEOREM OpenSignalsAreBounded == Spec => []OpenSignalsBounded
<1>1. Init => Struct /\ AllBounded
  BY StructInit, BoundedInit
<1>2. Struct /\ AllBounded /\ [Next]_vars => (Struct /\ AllBounded)'
  BY StructStep, BoundedStep
<1>3. AllBounded => OpenSignalsBounded
  <2> SUFFICES ASSUME AllBounded, NEW t \in Types, t \notin excused
               PROVE  Cardinality(OpenSignals(t)) <= 1
    BY DEF OpenSignalsBounded
  <2>1. \A i, k \in OpenSignals(t) : i = k
    BY DEF AllBounded, Bounded
  <2>2. CASE OpenSignals(t) = {}
    BY <2>2, FS_EmptySet
  <2>3. CASE OpenSignals(t) # {}
    <3> PICK i \in OpenSignals(t) : TRUE
      BY <2>3
    <3>1. OpenSignals(t) = {i}
      BY <2>1
    <3> HIDE DEF OpenSignals
    <3>2. Cardinality(OpenSignals(t)) = 1
      BY <3>1, FS_Singleton
    <3> QED
      BY <3>2
  <2> QED
    BY <2>2, <2>3
<1> QED
  BY <1>1, <1>2, <1>3, PTL DEF Spec
=============================================================================
