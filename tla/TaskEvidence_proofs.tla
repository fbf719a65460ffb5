------------------------- MODULE TaskEvidence_proofs --------------------------
(***************************************************************************)
(* Proofs about TaskEvidence for every set of failures and code files and  *)
(* every limit.  First what each operator of the handler does to a         *)
(* well-formed task, then one theorem per property.                        *)
(***************************************************************************)
EXTENDS TaskEvidence, TLAPS

(* The operators keep a task well-formed. *)

\* Opening, resolving and settling failures.
LEMMA FailureTypes ==
    ASSUME NEW t \in Tasks, NEW ids
    PROVE  /\ Merge(t, ids) \in Tasks
           /\ Resolve(t, ids) \in Tasks
           /\ Settle(t) \in Tasks
BY DEF Tasks, Merge, Resolve, Settle

\* Files and counters.
LEMMA FileTypes ==
    ASSUME NEW t \in Tasks, NEW w \in Workers, NEW r \in Results[w]
    PROVE  Filed(t, r) \in Tasks
<1>1. r.code \in CodePaths \cup {NoPath} /\ r.reports \subseteq Kinds
  BY DEF Results
<1> QED BY <1>1 DEF Filed, Tasks

LEMMA CounterTypes ==
    ASSUME NEW t \in Tasks
    PROVE  /\ Decremented(t) \in Tasks
           /\ \A a \in Nat : [t EXCEPT !.active = a] \in Tasks
           /\ \A c \in Nat : [t EXCEPT !.calls = c] \in Tasks
<1>1. Decremented(t) \in Tasks
  BY DEF Decremented, Tasks
<1>2. ASSUME NEW a \in Nat PROVE [t EXCEPT !.active = a] \in Tasks
  BY DEF Tasks
<1>3. ASSUME NEW c \in Nat PROVE [t EXCEPT !.calls = c] \in Tasks
  BY DEF Tasks
<1> QED BY <1>1, <1>2, <1>3

\* What each kind of result makes of the gates.
LEMMA ResultTypes ==
    ASSUME NEW t \in Tasks, NEW before \in Tasks, NEW w \in Workers, NEW r \in Results[w],
           NEW targets
    PROVE  /\ DevPassed(t) \in Tasks
           /\ \A k \in Kinds : CheckPassed(t, k) \in Tasks /\ CheckFailed(t, k) \in Tasks
           /\ RepairPassed(before, t, targets, r) \in Tasks
           /\ Clarified(t, r) \in Tasks
<1>1. DevPassed(t) \in Tasks
  BY DEF DevPassed, Tasks
<1>2. \A k \in Kinds : CheckFailed(t, k) \in Tasks
  BY DEF CheckFailed, Tasks
<1>3. ASSUME NEW k \in Kinds PROVE CheckPassed(t, k) \in Tasks
  <2> DEFINE s == Resolve(t, OpenFrom(t, k))
  <2>1. s \in Tasks
    BY FailureTypes
  <2> HIDE DEF s
  <2>2. [s EXCEPT !.required[k] = TRUE, !.latest[k] = "passed",
                  !.regression[k] = FALSE] \in Tasks
    BY <1>3, <2>1 DEF Tasks
  <2> QED BY <2>2 DEF s, CheckPassed
<1>4. RepairPassed(before, t, targets, r) \in Tasks
  <2> DEFINE s == Resolve(t, targets)
             u == [s EXCEPT !.repair_rounds = @ + 1]
  <2>1. s \in Tasks
    BY FailureTypes
  <2> HIDE DEF s
  <2>2. u \in Tasks
    BY <2>1 DEF Tasks
  <2>3. t.regression \in [Kinds -> BOOLEAN]
    BY DEF Tasks
  <2> HIDE DEF u
  <2>4. [u EXCEPT !.regression = [k \in Kinds |-> FALSE]] \in Tasks
    BY <2>2 DEF Tasks
  <2>5. [u EXCEPT !.latest = [k \in Kinds |-> "none"],
                  !.regression = [k \in Kinds |->
                      k = "test" \/ t.regression[k] \/ OpenFrom(before, k) # {}]] \in Tasks
    BY <2>2, <2>3 DEF Tasks
  <2> QED BY <2>4, <2>5 DEF s, u, RepairPassed
<1>5. Clarified(t, r) \in Tasks
  <2>1. r.asks \in BOOLEAN /\ r.blocks \in BOOLEAN
    BY DEF Results
  <2> QED BY <2>1 DEF Clarified, Tasks, Statuses
<1> QED BY <1>1, <1>2, <1>3, <1>4, <1>5

\* The whole projection of a result.
LEMMA AppliedTypes ==
    ASSUME NEW t \in Tasks, NEW input \in Inputs, NEW r \in Results[input.worker]
    PROVE  Applied(t, input, r) \in Tasks
<1> DEFINE w == input.worker
           merged == Merge(t, r.failures)
           received == Filed(merged, r)
<1>1. w \in Workers
  BY DEF Inputs
<1>2. merged \in Tasks /\ received \in Tasks
  BY <1>1, FailureTypes, FileTypes
<1> HIDE DEF merged, received
<1>3. /\ Clarified(received, r) \in Tasks
      /\ DevPassed(received) \in Tasks
      /\ RepairPassed(t, received, input.targets, r) \in Tasks
      /\ w \in Kinds => CheckPassed(received, w) \in Tasks /\ CheckFailed(received, w) \in Tasks
  BY <1>1, <1>2, ResultTypes
<1>4. \A u \in Tasks : Settle(u) \in Tasks
  BY FailureTypes
<1> QED BY <1>2, <1>3, <1>4 DEF merged, received, Applied

LEMMA PreparedTypes ==
    ASSUME NEW t \in Tasks, NEW w \in Workers
    PROVE  Prepared(t, w) \in Tasks
<1> DEFINE s == [t EXCEPT !.required = [k \in Kinds |-> t.required[k] \/ k = w]]
<1>1. s \in Tasks
  <2>1. t.required \in [Kinds -> BOOLEAN]
    BY DEF Tasks
  <2> QED BY <2>1 DEF Tasks
<1> HIDE DEF s
<1>2. [s EXCEPT !.status = "running",
                !.type = IF w \in Kinds THEN w ELSE "development"] \in Tasks
  BY <1>1 DEF Tasks, Statuses, TaskTypes
<1> QED BY <1>1, <1>2 DEF s, Prepared

LEMMA ValidatedTypes ==
    ASSUME NEW t \in Tasks, NEW type, NEW passed, NEW ids
    PROVE  Validated(t, type, passed, ids) \in Tasks
<1> DEFINE d == [t EXCEPT !.required = [k \in Kinds |-> t.required[k] \/ k = type]]
           s(i) == Resolve(d, i)
           checks == Kinds \cap {type}
<1>1. d \in Tasks
  <2>1. t.required \in [Kinds -> BOOLEAN]
    BY DEF Tasks
  <2> QED BY <2>1 DEF Tasks
<1>2. \A i : s(i) \in Tasks
  BY <1>1, FailureTypes
<1> HIDE DEF s, d
<1>3. \A i : [s(i) EXCEPT
                !.reports = @ \cup checks,
                !.latest = [k \in Kinds |-> IF k \in checks THEN "passed" ELSE t.latest[k]],
                !.regression = [k \in Kinds |-> k \notin checks /\ t.regression[k]]] \in Tasks
  <2>1. t.regression \in [Kinds -> BOOLEAN] /\ t.latest \in [Kinds -> {"none", "passed", "failed"}]
    BY DEF Tasks
  <2> QED BY <1>2, <2>1 DEF Tasks
<1>4. \A u \in Tasks : Settle(u) \in Tasks
  BY FailureTypes
<1> QED BY <1>1, <1>3, <1>4 DEF s, d, Validated

LEMMA InputTypes ==
    ASSUME NEW t \in Tasks, NEW w \in Workers
    PROVE  Input(t, w) \in Inputs
BY DEF Input, Inputs, OpenFailures, Tasks

LEMMA ResultCode ==
    ASSUME NEW w \in Workers, NEW r \in Results[w]
    PROVE  r.code \in CodePaths \cup {NoPath}
BY DEF Results

LEMMA EvidenceTypes ==
    ASSUME TypeOK, NEW t, NEW input, NEW r
    PROVE  /\ Drift(evidence) \in [Kinds -> EvidenceStates]
           /\ EvidenceAfter(t, input, r) \in [Kinds -> EvidenceStates]
           /\ r.code \in CodePaths \cup {NoPath} =>
                  RepairedAfter(input, r) \in CodePaths \cup {NoPath}
<1>1. Drift(evidence) \in [Kinds -> EvidenceStates]
  BY DEF TypeOK, Drift, EvidenceStates
<1>2. \A e \in [Kinds -> EvidenceStates] :
          /\ [e EXCEPT ![input.worker] = "current"] \in [Kinds -> EvidenceStates]
          /\ [e EXCEPT ![input.worker] = "drifted"] \in [Kinds -> EvidenceStates]
  BY DEF EvidenceStates
<1>3. EvidenceAfter(t, input, r) \in [Kinds -> EvidenceStates]
  <2>1. evidence \in [Kinds -> EvidenceStates]
        /\ [k \in Kinds |-> "superseded"] \in [Kinds -> EvidenceStates]
        /\ [k \in Kinds |-> IF evidence[k] = "superseded" THEN "superseded" ELSE "xml_repaired"]
               \in [Kinds -> EvidenceStates]
    BY DEF TypeOK, EvidenceStates
  <2> QED BY <1>1, <1>2, <2>1 DEF EvidenceAfter
<1>4. r.code \in CodePaths \cup {NoPath} =>
          RepairedAfter(input, r) \in CodePaths \cup {NoPath}
  BY DEF TypeOK, RepairedAfter
<1> QED BY <1>1, <1>3, <1>4

-----------------------------------------------------------------------------
(* Type correctness *)

LEMMA InitTypes == Init => TypeOK
<1> SUFFICES ASSUME Init PROVE TypeOK
  OBVIOUS
<1>1. task \in Tasks
  BY DEF Init, Tasks, Statuses, TaskTypes
<1>2. queue \in Seq(Inputs)
  BY DEF Init
<1>3. evidence \in [Kinds -> EvidenceStates]
  BY DEF Init, EvidenceStates
<1> QED BY <1>1, <1>2, <1>3 DEF Init, TypeOK

LEMMA ProposeTypes ==
    ASSUME TypeOK,
           \/ \E w \in Workers : ProposeWorker(w)
           \/ \E batch \in Batches : ProposeBatch(batch)
    PROVE  TypeOK'
<1>1. ASSUME NEW w \in Workers, ProposeWorker(w) PROVE TypeOK'
  <2>1. task' \in Tasks
    BY <1>1, PreparedTypes DEF ProposeWorker, TypeOK
  <2>2. Input(task', w) \in Inputs
    BY <2>1, InputTypes
  <2>3. <<>> \in Seq(Inputs) /\ <<Input(task', w)>> \in Seq(Inputs)
    BY <2>2
  <2>4. queue' \in Seq(Inputs)
    BY <1>1, <2>3 DEF ProposeWorker
  <2> QED BY <1>1, <2>1, <2>4 DEF ProposeWorker, TypeOK
<1>2. ASSUME NEW batch \in Batches, ProposeBatch(batch) PROVE TypeOK'
  <2>1. batch \in Seq(Workers)
    BY EvidenceAssumption
  <2>2. \A n \in DOMAIN batch : Input(task, batch[n]) \in Inputs
    BY <2>1, InputTypes DEF TypeOK
  <2>3. queue' \in Seq(Inputs)
    BY <1>2, <2>1, <2>2 DEF ProposeBatch
  <2> QED BY <1>2, <2>3 DEF ProposeBatch, TypeOK
<1> QED BY <1>1, <1>2

LEMMA StartTypes == ASSUME TypeOK, StartJob PROVE TypeOK'
<1>1. Head(queue) \in Inputs /\ Tail(queue) \in Seq(Inputs)
  BY DEF TypeOK, StartJob
<1>2. task.active \in Nat /\ task.calls \in Nat
  BY DEF TypeOK, Tasks
<1>3. task' \in Tasks
  <2> DEFINE u == [task EXCEPT !.active = task.active + 1]
  <2>1. u \in Tasks
    <3>1. \A a \in Nat : [task EXCEPT !.active = a] \in Tasks
      BY CounterTypes DEF TypeOK
    <3>2. task.active + 1 \in Nat
      BY <1>2
    <3> QED BY <3>1, <3>2
  <2>2. task' = [u EXCEPT !.calls = u.calls + 1] /\ u.calls \in Nat
    BY <2>1 DEF StartJob, Tasks
  <2> HIDE DEF u
  <2>3. \A c \in Nat : [u EXCEPT !.calls = c] \in Tasks
    BY <2>1, CounterTypes
  <2>4. u.calls + 1 \in Nat
    BY <2>2
  <2> QED BY <2>2, <2>3, <2>4
<1>4. job' \in Jobs
  BY <1>1, <1>2 DEF StartJob, Jobs
<1> QED BY <1>1, <1>3, <1>4 DEF StartJob, TypeOK

\* The worker of a result is the worker of the job.
LEMMA JobFacts ==
    ASSUME TypeOK, job # NoJob
    PROVE  /\ job \in Jobs /\ job.input \in Inputs /\ job.input.worker \in Workers
           /\ job.active \in Nat /\ job.calls \in Nat
BY DEF TypeOK, Jobs, Inputs

LEMMA ResultStepTypes ==
    ASSUME TypeOK,
           \/ \E r : ApplyResult(r)
           \/ RetainResult
           \/ JobRaises
    PROVE  TypeOK'
<1>1. ASSUME NEW r, ApplyResult(r) PROVE TypeOK'
  <2>1. job # NoJob /\ r \in Results[job.input.worker]
    BY <1>1 DEF ApplyResult
  <2>2. Applied(task, job.input, r) \in Tasks
    BY <2>1, JobFacts, AppliedTypes DEF TypeOK
  <2>3. task' \in Tasks
    BY <1>1, <2>2, CounterTypes DEF ApplyResult
  <2>4. r.code \in CodePaths \cup {NoPath}
    BY <2>1, JobFacts, ResultCode
  <2>5. /\ evidence' = EvidenceAfter(task, job.input, r)
        /\ repaired' = RepairedAfter(job.input, r)
        /\ job' = NoJob /\ queue' = queue
    BY <1>1 DEF ApplyResult
  <2>6. evidence' \in [Kinds -> EvidenceStates] /\ repaired' \in CodePaths \cup {NoPath}
    BY <2>4, <2>5, EvidenceTypes
  <2> QED BY <2>3, <2>5, <2>6 DEF TypeOK
<1>2. ASSUME RetainResult PROVE TypeOK'
  <2>1. task' \in Tasks
    BY <1>2, CounterTypes DEF RetainResult, TypeOK
  <2>2. evidence' \in [Kinds -> EvidenceStates]
    BY <1>2, EvidenceTypes DEF RetainResult, MayHaveWritten, TypeOK
  <2> QED BY <1>2, <2>1, <2>2 DEF RetainResult, TypeOK
<1>3. ASSUME JobRaises PROVE TypeOK'
  <2>1. task' \in Tasks
    BY <1>3, JobFacts DEF JobRaises, Restored, TypeOK, Tasks
  <2>2. evidence' \in [Kinds -> EvidenceStates]
    BY <1>3, EvidenceTypes DEF JobRaises, MayHaveWritten, TypeOK
  <2> QED BY <1>3, <2>1, <2>2 DEF JobRaises, TypeOK
<1> QED BY <1>1, <1>2, <1>3

LEMMA OtherToolTypes ==
    ASSUME TypeOK,
           \/ \E type \in Kinds \cup {"compile"}, passed \in BOOLEAN, ids \in SUBSET FailureIds :
                  RecordValidation(type, passed, ids)
           \/ RunQualityGate
           \/ \E p \in CodePaths : WriteCode(p)
           \/ \E k \in Kinds : WriteReport(k)
           \/ EditInPlace
           \/ \E plan \in Plans : UpdatePlan(plan)
           \/ \E required \in BOOLEAN : RequestClarification(required)
    PROVE  TypeOK'
<1>1. ASSUME NEW type, NEW passed \in BOOLEAN, NEW ids, RecordValidation(type, passed, ids)
      PROVE  TypeOK'
  <2>1. task' \in Tasks
    BY <1>1, ValidatedTypes DEF RecordValidation, TypeOK
  <2>2. evidence' \in [Kinds -> EvidenceStates] /\ repaired' \in CodePaths \cup {NoPath}
    BY <1>1 DEF RecordValidation, TypeOK, EvidenceStates
  <2> QED BY <1>1, <2>1, <2>2 DEF RecordValidation, TypeOK
<1>2. ASSUME RunQualityGate PROVE TypeOK'
  <2>1. GatePasses(task) \in BOOLEAN
    BY DEF GatePasses
  <2>2. task' \in Tasks
    BY <1>2, <2>1 DEF RunQualityGate, TypeOK, Tasks
  <2> QED BY <1>2, <2>2 DEF RunQualityGate, TypeOK
<1>3. ASSUME NEW p \in CodePaths, WriteCode(p) PROVE TypeOK'
  <2>1. task' \in Tasks
    BY <1>3 DEF WriteCode, TypeOK, Tasks
  <2> QED BY <1>3, <2>1, EvidenceTypes DEF WriteCode, TypeOK
<1>4. ASSUME NEW k \in Kinds, WriteReport(k) PROVE TypeOK'
  <2>1. task' \in Tasks
    BY <1>4 DEF WriteReport, TypeOK, Tasks
  <2> QED BY <1>4, <2>1 DEF WriteReport, TypeOK
<1>5. ASSUME EditInPlace PROVE TypeOK'
  BY <1>5, EvidenceTypes DEF EditInPlace, TypeOK
<1>6. ASSUME NEW plan \in Plans, UpdatePlan(plan) PROVE TypeOK'
  <2>1. plan.type \in TaskTypes
    BY EvidenceAssumption
  <2>2. task.required \in [Kinds -> BOOLEAN]
    BY DEF TypeOK, Tasks
  <2>3. task' \in Tasks
    BY <1>6, <2>1, <2>2 DEF UpdatePlan, TypeOK, Tasks, Statuses
  <2> QED BY <1>6, <2>3 DEF UpdatePlan, TypeOK
<1>7. ASSUME NEW required \in BOOLEAN, RequestClarification(required) PROVE TypeOK'
  <2>1. task' \in Tasks
    BY <1>7 DEF RequestClarification, TypeOK, Tasks, Statuses
  <2> QED BY <1>7, <2>1 DEF RequestClarification, TypeOK
<1> QED BY <1>1, <1>2, <1>3, <1>4, <1>5, <1>6, <1>7

LEMMA OutsideTypes ==
    ASSUME TypeOK,
           \/ AnswerQuestions
           \/ Cancel
           \/ \E final \in {"succeeded", "failed"} : Finish(final)
    PROVE  TypeOK'
<1>1. ASSUME AnswerQuestions PROVE TypeOK'
  BY <1>1 DEF AnswerQuestions, TypeOK, Tasks, Statuses
<1>2. ASSUME Cancel PROVE TypeOK'
  BY <1>2 DEF Cancel, TypeOK, Tasks, Statuses, Terminal
<1>3. ASSUME NEW final \in {"succeeded", "failed"}, Finish(final) PROVE TypeOK'
  <2>1. final \in Statuses
    BY <1>3 DEF Statuses, Terminal
  <2> QED BY <1>3, <2>1 DEF Finish, TypeOK, Tasks
<1> QED BY <1>1, <1>2, <1>3

LEMMA StepTypes == TypeOK /\ [Next]_vars => TypeOK'
<1> SUFFICES ASSUME TypeOK, [Next]_vars PROVE TypeOK'
  OBVIOUS
<1>1. CASE ToolStep
  BY <1>1, ProposeTypes, OtherToolTypes DEF ToolStep
<1>2. CASE JobStep
  BY <1>2, StartTypes, ResultStepTypes DEF JobStep
<1>3. CASE AnswerQuestions \/ Cancel \/ \E final \in {"succeeded", "failed"} : Finish(final)
  BY <1>3, OutsideTypes
<1>4. CASE UNCHANGED vars
  BY <1>4 DEF vars, TypeOK
<1> QED BY <1>1, <1>2, <1>3, <1>4 DEF Next

\* Every variable keeps its type, whatever workers and users do.
THEOREM TypeCorrect == Spec => []TypeOK
BY InitTypes, StepTypes, PTL DEF Spec

-----------------------------------------------------------------------------
(* What a result does to failures, markers and counters *)

\* How the status of one failure may change.
Grows(a, b) ==
    b # a => <<a, b>> \in {<<"absent", "open">>, <<"absent", "resolved">>, <<"open", "resolved">>}

\* Which new code drops the pass markers.
Replaces(w, r) ==
    /\ r.outcome = "passed" /\ r.code # NoPath
    /\ w = "dev" \/ (w = "repair" /\ (r.patch \/ r.code \notin XmlPaths))

\* Settling makes the flag true to the failures.
LEMMA SettleFacts ==
    ASSUME NEW t \in Tasks
    PROVE  /\ Settle(t).has_blocking_failure <=> OpenFailures(Settle(t)) # {}
           /\ Settle(t).failures = t.failures
           /\ Settle(t).latest = t.latest
           /\ Settle(t).active = t.active
           /\ Settle(t).status = t.status
<1>1. Settle(t).failures = t.failures
  BY DEF Settle, Tasks
<1>2. OpenFailures(Settle(t)) = OpenFailures(t)
  BY <1>1 DEF OpenFailures
<1>3. Settle(t).has_blocking_failure = (OpenFailures(t) # {})
  BY DEF Settle, Tasks
<1>4. /\ Settle(t).latest = t.latest
      /\ Settle(t).active = t.active
      /\ Settle(t).status = t.status
  BY DEF Settle, Tasks
<1> QED BY <1>1, <1>2, <1>3, <1>4

LEMMA MergeFacts ==
    ASSUME NEW t \in Tasks, NEW ids
    PROVE  /\ \A f \in FailureIds : \/ Merge(t, ids).failures[f] = t.failures[f]
                                    \/ /\ t.failures[f] = "absent"
                                       /\ Merge(t, ids).failures[f] = "open"
           /\ Merge(t, ids).latest = t.latest
           /\ Merge(t, ids).active = t.active
BY DEF Merge, Tasks

LEMMA ResolveFacts ==
    ASSUME NEW t \in Tasks, NEW ids
    PROVE  /\ \A f \in FailureIds : \/ Resolve(t, ids).failures[f] = t.failures[f]
                                    \/ /\ t.failures[f] = "open"
                                       /\ Resolve(t, ids).failures[f] = "resolved"
           /\ Resolve(t, ids).latest = t.latest
           /\ Resolve(t, ids).active = t.active
BY DEF Resolve, OpenFailures, Tasks

LEMMA FiledFacts ==
    ASSUME NEW t \in Tasks, NEW r
    PROVE  /\ Filed(t, r).failures = t.failures
           /\ Filed(t, r).latest = t.latest
           /\ Filed(t, r).active = t.active
BY DEF Filed, Tasks

\* The parts of _apply_result that depend on the worker.
LEMMA DevFacts ==
    ASSUME NEW t \in Tasks
    PROVE  /\ DevPassed(t).failures = t.failures
           /\ DevPassed(t).latest = [k \in Kinds |-> "none"]
           /\ DevPassed(t).active = t.active
BY DEF DevPassed, Tasks

LEMMA CheckPassedFacts ==
    ASSUME NEW t \in Tasks, NEW k \in Kinds
    PROVE  LET u == CheckPassed(t, k)
           IN /\ \A f \in FailureIds : \/ u.failures[f] = t.failures[f]
                                       \/ t.failures[f] = "open" /\ u.failures[f] = "resolved"
              /\ u.latest = [t.latest EXCEPT ![k] = "passed"]
              /\ u.active = t.active
<1> DEFINE s == Resolve(t, OpenFrom(t, k))
<1>1. s \in Tasks
  BY FailureTypes
<1>2. /\ \A f \in FailureIds : \/ s.failures[f] = t.failures[f]
                               \/ t.failures[f] = "open" /\ s.failures[f] = "resolved"
      /\ s.latest = t.latest /\ s.active = t.active
  BY ResolveFacts
<1> HIDE DEF s
<1> DEFINE u == [s EXCEPT !.required[k] = TRUE, !.latest[k] = "passed",
                          !.regression[k] = FALSE]
<1>3. /\ u.failures = s.failures /\ u.active = s.active
      /\ u.latest = [s.latest EXCEPT ![k] = "passed"]
  BY <1>1 DEF Tasks
<1>4. CheckPassed(t, k) = u
  BY DEF CheckPassed, s
<1> QED BY <1>2, <1>3, <1>4

LEMMA CheckFailedFacts ==
    ASSUME NEW t \in Tasks, NEW k \in Kinds
    PROVE  /\ CheckFailed(t, k).failures = t.failures
           /\ CheckFailed(t, k).latest = [t.latest EXCEPT ![k] = "failed"]
           /\ CheckFailed(t, k).active = t.active
BY DEF CheckFailed, Tasks

LEMMA RepairFacts ==
    ASSUME NEW before \in Tasks, NEW t \in Tasks, NEW targets, NEW r
    PROVE  LET u == RepairPassed(before, t, targets, r)
           IN /\ \A f \in FailureIds : \/ u.failures[f] = t.failures[f]
                                       \/ t.failures[f] = "open" /\ u.failures[f] = "resolved"
              /\ u.latest = IF ChangedCode(r) THEN [k \in Kinds |-> "none"] ELSE t.latest
              /\ u.active = t.active
<1> DEFINE s == Resolve(t, targets)
           v == [s EXCEPT !.repair_rounds = @ + 1]
<1>1. s \in Tasks
  BY FailureTypes
<1>2. /\ \A f \in FailureIds : \/ s.failures[f] = t.failures[f]
                               \/ t.failures[f] = "open" /\ s.failures[f] = "resolved"
      /\ s.latest = t.latest /\ s.active = t.active
  BY ResolveFacts
<1> HIDE DEF s
<1>3. v \in Tasks /\ v.failures = s.failures /\ v.latest = s.latest /\ v.active = s.active
  BY <1>1 DEF Tasks
<1> HIDE DEF v
<1> DEFINE none == [k \in Kinds |-> "none"]
           owed == [k \in Kinds |->
                       k = "test" \/ t.regression[k] \/ OpenFrom(before, k) # {}]
           nothing == [k \in Kinds |-> FALSE]
<1>4. RepairPassed(before, t, targets, r) =
          IF ChangedCode(r)
          THEN [v EXCEPT !.latest = none, !.regression = owed]
          ELSE [v EXCEPT !.regression = nothing]
  BY DEF RepairPassed, s, v
<1> HIDE DEF none, owed, nothing
<1>5. /\ [v EXCEPT !.latest = none, !.regression = owed].failures = v.failures
      /\ [v EXCEPT !.latest = none, !.regression = owed].latest = none
      /\ [v EXCEPT !.latest = none, !.regression = owed].active = v.active
      /\ [v EXCEPT !.regression = nothing].failures = v.failures
      /\ [v EXCEPT !.regression = nothing].latest = v.latest
      /\ [v EXCEPT !.regression = nothing].active = v.active
  BY <1>3 DEF Tasks
<1>6. CASE ChangedCode(r)
  BY <1>2, <1>3, <1>4, <1>5, <1>6 DEF none
<1>7. CASE ~ChangedCode(r)
  BY <1>2, <1>3, <1>4, <1>5, <1>7
<1> QED BY <1>6, <1>7

LEMMA ClarifiedFacts ==
    ASSUME NEW t \in Tasks, NEW r
    PROVE  /\ Clarified(t, r).failures = t.failures
           /\ Clarified(t, r).latest = t.latest
           /\ Clarified(t, r).active = t.active
BY DEF Clarified, Tasks

\* The whole projection, with the counter given back.
LEMMA AppliedFacts ==
    ASSUME NEW t \in Tasks, NEW input \in Inputs, NEW r \in Results[input.worker]
    PROVE  LET u == Decremented(Applied(t, input, r))
               w == input.worker
           IN /\ u.has_blocking_failure <=> OpenFailures(u) # {}
              /\ \A f \in FailureIds : Grows(t.failures[f], u.failures[f])
              /\ \A k \in Kinds : u.latest[k] = "passed" =>
                     \/ r.outcome = "passed" /\ w = k
                     \/ t.latest[k] = "passed" /\ ~Replaces(w, r)
              /\ u.active = IF t.active > 0 THEN t.active - 1 ELSE 0
<1> DEFINE w == input.worker
           merged == Merge(t, r.failures)
           received == Filed(merged, r)
           Body == CASE r.outcome = "incomplete" -> merged
                     [] r.outcome = "need_clarification" -> Clarified(received, r)
                     [] r.outcome = "passed" /\ w = "dev" -> DevPassed(received)
                     [] r.outcome = "passed" /\ w = "repair" ->
                            RepairPassed(t, received, input.targets, r)
                     [] r.outcome = "passed" /\ w \in Kinds -> CheckPassed(received, w)
                     [] r.outcome = "failed" /\ w \in Kinds -> CheckFailed(received, w)
                     [] OTHER -> received
<1>1. w \in Workers
  BY DEF Inputs
<1>2. merged \in Tasks /\ received \in Tasks
  BY <1>1, FailureTypes, FileTypes
<1>3. /\ \A f \in FailureIds : \/ received.failures[f] = t.failures[f]
                               \/ t.failures[f] = "absent" /\ received.failures[f] = "open"
      /\ received.latest = t.latest /\ received.active = t.active
      /\ merged.failures = received.failures /\ merged.latest = t.latest
      /\ merged.active = t.active
  BY <1>2, MergeFacts, FiledFacts
<1>4. t.latest \in [Kinds -> {"none", "passed", "failed"}]
  BY DEF Tasks
<1> HIDE DEF merged, received
<1> DEFINE Good(u) == /\ \A f \in FailureIds : Grows(t.failures[f], u.failures[f])
                      /\ \A k \in Kinds : u.latest[k] = "passed" =>
                             \/ r.outcome = "passed" /\ w = k
                             \/ t.latest[k] = "passed" /\ ~Replaces(w, r)
                      /\ u.active = t.active
                      /\ u \in Tasks
<1>5. Good(Body)
  <2>0. w \in Kinds => w \notin {"dev", "repair"}
    BY DEF Kinds
  <2>1. CASE r.outcome = "incomplete"
    <3>1. Body = merged
      BY <2>1
    <3> HIDE DEF Body
    <3> QED BY <2>1, <3>1, <1>2, <1>3 DEF Grows, Replaces
  <2>2. CASE r.outcome = "need_clarification"
    <3>1. Body = Clarified(received, r)
      BY <2>2
    <3> HIDE DEF Body
    <3>0. Body \in Tasks
      BY <2>2, <3>1, <1>1, <1>2, ResultTypes
    <3>2. /\ Body.failures = received.failures
          /\ Body.latest = received.latest /\ Body.active = received.active
      BY <3>1, <1>2, ClarifiedFacts
    <3> QED BY <3>0, <2>2, <3>2, <1>3 DEF Grows, Replaces
  <2>3. CASE r.outcome = "passed" /\ w = "dev"
    <3>1. Body = DevPassed(received)
      BY <2>0, <2>3
    <3> HIDE DEF Body
    <3>0. Body \in Tasks
      BY <2>3, <3>1, <1>1, <1>2, ResultTypes
    <3>2. /\ Body.failures = received.failures
          /\ Body.latest = [k \in Kinds |-> "none"] /\ Body.active = received.active
      BY <3>1, <1>2, DevFacts
    <3> QED BY <3>0, <3>2, <1>3 DEF Grows
  <2>4. CASE r.outcome = "passed" /\ w = "repair"
    <3>1. Body = RepairPassed(t, received, input.targets, r)
      BY <2>0, <2>4
    <3> HIDE DEF Body
    <3>0. Body \in Tasks
      BY <2>4, <3>1, <1>1, <1>2, ResultTypes
    <3>2. /\ Body.active = received.active
          /\ Body.latest = IF ChangedCode(r) THEN [k \in Kinds |-> "none"] ELSE received.latest
          /\ \A f \in FailureIds : \/ Body.failures[f] = received.failures[f]
                                   \/ received.failures[f] = "open" /\ Body.failures[f] = "resolved"
      BY <3>1, <1>2, RepairFacts
    <3>3. Replaces(w, r) => ChangedCode(r)
      <4>1. r.code \in CodePaths \cup {NoPath}
        BY <1>1, ResultCode
      <4> HIDE DEF w
      <4> QED BY <2>4, <4>1 DEF Replaces, ChangedCode
    <3>4. \A f \in FailureIds : Grows(t.failures[f], Body.failures[f])
      BY <3>2, <1>3 DEF Grows
    <3>5. \A k \in Kinds : Body.latest[k] = "passed" =>
              t.latest[k] = "passed" /\ ~Replaces(w, r)
      BY <3>2, <3>3, <1>3
    <3> QED BY <3>0, <3>2, <3>4, <3>5, <1>3
  <2>5. CASE r.outcome = "passed" /\ w \in Kinds
    <3>1. Body = CheckPassed(received, w)
      BY <2>0, <2>5
    <3> HIDE DEF Body
    <3>0. Body \in Tasks
      BY <2>5, <3>1, <1>1, <1>2, ResultTypes
    <3>2. /\ Body.active = received.active
          /\ Body.latest = [received.latest EXCEPT ![w] = "passed"]
          /\ \A f \in FailureIds : \/ Body.failures[f] = received.failures[f]
                                   \/ received.failures[f] = "open" /\ Body.failures[f] = "resolved"
      BY <2>5, <3>1, <1>2, CheckPassedFacts
    <3>3. \A f \in FailureIds : Grows(t.failures[f], Body.failures[f])
      BY <3>2, <1>3 DEF Grows
    <3>4. ~Replaces(w, r)
      BY <2>0, <2>5 DEF Replaces
    <3>5. \A k \in Kinds : k # w => Body.latest[k] = t.latest[k]
      BY <3>2, <1>3, <1>4
    <3> QED BY <3>0, <2>5, <3>2, <3>3, <3>4, <3>5, <1>3
  <2>6. CASE r.outcome = "failed" /\ w \in Kinds
    <3>1. Body = CheckFailed(received, w)
      BY <2>6
    <3> HIDE DEF Body
    <3>0. Body \in Tasks
      BY <2>6, <3>1, <1>1, <1>2, ResultTypes
    <3>2. /\ Body.active = received.active
          /\ Body.latest = [received.latest EXCEPT ![w] = "failed"]
          /\ Body.failures = received.failures
      BY <2>6, <3>1, <1>2, CheckFailedFacts
    <3>3. \A f \in FailureIds : Grows(t.failures[f], Body.failures[f])
      BY <3>2, <1>3 DEF Grows
    <3>4. ~Replaces(w, r)
      BY <2>6 DEF Replaces
    <3>5. \A k \in Kinds : Body.latest[k] = "passed" => t.latest[k] = "passed"
      BY <3>2, <1>3, <1>4
    <3> QED BY <3>0, <3>2, <3>3, <3>4, <3>5, <1>3
  <2>7. CASE ~(\/ r.outcome \in {"incomplete", "need_clarification"}
               \/ r.outcome = "passed" /\ w \in {"dev", "repair"} \cup Kinds
               \/ r.outcome = "failed" /\ w \in Kinds)
    <3>1. Body = received
      BY <2>7
    <3> HIDE DEF Body
    <3>2. ~Replaces(w, r)
      BY <2>7 DEF Replaces
    <3> QED BY <3>1, <3>2, <1>2, <1>3 DEF Grows
  <2> QED BY <2>1, <2>2, <2>3, <2>4, <2>5, <2>6, <2>7
<1>6. Applied(t, input, r) = Settle(Body)
  BY DEF Applied, merged, received
<1> HIDE DEF Body
<1> DEFINE v == Settle(Body)
<1>7. /\ v \in Tasks
      /\ v.has_blocking_failure <=> OpenFailures(v) # {}
      /\ v.failures = Body.failures /\ v.latest = Body.latest /\ v.active = Body.active
  BY <1>5, FailureTypes, SettleFacts
<1> HIDE DEF v
<1> DEFINE u == Decremented(v)
<1>8. /\ u.failures = v.failures /\ u.latest = v.latest
      /\ u.has_blocking_failure = v.has_blocking_failure
      /\ u.active = IF v.active > 0 THEN v.active - 1 ELSE 0
  BY <1>7 DEF Decremented, Tasks
<1>9. OpenFailures(u) = OpenFailures(v)
  BY <1>8 DEF OpenFailures
<1> HIDE DEF u
<1>10. Decremented(Applied(t, input, r)) = u
  BY <1>6 DEF u, v
<1> QED BY <1>5, <1>7, <1>8, <1>9, <1>10

LEMMA ValidatedFacts ==
    ASSUME NEW t \in Tasks, NEW type, NEW passed \in BOOLEAN, NEW ids
    PROVE  LET u == Validated(t, type, passed, ids)
           IN /\ u.has_blocking_failure <=> OpenFailures(u) # {}
              /\ \A f \in FailureIds : Grows(t.failures[f], u.failures[f])
              /\ \A k \in Kinds : u.latest[k] = "passed" =>
                     (passed /\ k = type) \/ t.latest[k] = "passed"
              /\ u.active = t.active
<1> DEFINE d == [t EXCEPT !.required = [k \in Kinds |-> t.required[k] \/ k = type]]
           s == Resolve(d, IF ids = {} THEN OpenFrom(d, type) ELSE ids)
           checks == Kinds \cap {type}
           latest == [k \in Kinds |-> IF k \in checks THEN "passed" ELSE t.latest[k]]
           regression == [k \in Kinds |-> k \notin checks /\ t.regression[k]]
           v == [s EXCEPT !.reports = @ \cup checks, !.latest = latest, !.regression = regression]
           Body == IF passed THEN v ELSE d
<1>1. d \in Tasks /\ d.failures = t.failures /\ d.latest = t.latest /\ d.active = t.active
  <2>1. t.required \in [Kinds -> BOOLEAN]
    BY DEF Tasks
  <2> QED BY <2>1 DEF Tasks
<1>2. OpenFrom(t, type) = OpenFrom(d, type)
  BY <1>1 DEF OpenFrom, OpenFailures
<1> HIDE DEF d
<1>3. /\ s \in Tasks /\ s.latest = d.latest /\ s.active = d.active
      /\ \A f \in FailureIds : \/ s.failures[f] = d.failures[f]
                               \/ d.failures[f] = "open" /\ s.failures[f] = "resolved"
  BY <1>1, FailureTypes, ResolveFacts
<1>4. latest \in [Kinds -> {"none", "passed", "failed"}] /\ regression \in [Kinds -> BOOLEAN]
  BY DEF Tasks
<1>5. \A k \in Kinds : latest[k] = "passed" => k = type \/ t.latest[k] = "passed"
  OBVIOUS
<1>6. Validated(t, type, passed, ids) = Settle(Body)
  BY <1>2 DEF Validated, d
<1> HIDE DEF s, latest, regression
<1>7. /\ v \in Tasks /\ v.latest = latest /\ v.active = s.active /\ v.failures = s.failures
  BY <1>3, <1>4 DEF Tasks
<1> HIDE DEF v
<1>8. /\ Body \in Tasks /\ Body.active = t.active
      /\ \A f \in FailureIds : Grows(t.failures[f], Body.failures[f])
      /\ \A k \in Kinds : Body.latest[k] = "passed" =>
             (passed /\ k = type) \/ t.latest[k] = "passed"
  <2>1. CASE passed
    BY <2>1, <1>1, <1>3, <1>5, <1>7 DEF Grows
  <2>2. CASE ~passed
    BY <2>2, <1>1 DEF Grows
  <2> QED BY <2>1, <2>2
<1> HIDE DEF Body
<1> QED BY <1>6, <1>8, SettleFacts

-----------------------------------------------------------------------------
(* What a step does to failures and markers *)

\* Nothing happens to failures, markers and what is owed, no pass is superseded,
\* and only the Quality Gate sets its own marker.
Quiet ==
    /\ task'.failures = task.failures
    /\ task'.latest = task.latest
    /\ task'.has_blocking_failure = task.has_blocking_failure
    /\ task'.regression = task.regression
    /\ task'.repair_rounds = task.repair_rounds
    /\ task'.can_finish_as_success => task.can_finish_as_success \/ GatePasses(task)
    /\ repaired' = repaired
    /\ \A k \in Kinds : evidence'[k] = "superseded" => evidence[k] = "superseded"

LEMMA PreparedFacts ==
    ASSUME NEW t \in Tasks, NEW w
    PROVE  /\ Prepared(t, w).failures = t.failures
           /\ Prepared(t, w).latest = t.latest
           /\ Prepared(t, w).has_blocking_failure = t.has_blocking_failure
           /\ Prepared(t, w).active = t.active
           /\ Prepared(t, w).regression = t.regression
           /\ Prepared(t, w).repair_rounds = t.repair_rounds
           /\ Prepared(t, w).can_finish_as_success = t.can_finish_as_success
<1> DEFINE s == [t EXCEPT !.required = [k \in Kinds |-> t.required[k] \/ k = w]]
           u == [s EXCEPT !.status = "running",
                          !.type = IF w \in Kinds THEN w ELSE "development"]
<1>1. /\ s.failures = t.failures /\ s.latest = t.latest /\ s.active = t.active
      /\ s.has_blocking_failure = t.has_blocking_failure
      /\ s.regression = t.regression /\ s.repair_rounds = t.repair_rounds
      /\ s.can_finish_as_success = t.can_finish_as_success
      /\ s \in Tasks
  <2>1. t.required \in [Kinds -> BOOLEAN]
    BY DEF Tasks
  <2> QED BY <2>1 DEF Tasks
<1> HIDE DEF s
<1>2. /\ u.failures = s.failures /\ u.latest = s.latest /\ u.active = s.active
      /\ u.has_blocking_failure = s.has_blocking_failure
      /\ u.regression = s.regression /\ u.repair_rounds = s.repair_rounds
      /\ u.can_finish_as_success = s.can_finish_as_success
  BY <1>1 DEF Tasks
<1>3. Prepared(t, w) = s \/ Prepared(t, w) = u
  BY DEF Prepared, s
<1> QED BY <1>1, <1>2, <1>3

LEMMA DriftFacts ==
    ASSUME TypeOK
    PROVE  /\ \A k \in Kinds : Drift(evidence)[k] = "superseded" => evidence[k] = "superseded"
           /\ MayHaveWritten =>
                  \A k \in Kinds : evidence'[k] = "superseded" => evidence[k] = "superseded"
BY DEF TypeOK, Drift, MayHaveWritten

\* Only results and validation reports touch them.
LEMMA QuietSteps ==
    ASSUME TypeOK, [Next]_vars
    PROVE  \/ \E r : ApplyResult(r)
           \/ \E type \in Kinds \cup {"compile"}, passed \in BOOLEAN, ids \in SUBSET FailureIds :
                  RecordValidation(type, passed, ids)
           \/ Quiet
<1> USE DEF Quiet
<1>0. task \in Tasks
  BY DEF TypeOK
<1>1. ASSUME NEW w \in Workers, ProposeWorker(w) PROVE Quiet
  BY <1>0, <1>1, PreparedFacts DEF ProposeWorker
<1>2. ASSUME NEW batch \in Batches, ProposeBatch(batch) PROVE Quiet
  BY <1>2 DEF ProposeBatch
<1>3. CASE StartJob
  BY <1>0, <1>3 DEF StartJob, Tasks
<1>4. CASE RetainResult
  <2>1. /\ task'.failures = task.failures /\ task'.latest = task.latest
        /\ task'.has_blocking_failure = task.has_blocking_failure
        /\ task'.regression = task.regression /\ task'.repair_rounds = task.repair_rounds
        /\ task'.can_finish_as_success = task.can_finish_as_success
    BY <1>0, <1>4 DEF RetainResult, Decremented, Tasks
  <2> QED BY <1>4, <2>1, DriftFacts DEF RetainResult
<1>5. CASE JobRaises
  <2>1. /\ task'.failures = task.failures /\ task'.latest = task.latest
        /\ task'.has_blocking_failure = task.has_blocking_failure
        /\ task'.regression = task.regression /\ task'.repair_rounds = task.repair_rounds
        /\ task'.can_finish_as_success = task.can_finish_as_success
    BY <1>0, <1>5 DEF JobRaises, Restored, Tasks
  <2> QED BY <1>5, <2>1, DriftFacts DEF JobRaises
<1>6. CASE RunQualityGate
  BY <1>0, <1>6 DEF RunQualityGate, Tasks
<1>7. ASSUME NEW p \in CodePaths, WriteCode(p) PROVE Quiet
  BY <1>0, <1>7, DriftFacts DEF WriteCode, Tasks
<1>8. ASSUME NEW k \in Kinds, WriteReport(k) PROVE Quiet
  BY <1>0, <1>8 DEF WriteReport, Tasks
<1>9. CASE EditInPlace
  BY <1>9, DriftFacts DEF EditInPlace
<1>10. ASSUME NEW plan \in Plans, UpdatePlan(plan) PROVE Quiet
  <2> DEFINE required == [k \in Kinds |->
                 Demand(plan, k) = "yes" \/ (Demand(plan, k) = "keep" /\ task.required[k])]
  <2>1. task' = [task EXCEPT !.status = "running", !.type = plan.type,
                             !.required = required, !.can_finish_as_success = FALSE]
    BY <1>10 DEF UpdatePlan
  <2> HIDE DEF required
  <2> QED BY <1>0, <1>10, <2>1 DEF UpdatePlan, Tasks
<1>11. ASSUME NEW required \in BOOLEAN, RequestClarification(required) PROVE Quiet
  BY <1>0, <1>11 DEF RequestClarification, Tasks
<1>12. CASE AnswerQuestions
  BY <1>0, <1>12 DEF AnswerQuestions, Tasks
<1>13. CASE Cancel
  BY <1>0, <1>13 DEF Cancel, Tasks
<1>14. ASSUME NEW final \in {"succeeded", "failed"}, Finish(final) PROVE Quiet
  BY <1>0, <1>14 DEF Finish, Tasks
<1>15. CASE UNCHANGED vars
  BY <1>15 DEF vars
<1>16. CASE ToolStep
  BY <1>16, <1>1, <1>2, <1>6, <1>7, <1>8, <1>9, <1>10, <1>11 DEF ToolStep
<1>17. CASE JobStep
  BY <1>17, <1>3, <1>4, <1>5 DEF JobStep
<1> QED BY <1>12, <1>13, <1>14, <1>15, <1>16, <1>17 DEF Next

\* What a result and a validation report do to the task.
LEMMA ResultFacts ==
    ASSUME TypeOK, NEW r, ApplyResult(r)
    PROVE  /\ job \in Jobs /\ job.input \in Inputs /\ r \in Results[job.input.worker]
           /\ task'.has_blocking_failure <=> OpenFailures(task') # {}
           /\ \A f \in FailureIds : Grows(task.failures[f], task'.failures[f])
           /\ \A k \in Kinds : task'.latest[k] = "passed" =>
                  \/ r.outcome = "passed" /\ job.input.worker = k
                  \/ task.latest[k] = "passed" /\ ~Replaces(job.input.worker, r)
           /\ task'.active = IF task.active > 0 THEN task.active - 1 ELSE 0
<1>1. /\ job \in Jobs /\ job.input \in Inputs /\ r \in Results[job.input.worker]
      /\ task \in Tasks
  BY JobFacts DEF ApplyResult, TypeOK
<1>2. task' = Decremented(Applied(task, job.input, r))
  BY DEF ApplyResult
<1> QED BY <1>1, <1>2, AppliedFacts

-----------------------------------------------------------------------------
(* The theorems *)

\* The history of evidence follows what replaces code.
LEMMA EvidenceFacts ==
    ASSUME TypeOK, NEW r, ApplyResult(r), NEW k \in Kinds, evidence'[k] = "superseded"
    PROVE  /\ ~(r.outcome = "passed" /\ job.input.worker = k)
           /\ Replaces(job.input.worker, r) \/ evidence[k] = "superseded"
<1> DEFINE w == job.input.worker
           new == r.outcome = "passed" /\ r.code # NoPath /\ w \in {"dev", "repair"}
           onlyXml == w = "repair" /\ r.code \in XmlPaths /\ ~r.patch
           older == [j \in Kinds |-> IF evidence[j] = "superseded"
                                     THEN "superseded" ELSE "xml_repaired"]
           base == CASE new /\ ~onlyXml -> [j \in Kinds |-> "superseded"]
                     [] new /\ onlyXml -> older
                     [] ~new /\ (r.code # NoPath \/ r.patch) -> Drift(evidence)
                     [] OTHER -> evidence
           mark == IF Filed(task, r).current_code = job.input.code THEN "current" ELSE "drifted"
<1>1. evidence' = IF r.outcome = "passed" /\ w \in Kinds
                  THEN [base EXCEPT ![w] = mark] ELSE base
  BY DEF ApplyResult, EvidenceAfter
<1>2. base \in [Kinds -> EvidenceStates]
  <2>1. older \in [Kinds -> EvidenceStates] /\ [j \in Kinds |-> "superseded"] \in [Kinds -> EvidenceStates]
        /\ evidence \in [Kinds -> EvidenceStates] /\ Drift(evidence) \in [Kinds -> EvidenceStates]
    BY DEF TypeOK, EvidenceStates, Drift
  <2> QED BY <2>1
<1>3. mark # "superseded"
  OBVIOUS
<1>4. base[k] = "superseded" => Replaces(w, r) \/ evidence[k] = "superseded"
  <2>1. new /\ ~onlyXml => Replaces(w, r)
    BY DEF Replaces
  <2>2. older[k] = "superseded" => evidence[k] = "superseded"
    OBVIOUS
  <2>3. Drift(evidence)[k] = "superseded" => evidence[k] = "superseded"
    BY DriftFacts
  <2> HIDE DEF new, onlyXml, older
  <2> QED BY <2>1, <2>2, <2>3
<1> HIDE DEF base, mark
<1> QED BY <1>1, <1>2, <1>3, <1>4

LEMMA MarkersStep ==
    ASSUME TypeOK, MarkersFollowWorkers, [Next]_vars
    PROVE  MarkersFollowWorkers'
<1>1. ASSUME NEW r, ApplyResult(r) PROVE MarkersFollowWorkers'
  BY <1>1, ResultFacts, EvidenceFacts DEF MarkersFollowWorkers
<1>2. ASSUME NEW type, NEW passed \in BOOLEAN, NEW ids, RecordValidation(type, passed, ids)
      PROVE  MarkersFollowWorkers'
  <2>1. task \in Tasks /\ task' = Validated(task, type, passed, ids)
    BY <1>2 DEF RecordValidation, TypeOK
  <2>2. \A k \in Kinds : task'.latest[k] = "passed" =>
            (passed /\ k = type) \/ task.latest[k] = "passed"
    BY <2>1, ValidatedFacts
  <2>3. \A k \in Kinds : evidence'[k] = "superseded" =>
            ~(passed /\ k = type) /\ evidence[k] = "superseded"
    BY <1>2 DEF RecordValidation
  <2> QED BY <2>2, <2>3 DEF MarkersFollowWorkers
<1>3. CASE Quiet
  BY <1>3 DEF Quiet, MarkersFollowWorkers
<1> QED BY <1>1, <1>2, <1>3, QuietSteps

\* A recorded pass is never one that a worker's new code has superseded, for
\* every set of code files and failures: the markers of _apply_dev_result and
\* _apply_repair_result are dropped in time, XML files of a dev worker included.
\* What a repair writes is told from its files, not from _repair_changed_code: the
\* passes that survive are those whose code only XML repairs have replaced.
THEOREM MarkersTruth == Spec => []MarkersFollowWorkers
<1>1. Init => MarkersFollowWorkers
  BY DEF Init, MarkersFollowWorkers
<1>2. TypeOK /\ MarkersFollowWorkers /\ [Next]_vars => MarkersFollowWorkers'
  BY MarkersStep
<1> QED BY <1>1, <1>2, TypeCorrect, PTL DEF Spec

LEMMA FlagStep ==
    ASSUME TypeOK, FlagTruthful, [Next]_vars
    PROVE  FlagTruthful'
<1>1. ASSUME NEW r, ApplyResult(r) PROVE FlagTruthful'
  BY <1>1, ResultFacts DEF FlagTruthful
<1>2. ASSUME NEW type, NEW passed \in BOOLEAN, NEW ids, RecordValidation(type, passed, ids)
      PROVE  FlagTruthful'
  <2>1. task \in Tasks /\ task' = Validated(task, type, passed, ids)
    BY <1>2 DEF RecordValidation, TypeOK
  <2> QED BY <2>1, ValidatedFacts DEF FlagTruthful
<1>3. CASE Quiet
  BY <1>3 DEF Quiet, FlagTruthful, OpenFailures
<1> QED BY <1>1, <1>2, <1>3, QuietSteps

\* has_blocking_failure is true to the failures in every behaviour.
THEOREM FlagTruth == Spec => []FlagTruthful
<1>1. Init => FlagTruthful
  BY DEF Init, FlagTruthful, OpenFailures
<1>2. TypeOK /\ FlagTruthful /\ [Next]_vars => FlagTruthful'
  BY FlagStep
<1> QED BY <1>1, <1>2, TypeCorrect, PTL DEF Spec

\* Failures are only added and resolved, whatever workers report and whichever
\* failures a validation report names.
THEOREM FailuresKept == Spec => FailuresAreKept
<1> DEFINE Kept == \A f \in FailureIds : Grows(task.failures[f], task'.failures[f])
<1>1. TypeOK /\ [Next]_vars => Kept
  <2> SUFFICES ASSUME TypeOK, [Next]_vars PROVE Kept
    OBVIOUS
  <2>1. ASSUME NEW r, ApplyResult(r) PROVE Kept
    BY <2>1, ResultFacts
  <2>2. ASSUME NEW type, NEW passed \in BOOLEAN, NEW ids, RecordValidation(type, passed, ids)
        PROVE  Kept
    <3>1. task \in Tasks /\ task' = Validated(task, type, passed, ids)
      BY <2>2 DEF RecordValidation, TypeOK
    <3> QED BY <3>1, ValidatedFacts
  <2>3. CASE Quiet
    BY <2>3 DEF Quiet, Grows
  <2> QED BY <2>1, <2>2, <2>3, QuietSteps
<1>2. TypeOK /\ [Next]_vars =>
          [\A f \in FailureIds :
               task'.failures[f] # task.failures[f] =>
                   <<task.failures[f], task'.failures[f]>> \in
                       {<<"absent", "open">>, <<"absent", "resolved">>, <<"open", "resolved">>}]_vars
  BY <1>1 DEF Grows
<1> QED BY <1>2, TypeCorrect, PTL DEF Spec, FailuresAreKept

\* A terminal task can only lose the slot and the budget of a call.
LateFacts ==
    IsTerminal => task' = [task EXCEPT !.active = task'.active, !.calls = task'.calls]

LEMMA LateStep ==
    ASSUME TypeOK, [Next]_vars
    PROVE  LateFacts
<1> USE DEF LateFacts
<1>0. task \in Tasks
  BY DEF TypeOK
<1>1. ~MayCallTool \/ ~IsTerminal
  BY DEF MayCallTool, IsTerminal, Terminal
<1>2. task' = task => LateFacts
  BY <1>0 DEF Tasks
<1>3. CASE ToolStep
  BY <1>1, <1>3 DEF ToolStep, ProposeWorker, ProposeBatch, RecordValidation, RunQualityGate,
                    WriteCode, WriteReport, EditInPlace, UpdatePlan, RequestClarification
<1>4. CASE StartJob
  BY <1>0, <1>4 DEF StartJob, Tasks
<1>5. ASSUME NEW r, ApplyResult(r) PROVE LateFacts
  BY <1>5 DEF ApplyResult, ResultCounts
<1>6. CASE RetainResult
  BY <1>0, <1>6 DEF RetainResult, Decremented, Tasks
<1>7. CASE JobRaises
  BY <1>0, <1>7 DEF JobRaises, Restored, Tasks
<1>8. CASE AnswerQuestions
  BY <1>8 DEF AnswerQuestions, IsTerminal, Terminal
<1>9. CASE Cancel
  BY <1>9 DEF Cancel
<1>10. ASSUME NEW final, Finish(final) PROVE LateFacts
  BY <1>1, <1>10 DEF Finish
<1>11. CASE UNCHANGED vars
  BY <1>2, <1>11 DEF vars
<1>12. CASE JobStep
  BY <1>12, <1>4, <1>5, <1>6, <1>7 DEF JobStep
<1> QED BY <1>3, <1>8, <1>9, <1>10, <1>11, <1>12 DEF Next

\* A result that arrives after the cancel, and a job that starts or fails after
\* it, leave every other field of the terminal task alone.
THEOREM LateResults == Spec => LateResultsChangeNothing
<1>1. TypeOK /\ [Next]_vars => [LateFacts]_vars
  BY LateStep
<1> QED BY <1>1, TypeCorrect, PTL DEF Spec, LateFacts, LateResultsChangeNothing

-----------------------------------------------------------------------------
(* Counters *)

\* While a job runs, the counter it would restore is that of an idle task: jobs
\* of one episode never overlap.
CountersInv ==
    ~IsTerminal => /\ task.active = IF job = NoJob THEN 0 ELSE 1
                   /\ job # NoJob => job.active = 0

LEMMA CountersStep ==
    ASSUME TypeOK, CountersInv, [Next]_vars
    PROVE  CountersInv'
<1> USE DEF CountersInv
<1>0. task \in Tasks
  BY DEF TypeOK
<1> DEFINE Frame == task'.active = task.active /\ job' = job /\ ~IsTerminal
<1>1. ASSUME Frame PROVE CountersInv'
  BY <1>1
<1>2. MayCallTool => ~IsTerminal
  BY DEF MayCallTool, IsTerminal, Terminal
<1>3. ASSUME ToolStep PROVE Frame
  <2>1. ASSUME NEW w \in Workers, ProposeWorker(w) PROVE Frame
    BY <1>0, <1>2, <2>1, PreparedFacts DEF ProposeWorker
  <2>2. ASSUME NEW batch \in Batches, ProposeBatch(batch) PROVE Frame
    BY <1>2, <2>2 DEF ProposeBatch
  <2>3. ASSUME NEW type, NEW passed \in BOOLEAN, NEW ids, RecordValidation(type, passed, ids)
        PROVE  Frame
    <3>1. task' = Validated(task, type, passed, ids) /\ job' = job /\ ~IsTerminal
      BY <1>2, <2>3 DEF RecordValidation
    <3> QED BY <1>0, <3>1, ValidatedFacts
  <2>4. CASE RunQualityGate
    BY <1>0, <1>2, <2>4 DEF RunQualityGate, Tasks
  <2>5. ASSUME NEW p \in CodePaths, WriteCode(p) PROVE Frame
    BY <1>0, <1>2, <2>5 DEF WriteCode, Tasks
  <2>6. ASSUME NEW k \in Kinds, WriteReport(k) PROVE Frame
    BY <1>0, <1>2, <2>6 DEF WriteReport, Tasks
  <2>7. CASE EditInPlace
    BY <1>2, <2>7 DEF EditInPlace
  <2>8. ASSUME NEW plan \in Plans, UpdatePlan(plan) PROVE Frame
    <3> DEFINE required == [k \in Kinds |->
                   Demand(plan, k) = "yes" \/ (Demand(plan, k) = "keep" /\ task.required[k])]
    <3>1. task' = [task EXCEPT !.status = "running", !.type = plan.type,
                               !.required = required, !.can_finish_as_success = FALSE]
      BY <2>8 DEF UpdatePlan
    <3> HIDE DEF required
    <3> QED BY <1>0, <1>2, <2>8, <3>1 DEF UpdatePlan, Tasks
  <2>9. ASSUME NEW required \in BOOLEAN, RequestClarification(required) PROVE Frame
    BY <1>0, <1>2, <2>9 DEF RequestClarification, Tasks
  <2> QED BY <1>3, <2>1, <2>2, <2>3, <2>4, <2>5, <2>6, <2>7, <2>8, <2>9 DEF ToolStep
<1>4. ASSUME StartJob PROVE CountersInv'
  <2>1. /\ task'.active = task.active + 1 /\ task'.status = task.status
        /\ job' \in Jobs /\ job'.active = task.active
    <3>1. job' \in Jobs
      <4>1. Head(queue) \in Inputs /\ task.active \in Nat /\ task.calls \in Nat
        BY <1>0, <1>4 DEF TypeOK, StartJob, Tasks
      <4> QED BY <1>4, <4>1 DEF StartJob, Jobs
    <3> QED BY <1>0, <1>4, <3>1 DEF StartJob, Tasks
  <2>2. job' # NoJob
    BY <2>1, EvidenceAssumption
  <2> QED BY <1>0, <1>4, <2>1, <2>2 DEF StartJob, IsTerminal, Tasks
<1>5. ASSUME NEW r, ApplyResult(r) PROVE CountersInv'
  <2>1. task.active = 1
    BY <1>5 DEF ApplyResult, ResultCounts
  <2>2. task'.active = 0 /\ job' = NoJob
    BY <1>5, <2>1, ResultFacts DEF ApplyResult
  <2> QED BY <2>2
<1>6. ASSUME RetainResult PROVE CountersInv'
  <2>1. task'.status = task.status
    BY <1>0, <1>6 DEF RetainResult, Decremented, Tasks
  <2> QED BY <1>6, <2>1 DEF RetainResult, ResultCounts, IsTerminal
<1>7. ASSUME JobRaises PROVE CountersInv'
  <2>1. task'.status = task.status /\ task'.active = job.active /\ job' = NoJob
    BY <1>0, <1>7 DEF JobRaises, Restored, Tasks
  <2> QED BY <1>7, <2>1 DEF JobRaises, IsTerminal
<1>8. ASSUME AnswerQuestions PROVE Frame
  BY <1>0, <1>8 DEF AnswerQuestions, IsTerminal, Terminal, Tasks
<1>9. ASSUME Cancel PROVE CountersInv'
  BY <1>0, <1>9 DEF Cancel, IsTerminal, Terminal, Tasks
<1>10. ASSUME NEW final, Finish(final) PROVE Frame
  BY <1>0, <1>2, <1>10 DEF Finish, Tasks
<1>11. ASSUME UNCHANGED vars PROVE CountersInv'
  BY <1>11 DEF vars, IsTerminal
<1>12. ASSUME JobStep PROVE CountersInv'
  BY <1>12, <1>4, <1>5, <1>6, <1>7 DEF JobStep
<1> QED BY <1>1, <1>3, <1>8, <1>9, <1>10, <1>11, <1>12 DEF Next

\* Every way a call may end gives its slot back exactly once, also when it
\* raises and _restore_active_worker writes back a counter read long before.
THEOREM CountersTruth == Spec => []CountersBalance
<1>1. Init => CountersInv
  BY DEF Init, CountersInv
<1>2. TypeOK /\ CountersInv /\ [Next]_vars => CountersInv'
  BY CountersStep
<1>3. CountersInv => CountersBalance
  BY DEF CountersInv, CountersBalance
<1> QED BY <1>1, <1>2, <1>3, TypeCorrect, PTL DEF Spec

-----------------------------------------------------------------------------
(* The success marker and the first repair *)

\* What the parts of a projection do to the regression flags and to the number
\* of repairs.
LEMMA SameGates ==
    ASSUME NEW t \in Tasks, NEW r, NEW ids
    PROVE  /\ Merge(t, ids).regression = t.regression
           /\ Merge(t, ids).repair_rounds = t.repair_rounds
           /\ Resolve(t, ids).regression = t.regression
           /\ Resolve(t, ids).repair_rounds = t.repair_rounds
           /\ Filed(t, r).regression = t.regression
           /\ Filed(t, r).repair_rounds = t.repair_rounds
           /\ Clarified(t, r).regression = t.regression
           /\ Clarified(t, r).repair_rounds = t.repair_rounds
           /\ \A k \in Kinds : /\ CheckFailed(t, k).regression = t.regression
                               /\ CheckFailed(t, k).repair_rounds = t.repair_rounds
           /\ Settle(t).regression = t.regression
           /\ Settle(t).repair_rounds = t.repair_rounds
           /\ Settle(t).can_finish_as_success = FALSE
           /\ Decremented(t).regression = t.regression
           /\ Decremented(t).repair_rounds = t.repair_rounds
           /\ Decremented(t).can_finish_as_success = t.can_finish_as_success
<1>1. /\ Merge(t, ids).regression = t.regression
      /\ Merge(t, ids).repair_rounds = t.repair_rounds
      /\ Resolve(t, ids).regression = t.regression
      /\ Resolve(t, ids).repair_rounds = t.repair_rounds
  BY DEF Merge, Resolve, Tasks
<1>2. /\ Filed(t, r).regression = t.regression
      /\ Filed(t, r).repair_rounds = t.repair_rounds
      /\ Clarified(t, r).regression = t.regression
      /\ Clarified(t, r).repair_rounds = t.repair_rounds
      /\ \A k \in Kinds : /\ CheckFailed(t, k).regression = t.regression
                          /\ CheckFailed(t, k).repair_rounds = t.repair_rounds
  BY DEF Filed, Clarified, CheckFailed, Tasks
<1>3. /\ Settle(t).regression = t.regression
      /\ Settle(t).repair_rounds = t.repair_rounds
      /\ Settle(t).can_finish_as_success = FALSE
      /\ Decremented(t).regression = t.regression
      /\ Decremented(t).repair_rounds = t.repair_rounds
      /\ Decremented(t).can_finish_as_success = t.can_finish_as_success
  BY DEF Settle, Decremented, Tasks
<1> QED BY <1>1, <1>2, <1>3

LEMMA RepairGates ==
    ASSUME NEW before \in Tasks, NEW t \in Tasks, NEW targets, NEW r
    PROVE  LET u == RepairPassed(before, t, targets, r)
           IN /\ u.repair_rounds = t.repair_rounds + 1
              /\ ChangedCode(r) => u.regression["test"]
<1> DEFINE s == Resolve(t, targets)
           v == [s EXCEPT !.repair_rounds = @ + 1]
           none == [k \in Kinds |-> "none"]
           owed == [k \in Kinds |->
                       k = "test" \/ t.regression[k] \/ OpenFrom(before, k) # {}]
           nothing == [k \in Kinds |-> FALSE]
<1>1. s \in Tasks /\ s.repair_rounds = t.repair_rounds
  BY FailureTypes, SameGates
<1> HIDE DEF s
<1>2. v \in Tasks /\ v.repair_rounds = t.repair_rounds + 1
  BY <1>1 DEF Tasks
<1>3. owed["test"]
  BY DEF Kinds
<1>4. RepairPassed(before, t, targets, r) =
          IF ChangedCode(r)
          THEN [v EXCEPT !.latest = none, !.regression = owed]
          ELSE [v EXCEPT !.regression = nothing]
  BY DEF RepairPassed, s
<1> HIDE DEF v, none, owed, nothing
<1>5. /\ [v EXCEPT !.latest = none, !.regression = owed].repair_rounds = v.repair_rounds
      /\ [v EXCEPT !.latest = none, !.regression = owed].regression = owed
      /\ [v EXCEPT !.regression = nothing].repair_rounds = v.repair_rounds
  BY <1>2 DEF Tasks
<1> QED BY <1>2, <1>3, <1>4, <1>5

\* A result withdraws the marker; one that is not a passing one keeps the
\* regression flags; a passing repair counts and, if it wrote code, owes a test.
LEMMA AppliedGates ==
    ASSUME NEW t \in Tasks, NEW input \in Inputs, NEW r \in Results[input.worker]
    PROVE  LET u == Decremented(Applied(t, input, r))
           IN /\ ~u.can_finish_as_success
              /\ r.outcome # "passed" =>
                     u.regression = t.regression /\ u.repair_rounds = t.repair_rounds
              /\ r.outcome = "passed" /\ input.worker = "repair" =>
                     /\ u.repair_rounds = t.repair_rounds + 1
                     /\ ChangedCode(r) => u.regression["test"]
<1> DEFINE w == input.worker
           merged == Merge(t, r.failures)
           received == Filed(merged, r)
           Body == CASE r.outcome = "incomplete" -> merged
                     [] r.outcome = "need_clarification" -> Clarified(received, r)
                     [] r.outcome = "passed" /\ w = "dev" -> DevPassed(received)
                     [] r.outcome = "passed" /\ w = "repair" ->
                            RepairPassed(t, received, input.targets, r)
                     [] r.outcome = "passed" /\ w \in Kinds -> CheckPassed(received, w)
                     [] r.outcome = "failed" /\ w \in Kinds -> CheckFailed(received, w)
                     [] OTHER -> received
<1>1. w \in Workers
  BY DEF Inputs
<1>2. merged \in Tasks /\ received \in Tasks
  BY <1>1, FailureTypes, FileTypes
<1>3. /\ merged.regression = t.regression /\ merged.repair_rounds = t.repair_rounds
      /\ received.regression = t.regression /\ received.repair_rounds = t.repair_rounds
  <2>1. merged.regression = t.regression /\ merged.repair_rounds = t.repair_rounds
    BY SameGates
  <2> HIDE DEF merged
  <2>2. received.regression = merged.regression /\ received.repair_rounds = merged.repair_rounds
    BY <1>2, SameGates
  <2> QED BY <2>1, <2>2
<1> HIDE DEF merged, received
<1>4. /\ Clarified(received, r) \in Tasks
      /\ DevPassed(received) \in Tasks
      /\ RepairPassed(t, received, input.targets, r) \in Tasks
      /\ w \in Kinds => CheckPassed(received, w) \in Tasks /\ CheckFailed(received, w) \in Tasks
  BY <1>1, <1>2, ResultTypes
<1>5. Body \in Tasks
  BY <1>2, <1>4
<1>6. r.outcome # "passed" =>
          Body.regression = t.regression /\ Body.repair_rounds = t.repair_rounds
  <2> SUFFICES ASSUME r.outcome # "passed"
               PROVE  Body.regression = t.regression /\ Body.repair_rounds = t.repair_rounds
    OBVIOUS
  <2>1. Body \in {merged, received, Clarified(received, r)} \/ (w \in Kinds /\ Body = CheckFailed(received, w))
    OBVIOUS
  <2>2. /\ Clarified(received, r).regression = t.regression
        /\ Clarified(received, r).repair_rounds = t.repair_rounds
        /\ w \in Kinds => /\ CheckFailed(received, w).regression = t.regression
                          /\ CheckFailed(received, w).repair_rounds = t.repair_rounds
    BY <1>2, <1>3, SameGates
  <2> HIDE DEF Body
  <2> QED BY <1>3, <2>1, <2>2
<1>7. r.outcome = "passed" /\ w = "repair" =>
          /\ Body.repair_rounds = t.repair_rounds + 1
          /\ ChangedCode(r) => Body.regression["test"]
  <2> SUFFICES ASSUME r.outcome = "passed", w = "repair"
               PROVE  /\ Body.repair_rounds = t.repair_rounds + 1
                      /\ ChangedCode(r) => Body.regression["test"]
    OBVIOUS
  <2>1. Body = RepairPassed(t, received, input.targets, r)
    BY DEF Kinds
  <2> HIDE DEF Body
  <2> QED BY <2>1, <1>2, <1>3, RepairGates
<1>8. Applied(t, input, r) = Settle(Body)
  BY DEF Applied, merged, received
<1> HIDE DEF Body
<1> DEFINE v == Settle(Body)
<1>9. /\ v \in Tasks /\ v.can_finish_as_success = FALSE
      /\ v.regression = Body.regression /\ v.repair_rounds = Body.repair_rounds
  BY <1>5, FailureTypes, SameGates
<1> HIDE DEF v
<1> DEFINE u == Decremented(v)
<1>10. /\ u.can_finish_as_success = FALSE
       /\ u.regression = Body.regression /\ u.repair_rounds = Body.repair_rounds
  BY <1>9, SameGates
<1> HIDE DEF u
<1>11. Decremented(Applied(t, input, r)) = u
  BY <1>8 DEF u, v
<1> QED BY <1>6, <1>7, <1>10, <1>11

LEMMA ValidatedGates ==
    ASSUME NEW t \in Tasks, NEW type, NEW passed \in BOOLEAN, NEW ids
    PROVE  LET u == Validated(t, type, passed, ids)
           IN /\ ~u.can_finish_as_success
              /\ u.repair_rounds = t.repair_rounds
              /\ ~(passed /\ type \in Kinds) => (u.regression["test"] <=> t.regression["test"])
<1> DEFINE d == [t EXCEPT !.required = [k \in Kinds |-> t.required[k] \/ k = type]]
           s == Resolve(d, IF ids = {} THEN OpenFrom(d, type) ELSE ids)
           checks == Kinds \cap {type}
           latest == [k \in Kinds |-> IF k \in checks THEN "passed" ELSE t.latest[k]]
           regression == [k \in Kinds |-> k \notin checks /\ t.regression[k]]
           v == [s EXCEPT !.reports = @ \cup checks, !.latest = latest, !.regression = regression]
           Body == IF passed THEN v ELSE d
<1>1. /\ d \in Tasks /\ d.failures = t.failures
      /\ d.regression = t.regression /\ d.repair_rounds = t.repair_rounds
  <2>1. t.required \in [Kinds -> BOOLEAN]
    BY DEF Tasks
  <2> QED BY <2>1 DEF Tasks
<1>2. OpenFrom(t, type) = OpenFrom(d, type)
  BY <1>1 DEF OpenFrom, OpenFailures
<1> HIDE DEF d
<1>3. s \in Tasks /\ s.repair_rounds = d.repair_rounds
  BY <1>1, FailureTypes, SameGates
<1>4. /\ latest \in [Kinds -> {"none", "passed", "failed"}] /\ regression \in [Kinds -> BOOLEAN]
      /\ type \notin Kinds => (regression["test"] <=> t.regression["test"])
  BY DEF Tasks, Kinds
<1>5. Validated(t, type, passed, ids) = Settle(Body)
  BY <1>2 DEF Validated, d
<1> HIDE DEF s, latest, regression
<1>6. v \in Tasks /\ v.regression = regression /\ v.repair_rounds = s.repair_rounds
  BY <1>3, <1>4 DEF Tasks
<1> HIDE DEF v
<1>7. /\ Body \in Tasks /\ Body.repair_rounds = t.repair_rounds
      /\ ~(passed /\ type \in Kinds) => (Body.regression["test"] <=> t.regression["test"])
  BY <1>1, <1>3, <1>4, <1>6
<1> HIDE DEF Body
<1>8. /\ Settle(Body).can_finish_as_success = FALSE
      /\ Settle(Body).repair_rounds = Body.repair_rounds
      /\ Settle(Body).regression = Body.regression
  BY <1>7, SameGates
<1> QED BY <1>5, <1>7, <1>8

\* The same for the two actions.
LEMMA ResultGates ==
    ASSUME TypeOK, NEW r, ApplyResult(r)
    PROVE  /\ job.input.worker \in Workers /\ r \in Results[job.input.worker]
           /\ ~task'.can_finish_as_success
           /\ r.outcome # "passed" =>
                  task'.regression = task.regression /\ task'.repair_rounds = task.repair_rounds
           /\ r.outcome = "passed" /\ job.input.worker = "repair" =>
                  /\ task'.repair_rounds = task.repair_rounds + 1
                  /\ ChangedCode(r) => task'.regression["test"]
<1> DEFINE u == Decremented(Applied(task, job.input, r))
<1>1. /\ job.input \in Inputs /\ job.input.worker \in Workers
      /\ r \in Results[job.input.worker] /\ task \in Tasks
  BY JobFacts DEF ApplyResult, TypeOK
<1>2. /\ ~u.can_finish_as_success
      /\ r.outcome # "passed" =>
             u.regression = task.regression /\ u.repair_rounds = task.repair_rounds
      /\ r.outcome = "passed" /\ job.input.worker = "repair" =>
             /\ u.repair_rounds = task.repair_rounds + 1
             /\ ChangedCode(r) => u.regression["test"]
  BY <1>1, AppliedGates
<1>3. task' = u
  BY DEF ApplyResult
<1> HIDE DEF u
<1> QED BY <1>1, <1>2, <1>3

LEMMA ReportGates ==
    ASSUME TypeOK, NEW type, NEW passed \in BOOLEAN, NEW ids,
           RecordValidation(type, passed, ids)
    PROVE  /\ ~task'.can_finish_as_success
           /\ task'.repair_rounds = task.repair_rounds
           /\ ~(passed /\ type \in Kinds) => (task'.regression["test"] <=> task.regression["test"])
<1> DEFINE u == Validated(task, type, passed, ids)
<1>1. /\ ~u.can_finish_as_success
      /\ u.repair_rounds = task.repair_rounds
      /\ ~(passed /\ type \in Kinds) => (u.regression["test"] <=> task.regression["test"])
  BY ValidatedGates DEF TypeOK
<1>2. task' = u
  BY DEF RecordValidation
<1> HIDE DEF u
<1> QED BY <1>1, <1>2

LEMMA SuccessStep ==
    ASSUME TypeOK, SuccessMarkerIsClean, [Next]_vars
    PROVE  SuccessMarkerIsClean'
<1>1. ASSUME NEW r, ApplyResult(r) PROVE SuccessMarkerIsClean'
  BY <1>1, ResultGates DEF SuccessMarkerIsClean
<1>2. ASSUME NEW type, NEW passed \in BOOLEAN, NEW ids, RecordValidation(type, passed, ids)
      PROVE  SuccessMarkerIsClean'
  BY <1>2, ReportGates DEF SuccessMarkerIsClean
<1>3. CASE Quiet
  BY <1>3 DEF Quiet, SuccessMarkerIsClean, GatePasses, OpenFailures
<1> QED BY <1>1, <1>2, <1>3, QuietSteps

\* The pass of the Quality Gate does not survive a failure or an owed regression
\* test that appears after it.
THEOREM CleanSuccess == Spec => []SuccessMarkerIsClean
<1>1. Init => SuccessMarkerIsClean
  BY DEF Init, SuccessMarkerIsClean
<1>2. TypeOK /\ SuccessMarkerIsClean /\ [Next]_vars => SuccessMarkerIsClean'
  BY SuccessStep
<1> QED BY <1>1, <1>2, TypeCorrect, PTL DEF Spec

\* What the first repair owes: the number of repairs tells it from later ones,
\* which may drop the debt.
RepairInv ==
    repaired \in CodePaths \ XmlPaths =>
        /\ task.repair_rounds >= 1
        /\ task.repair_rounds <= 1 => task.regression["test"]

LEMMA RepairStep ==
    ASSUME TypeOK, RepairInv, [Next]_vars
    PROVE  RepairInv'
<1>0. task.repair_rounds \in Nat
  BY DEF TypeOK, Tasks
<1>1. ASSUME NEW r, ApplyResult(r) PROVE RepairInv'
  <2> DEFINE w == job.input.worker
  <2>1. repaired' = RepairedAfter(job.input, r)
    BY <1>1 DEF ApplyResult
  <2>2. CASE r.outcome # "passed"
    BY <1>1, <2>1, <2>2, ResultGates DEF RepairedAfter, RepairInv
  <2>3. CASE r.outcome = "passed" /\ w # "repair"
    BY <2>1, <2>3, EvidenceAssumption DEF RepairedAfter, RepairInv
  <2>4. CASE r.outcome = "passed" /\ w = "repair"
    <3>1. /\ task'.repair_rounds = task.repair_rounds + 1
          /\ ChangedCode(r) => task'.regression["test"]
      BY <1>1, <2>4, ResultGates
    <3>2. repaired' \in {repaired, r.code}
      BY <2>1, <2>4 DEF RepairedAfter
    <3>3. task'.repair_rounds >= 1 /\ (task'.repair_rounds <= 1 => ~(task.repair_rounds >= 1))
      BY <1>0, <3>1
    <3>5. r.code \in CodePaths \ XmlPaths => ChangedCode(r)
      BY DEF ChangedCode
    <3> QED BY <3>1, <3>2, <3>3, <3>5 DEF RepairInv
  <2> QED BY <2>2, <2>3, <2>4
<1>2. ASSUME NEW type, NEW passed \in BOOLEAN, NEW ids, RecordValidation(type, passed, ids)
      PROVE  RepairInv'
  <2>1. repaired' = IF passed /\ type \in Kinds THEN NoPath ELSE repaired
    BY <1>2 DEF RecordValidation
  <2>2. NoPath \notin CodePaths
    BY EvidenceAssumption
  <2> QED BY <1>2, <2>1, <2>2, ReportGates DEF RepairInv
<1>3. CASE Quiet
  BY <1>3 DEF Quiet, RepairInv
<1> QED BY <1>1, <1>2, <1>3, QuietSteps

\* Code that the first repair wrote never passes the Quality Gate unchecked,
\* unless it is an XML file, which is no code to _repair_changed_code.  (The run
\* EvidenceSecondRepair shows that "first" cannot be dropped.)
THEOREM FirstRepair == Spec => []FirstRepairIsRetested
<1>1. Init => RepairInv
  BY EvidenceAssumption DEF Init, RepairInv
<1>2. TypeOK /\ RepairInv /\ [Next]_vars => RepairInv'
  BY RepairStep
<1>3. TypeOK /\ RepairInv /\ SuccessMarkerIsClean => FirstRepairIsRetested
  BY DEF TypeOK, RepairInv, SuccessMarkerIsClean, FirstRepairIsRetested, Kinds
<1> QED BY <1>1, <1>2, <1>3, TypeCorrect, CleanSuccess, PTL DEF Spec

-----------------------------------------------------------------------------
(* The row of a task stays readable: no counter passes its limit, though   *)
(* limits are looked at when calls are admitted and counters go up later,  *)
(* one call after the other, and back again when a call raises.            *)

(* What the parts of a projection do to the budget and to the status. *)

Keeps(t, u) == u.calls = t.calls /\ u.status = t.status

LEMMA SameBudget ==
    ASSUME NEW t \in Tasks, NEW r, NEW ids
    PROVE  /\ Keeps(t, Merge(t, ids)) /\ Keeps(t, Resolve(t, ids)) /\ Keeps(t, Filed(t, r))
           /\ Keeps(t, Settle(t)) /\ Keeps(t, Decremented(t)) /\ Keeps(t, DevPassed(t))
           /\ \A k \in Kinds : Keeps(t, CheckFailed(t, k))
           /\ Clarified(t, r).calls = t.calls
           /\ Clarified(t, r).status \in {t.status, "waiting_user"}
           /\ DevPassed(t).repair_rounds = t.repair_rounds
<1>1. Keeps(t, Merge(t, ids)) /\ Keeps(t, Resolve(t, ids)) /\ Keeps(t, Filed(t, r))
  BY DEF Keeps, Merge, Resolve, Filed, Tasks
<1>2. Keeps(t, Settle(t)) /\ Keeps(t, Decremented(t)) /\ Keeps(t, DevPassed(t))
  BY DEF Keeps, Settle, Decremented, DevPassed, Tasks
<1>3. \A k \in Kinds : Keeps(t, CheckFailed(t, k))
  BY DEF Keeps, CheckFailed, Tasks
<1>4. Clarified(t, r).calls = t.calls /\ Clarified(t, r).status \in {t.status, "waiting_user"}
  BY DEF Clarified, Tasks
<1>5. DevPassed(t).repair_rounds = t.repair_rounds
  BY DEF DevPassed, Tasks
<1> QED BY <1>1, <1>2, <1>3, <1>4, <1>5

LEMMA CheckPassedBudget ==
    ASSUME NEW t \in Tasks, NEW k \in Kinds
    PROVE  Keeps(t, CheckPassed(t, k)) /\ CheckPassed(t, k).repair_rounds = t.repair_rounds
<1> DEFINE s == Resolve(t, OpenFrom(t, k))
           u == [s EXCEPT !.required[k] = TRUE, !.latest[k] = "passed",
                          !.regression[k] = FALSE]
<1>1. s \in Tasks /\ Keeps(t, s) /\ s.repair_rounds = t.repair_rounds
  BY FailureTypes, SameBudget, SameGates
<1>2. CheckPassed(t, k) = u
  BY DEF CheckPassed
<1> HIDE DEF s
<1>3. Keeps(s, u) /\ u.repair_rounds = s.repair_rounds
  BY <1>1 DEF Tasks, Keeps
<1> QED BY <1>1, <1>2, <1>3 DEF Keeps

LEMMA RepairBudget ==
    ASSUME NEW before \in Tasks, NEW t \in Tasks, NEW targets, NEW r
    PROVE  Keeps(t, RepairPassed(before, t, targets, r))
<1> DEFINE s == Resolve(t, targets)
           v == [s EXCEPT !.repair_rounds = @ + 1]
           none == [k \in Kinds |-> "none"]
           owed == [k \in Kinds |->
                       k = "test" \/ t.regression[k] \/ OpenFrom(before, k) # {}]
           nothing == [k \in Kinds |-> FALSE]
<1>1. s \in Tasks /\ Keeps(t, s)
  BY FailureTypes, SameBudget
<1> HIDE DEF s
<1>2. v \in Tasks /\ Keeps(s, v)
  BY <1>1 DEF Tasks, Keeps
<1>3. RepairPassed(before, t, targets, r) =
          IF ChangedCode(r)
          THEN [v EXCEPT !.latest = none, !.regression = owed]
          ELSE [v EXCEPT !.regression = nothing]
  BY DEF RepairPassed, s
<1> HIDE DEF v, none, owed, nothing
<1>4. /\ Keeps(v, [v EXCEPT !.latest = none, !.regression = owed])
      /\ Keeps(v, [v EXCEPT !.regression = nothing])
  BY <1>2 DEF Tasks, Keeps
<1> QED BY <1>1, <1>2, <1>3, <1>4 DEF Keeps

\* A result keeps the budget; it ends no task, and only a repair counts a round.
LEMMA AppliedBudget ==
    ASSUME NEW t \in Tasks, NEW input \in Inputs, NEW r \in Results[input.worker]
    PROVE  LET u == Decremented(Applied(t, input, r))
           IN /\ u.calls = t.calls /\ u.status \in {t.status, "waiting_user"}
              /\ input.worker # "repair" => u.repair_rounds = t.repair_rounds
<1> DEFINE w == input.worker
           merged == Merge(t, r.failures)
           received == Filed(merged, r)
           Body == CASE r.outcome = "incomplete" -> merged
                     [] r.outcome = "need_clarification" -> Clarified(received, r)
                     [] r.outcome = "passed" /\ w = "dev" -> DevPassed(received)
                     [] r.outcome = "passed" /\ w = "repair" ->
                            RepairPassed(t, received, input.targets, r)
                     [] r.outcome = "passed" /\ w \in Kinds -> CheckPassed(received, w)
                     [] r.outcome = "failed" /\ w \in Kinds -> CheckFailed(received, w)
                     [] OTHER -> received
<1>1. w \in Workers
  BY DEF Inputs
<1>2. merged \in Tasks /\ received \in Tasks
  BY <1>1, FailureTypes, FileTypes
<1>3. /\ Keeps(t, merged) /\ merged.repair_rounds = t.repair_rounds
      /\ Keeps(t, received) /\ received.repair_rounds = t.repair_rounds
  <2>1. Keeps(t, merged) /\ merged.repair_rounds = t.repair_rounds
    BY SameBudget, SameGates
  <2> HIDE DEF merged
  <2>2. Keeps(merged, received) /\ received.repair_rounds = merged.repair_rounds
    BY <1>2, SameBudget, SameGates
  <2> QED BY <2>1, <2>2 DEF Keeps
<1> HIDE DEF merged, received
<1>4. /\ Clarified(received, r) \in Tasks
      /\ DevPassed(received) \in Tasks
      /\ RepairPassed(t, received, input.targets, r) \in Tasks
      /\ w \in Kinds => CheckPassed(received, w) \in Tasks /\ CheckFailed(received, w) \in Tasks
  BY <1>1, <1>2, ResultTypes
<1>5. Body \in Tasks
  BY <1>2, <1>4
<1> DEFINE Fine(x) == /\ x.calls = t.calls /\ x.status \in {t.status, "waiting_user"}
                      /\ w # "repair" => x.repair_rounds = t.repair_rounds
<1>6. Fine(Body)
  <2>1. Fine(merged) /\ Fine(received)
    BY <1>3 DEF Keeps
  <2>2. Fine(Clarified(received, r))
    <3>1. /\ Clarified(received, r).calls = received.calls
          /\ Clarified(received, r).status \in {received.status, "waiting_user"}
          /\ Clarified(received, r).repair_rounds = received.repair_rounds
      BY <1>2, SameBudget, SameGates
    <3> QED BY <2>1, <3>1
  <2>3. Fine(DevPassed(received))
    BY <1>2, <1>3, SameBudget DEF Keeps
  <2>4. w = "repair" => Fine(RepairPassed(t, received, input.targets, r))
    BY <1>2, <1>3, RepairBudget DEF Keeps
  <2>5. w \in Kinds => Fine(CheckPassed(received, w)) /\ Fine(CheckFailed(received, w))
    BY <1>2, <1>3, CheckPassedBudget, SameBudget, SameGates DEF Keeps
  <2>6. \/ Body \in {merged, received, Clarified(received, r), DevPassed(received)}
        \/ w = "repair" /\ Body = RepairPassed(t, received, input.targets, r)
        \/ w \in Kinds /\ Body \in {CheckPassed(received, w), CheckFailed(received, w)}
    OBVIOUS
  <2> HIDE DEF Body, Fine
  <2> QED BY <2>1, <2>2, <2>3, <2>4, <2>5, <2>6
<1>7. Applied(t, input, r) = Settle(Body)
  BY DEF Applied, merged, received
<1> HIDE DEF Body
<1> DEFINE v == Settle(Body)
<1>8. v \in Tasks /\ Keeps(Body, v) /\ v.repair_rounds = Body.repair_rounds
  BY <1>5, FailureTypes, SameBudget, SameGates
<1> HIDE DEF v
<1> DEFINE u == Decremented(v)
<1>9. Keeps(v, u) /\ u.repair_rounds = v.repair_rounds
  BY <1>8, SameBudget, SameGates
<1> HIDE DEF u
<1>10. Decremented(Applied(t, input, r)) = u
  BY <1>7 DEF u, v
<1> QED BY <1>6, <1>8, <1>9, <1>10 DEF Keeps

LEMMA ValidatedBudget ==
    ASSUME NEW t \in Tasks, NEW type, NEW passed \in BOOLEAN, NEW ids
    PROVE  Keeps(t, Validated(t, type, passed, ids))
<1> DEFINE d == [t EXCEPT !.required = [k \in Kinds |-> t.required[k] \/ k = type]]
           s == Resolve(d, IF ids = {} THEN OpenFrom(d, type) ELSE ids)
           checks == Kinds \cap {type}
           latest == [k \in Kinds |-> IF k \in checks THEN "passed" ELSE t.latest[k]]
           regression == [k \in Kinds |-> k \notin checks /\ t.regression[k]]
           v == [s EXCEPT !.reports = @ \cup checks, !.latest = latest, !.regression = regression]
           Body == IF passed THEN v ELSE d
<1>1. d \in Tasks /\ d.failures = t.failures /\ Keeps(t, d)
  <2>1. t.required \in [Kinds -> BOOLEAN]
    BY DEF Tasks
  <2> QED BY <2>1 DEF Tasks, Keeps
<1>2. OpenFrom(t, type) = OpenFrom(d, type)
  BY <1>1 DEF OpenFrom, OpenFailures
<1> HIDE DEF d
<1>3. s \in Tasks /\ Keeps(d, s)
  BY <1>1, FailureTypes, SameBudget
<1>4. latest \in [Kinds -> {"none", "passed", "failed"}] /\ regression \in [Kinds -> BOOLEAN]
  BY DEF Tasks
<1>5. Validated(t, type, passed, ids) = Settle(Body)
  BY <1>2 DEF Validated, d
<1> HIDE DEF s, latest, regression
<1>6. v \in Tasks /\ Keeps(s, v)
  BY <1>3, <1>4 DEF Tasks, Keeps
<1> HIDE DEF v
<1>7. Body \in Tasks /\ Keeps(t, Body)
  BY <1>1, <1>3, <1>6 DEF Keeps
<1> HIDE DEF Body
<1> QED BY <1>5, <1>7, SameBudget DEF Keeps

-----------------------------------------------------------------------------
(* What is admitted fits, with what runs; a repair is admitted alone and runs *)
(* alone, below the limit of rounds; what a job remembers fits as well.       *)

Admitted ==
    /\ task.active + Len(queue) <= MaxParallelWorkers
    /\ task.calls + Len(queue) <= MaxWorkerCalls
    /\ \A n \in DOMAIN queue : queue[n].worker = "repair" =>
           Len(queue) = 1 /\ job = NoJob /\ task.repair_rounds < MaxRepairRounds
Remembered ==
    job # NoJob =>
        /\ job.active + Len(queue) <= MaxParallelWorkers
        /\ job.calls + Len(queue) <= MaxWorkerCalls
        /\ job.input.worker = "repair" => queue = <<>> /\ task.repair_rounds < MaxRepairRounds
Clean == task.status = "succeeded" => ~task.has_blocking_failure
LimitsInv == task.repair_rounds <= MaxRepairRounds /\ Admitted /\ Remembered /\ Clean

\* Steps that leave counters and jobs alone.
LEMMA LimitsFrame ==
    ASSUME TypeOK, LimitsInv, UNCHANGED <<queue, job>>, task'.active = task.active,
           task'.calls = task.calls, task'.repair_rounds = task.repair_rounds, Clean'
    PROVE  LimitsInv'
BY DEF LimitsInv, Admitted, Remembered

LEMMA ProposeLimits ==
    ASSUME TypeOK, LimitsInv, NEW w \in Workers, ProposeWorker(w)
    PROVE  LimitsInv'
<1>0. /\ task \in Tasks /\ task' = Prepared(task, w) /\ task' \in Tasks /\ UNCHANGED job
      /\ job = NoJob /\ task.status # "succeeded" /\ queue = <<>>
  BY ProposeTypes DEF TypeOK, ProposeWorker, MayCallTool
<1>1. /\ task'.active = task.active /\ task'.repair_rounds = task.repair_rounds
      /\ task'.calls = task.calls /\ task'.status \in {task.status, "running"}
  <2> DEFINE s == [task EXCEPT !.required = [k \in Kinds |-> task.required[k] \/ k = w]]
             u == [s EXCEPT !.status = "running",
                            !.type = IF w \in Kinds THEN w ELSE "development"]
  <2>1. s \in Tasks /\ Keeps(task, s)
    <3>1. task.required \in [Kinds -> BOOLEAN]
      BY <1>0 DEF Tasks
    <3> QED BY <1>0, <3>1 DEF Tasks, Keeps
  <2> HIDE DEF s
  <2>2. u.calls = s.calls /\ u.status = "running"
    BY <2>1 DEF Tasks
  <2>3. task' = s \/ task' = u
    BY <1>0 DEF Prepared, s
  <2>4. task'.calls = task.calls /\ task'.status \in {task.status, "running"}
    <3> HIDE DEF u
    <3> QED BY <2>1, <2>2, <2>3 DEF Keeps
  <2> QED BY <1>0, <2>4, PreparedFacts
<1>2. CASE queue' = <<>>
  <2>1. Len(queue) = 0 /\ Len(queue') = 0 /\ DOMAIN queue' = {}
    BY <1>0, <1>2
  <2>2. task.active \in Nat /\ task.calls \in Nat
    BY <1>0 DEF Tasks
  <2> QED BY <1>0, <1>1, <2>1, <2>2 DEF LimitsInv, Admitted, Remembered, Clean
<1>3. CASE WorkerCallAllowed(task', w) /\ queue' = <<Input(task', w)>>
  <2>1. Len(queue') = 1 /\ DOMAIN queue' = {1} /\ queue'[1].worker = w
    BY <1>3 DEF Input
  <2>2. /\ task'.active + 1 <= MaxParallelWorkers /\ task'.calls < MaxWorkerCalls
        /\ w = "repair" => task'.repair_rounds < MaxRepairRounds
    BY <1>3 DEF WorkerCallAllowed, CommonPreconditions, RepairAllowed
  <2>3. task'.calls \in Nat /\ MaxWorkerCalls \in Nat
    BY <1>0, EvidenceAssumption DEF Tasks
  <2> QED BY <1>0, <1>1, <2>1, <2>2, <2>3 DEF LimitsInv, Admitted, Remembered, Clean
<1> QED BY <1>2, <1>3 DEF ProposeWorker

LEMMA BatchLimits ==
    ASSUME TypeOK, LimitsInv, NEW batch \in Batches, ProposeBatch(batch)
    PROVE  LimitsInv'
<1>1. /\ task' = task /\ job' = job /\ job = NoJob /\ batch \in Seq(Workers)
      /\ BatchAllowed(task, batch) /\ queue' = [n \in DOMAIN batch |-> Input(task, batch[n])]
  BY EvidenceAssumption DEF ProposeBatch, MayCallTool
<1>2. Len(queue') = Len(batch) /\ DOMAIN queue' = DOMAIN batch
  BY <1>1
<1>3. \A n \in DOMAIN batch : queue'[n].worker # "repair"
  BY <1>1 DEF BatchAllowed, Input
<1> QED BY <1>1, <1>2, <1>3 DEF BatchAllowed, LimitsInv, Admitted, Remembered, Clean

LEMMA OneForOne == \A m, n \in Nat : (m + 1) + (n - 1) = m + n
  OBVIOUS

LEMMA OneLess == \A m, n, max \in Nat : m + n <= max => m + (n - 1) <= max
  OBVIOUS

LEMMA StartLimits ==
    ASSUME TypeOK, LimitsInv, StartJob
    PROVE  LimitsInv'
<1>1. /\ task \in Tasks /\ queue \in Seq(Inputs) /\ queue # <<>> /\ queue' = Tail(queue)
      /\ job = NoJob
      /\ job' = [input |-> Head(queue), active |-> task.active, calls |-> task.calls]
  BY DEF TypeOK, StartJob
<1>2. /\ task'.active = task.active + 1 /\ task'.calls = task.calls + 1
      /\ task'.repair_rounds = task.repair_rounds /\ task'.status = task.status
      /\ task'.has_blocking_failure = task.has_blocking_failure
  BY <1>1 DEF StartJob, Tasks
<1>3. /\ Len(queue') = Len(queue) - 1 /\ Len(queue) \in Nat /\ 1 \in DOMAIN queue
      /\ Head(queue) = queue[1]
      /\ \A n \in DOMAIN queue' : n + 1 \in DOMAIN queue /\ queue'[n] = queue[n + 1]
      /\ Len(queue) = 1 => queue' = <<>>
      /\ \A n \in DOMAIN queue' : Len(queue) # 1
  BY <1>1
<1>4. job'.input = queue[1] /\ job'.active = task.active /\ job'.calls = task.calls
  BY <1>1, <1>3
<1>5. task.active \in Nat /\ task.calls \in Nat
  BY <1>1 DEF Tasks
<1>6. Len(queue) \in Nat /\ Len(queue') = Len(queue) - 1
  BY <1>3
<1>7. Admitted'
  <2>1. \A n \in DOMAIN queue' : queue'[n].worker # "repair"
    BY <1>3 DEF LimitsInv, Admitted
  <2>2. /\ task'.active + Len(queue') <= MaxParallelWorkers
        /\ task'.calls + Len(queue') <= MaxWorkerCalls
    <3>1. /\ task'.active + Len(queue') = task.active + Len(queue)
          /\ task'.calls + Len(queue') = task.calls + Len(queue)
      BY <1>2, <1>5, <1>6, OneForOne
    <3> QED BY <3>1 DEF LimitsInv, Admitted
  <2> QED BY <2>1, <2>2 DEF Admitted
<1>8. Remembered'
  <2>1. job'.input.worker = "repair" => queue' = <<>> /\ task'.repair_rounds < MaxRepairRounds
    BY <1>2, <1>3, <1>4 DEF LimitsInv, Admitted
  <2>2. /\ job'.active + Len(queue') <= MaxParallelWorkers
        /\ job'.calls + Len(queue') <= MaxWorkerCalls
    <3>1. /\ task.active + Len(queue) <= MaxParallelWorkers
          /\ task.calls + Len(queue) <= MaxWorkerCalls
          /\ MaxParallelWorkers \in Nat /\ MaxWorkerCalls \in Nat
      BY EvidenceAssumption DEF LimitsInv, Admitted
    <3> QED BY <1>4, <1>5, <1>6, <3>1, OneLess
  <2> QED BY <2>1, <2>2 DEF Remembered
<1> QED BY <1>2, <1>7, <1>8 DEF LimitsInv, Clean

LEMMA ResultLimits ==
    ASSUME TypeOK, LimitsInv, NEW r, ApplyResult(r)
    PROVE  LimitsInv'
<1>1. /\ task \in Tasks /\ job # NoJob /\ job \in Jobs /\ job.input \in Inputs
      /\ r \in Results[job.input.worker] /\ job' = NoJob /\ queue' = queue
      /\ task' = Decremented(Applied(task, job.input, r)) /\ task.status # "succeeded"
  BY JobFacts DEF ApplyResult, TypeOK, ResultCounts, IsTerminal, Terminal
<1>2. /\ task'.calls = task.calls /\ task'.status \in {task.status, "waiting_user"}
      /\ job.input.worker # "repair" => task'.repair_rounds = task.repair_rounds
  BY <1>1, AppliedBudget
<1>3. task'.active = IF task.active > 0 THEN task.active - 1 ELSE 0
  BY ResultFacts
<1>4. /\ task.active \in Nat /\ task.repair_rounds \in Nat /\ Len(queue) \in Nat
      /\ MaxRepairRounds \in Nat /\ MaxParallelWorkers \in Nat
  BY <1>1, EvidenceAssumption DEF Tasks, TypeOK
<1>5. task'.repair_rounds <= MaxRepairRounds
  <2>1. CASE job.input.worker # "repair"
    BY <2>1, <1>2 DEF LimitsInv
  <2>2. CASE job.input.worker = "repair"
    <3>1. task.repair_rounds < MaxRepairRounds
      BY <1>1, <2>2 DEF LimitsInv, Remembered
    <3>2. task'.repair_rounds \in {task.repair_rounds, task.repair_rounds + 1}
      BY <2>2, ResultGates
    <3> QED BY <1>4, <3>1, <3>2
  <2> QED BY <2>1, <2>2
<1>6. \A n \in DOMAIN queue : queue[n].worker # "repair"
  BY <1>1 DEF LimitsInv, Admitted
<1>7. Admitted'
  BY <1>1, <1>2, <1>3, <1>4, <1>6 DEF LimitsInv, Admitted
<1> QED BY <1>1, <1>2, <1>5, <1>7 DEF LimitsInv, Remembered, Clean

\* A call whose result is ignored or that raises.
LEMMA ReturnLimits ==
    ASSUME TypeOK, LimitsInv, RetainResult \/ JobRaises
    PROVE  LimitsInv'
<1>1. task \in Tasks /\ job # NoJob /\ job' = NoJob /\ queue' = queue
  BY DEF TypeOK, RetainResult, JobRaises
<1>2. /\ task'.repair_rounds = task.repair_rounds /\ task'.status = task.status
      /\ task'.has_blocking_failure = task.has_blocking_failure
      /\ \/ task'.calls = task.calls
            /\ task'.active = IF task.active > 0 THEN task.active - 1 ELSE 0
         \/ task'.calls = job.calls /\ task'.active = job.active
  <2>1. CASE RetainResult
    BY <1>1, <2>1 DEF RetainResult, Decremented, Tasks
  <2>2. CASE JobRaises
    BY <1>1, <2>2 DEF JobRaises, Restored, Tasks
  <2> QED BY <2>1, <2>2
<1>3. task.active \in Nat /\ Len(queue) \in Nat /\ MaxParallelWorkers \in Nat
  BY <1>1, EvidenceAssumption DEF Tasks, TypeOK
<1>4. \A n \in DOMAIN queue : queue[n].worker # "repair"
  BY <1>1 DEF LimitsInv, Admitted
<1>5. Admitted'
  BY <1>1, <1>2, <1>3, <1>4 DEF LimitsInv, Admitted, Remembered
<1> QED BY <1>1, <1>2, <1>5 DEF LimitsInv, Remembered, Clean

LEMMA LimitsStep ==
    ASSUME TypeOK, FlagTruthful, LimitsInv, [Next]_vars
    PROVE  LimitsInv'
<1>0. task \in Tasks
  BY DEF TypeOK
<1>1. MayCallTool => task.status # "succeeded"
  BY DEF MayCallTool
<1> DEFINE Frame == /\ UNCHANGED <<queue, job>> /\ task'.active = task.active
                    /\ task'.calls = task.calls /\ task'.repair_rounds = task.repair_rounds
                    /\ task'.status # "succeeded"
<1>2. Frame => LimitsInv'
  BY LimitsFrame DEF Clean
<1>3. ASSUME NEW type, NEW passed \in BOOLEAN, NEW ids, RecordValidation(type, passed, ids)
      PROVE  Frame
  <2>1. task' = Validated(task, type, passed, ids) /\ UNCHANGED <<queue, job>>
    BY <1>3 DEF RecordValidation
  <2>2. Keeps(task, task') /\ task'.active = task.active
    BY <1>0, <2>1, ValidatedBudget, ValidatedFacts
  <2>3. task'.repair_rounds = task.repair_rounds
    BY <1>3, ReportGates
  <2> QED BY <1>1, <1>3, <2>1, <2>2, <2>3 DEF Keeps, RecordValidation
<1>4. ASSUME \/ RunQualityGate
             \/ \E p \in CodePaths : WriteCode(p)
             \/ \E k \in Kinds : WriteReport(k)
             \/ EditInPlace
             \/ \E required \in BOOLEAN : RequestClarification(required)
      PROVE  Frame
  BY <1>0, <1>1, <1>4
     DEF RunQualityGate, WriteCode, WriteReport, EditInPlace, RequestClarification, Tasks
<1>5. ASSUME NEW plan \in Plans, UpdatePlan(plan) PROVE Frame
  <2> DEFINE required == [k \in Kinds |->
                 Demand(plan, k) = "yes" \/ (Demand(plan, k) = "keep" /\ task.required[k])]
  <2>1. task' = [task EXCEPT !.status = "running", !.type = plan.type,
                             !.required = required, !.can_finish_as_success = FALSE]
    BY <1>5 DEF UpdatePlan
  <2> HIDE DEF required
  <2> QED BY <1>0, <1>5, <2>1 DEF UpdatePlan, Tasks
<1>6. CASE ToolStep
  BY <1>2, <1>3, <1>4, <1>5, <1>6, ProposeLimits, BatchLimits DEF ToolStep
<1>7. CASE JobStep
  BY <1>7, StartLimits, ResultLimits, ReturnLimits DEF JobStep
<1>8. CASE AnswerQuestions
  <2>1. Frame
    BY <1>0, <1>8 DEF AnswerQuestions, Tasks
  <2> QED BY <1>2, <2>1
<1>9. CASE Cancel
  <2>1. /\ task'.active = 0 /\ task'.calls = task.calls /\ UNCHANGED <<queue, job>>
        /\ task'.repair_rounds = task.repair_rounds /\ task'.status = "cancelled"
    BY <1>0, <1>9 DEF Cancel, Tasks
  <2>2. task.active \in Nat /\ Len(queue) \in Nat /\ MaxParallelWorkers \in Nat
    BY <1>0, EvidenceAssumption DEF Tasks, TypeOK
  <2> QED BY <2>1, <2>2 DEF LimitsInv, Admitted, Remembered, Clean
<1>10. ASSUME NEW final \in {"succeeded", "failed"}, Finish(final) PROVE LimitsInv'
  <2>1. /\ UNCHANGED <<queue, job>> /\ task'.active = task.active
        /\ task'.calls = task.calls /\ task'.repair_rounds = task.repair_rounds
        /\ task'.status = final /\ task'.has_blocking_failure = task.has_blocking_failure
    BY <1>0, <1>10 DEF Finish, Tasks
  <2>2. final = "succeeded" => ~task.has_blocking_failure
    BY <1>10 DEF Finish, FlagTruthful
  <2> QED BY <2>1, <2>2, LimitsFrame DEF Clean
<1>11. CASE UNCHANGED vars
  BY <1>11 DEF vars, LimitsInv, Admitted, Remembered, Clean
<1> QED BY <1>6, <1>7, <1>8, <1>9, <1>10, <1>11 DEF Next

\* TaskState.model_validate never refuses a row that the tools and handlers of an
\* episode have written: the limits hold, and success has no blocking failure.
THEOREM Readable == Spec => []RowReadable
<1>1. Init => LimitsInv
  BY EvidenceAssumption DEF Init, LimitsInv, Admitted, Remembered, Clean
<1>2. TypeOK /\ FlagTruthful /\ LimitsInv /\ [Next]_vars => LimitsInv'
  BY LimitsStep
<1>3. TypeOK /\ LimitsInv => RowReadable
  <2> SUFFICES ASSUME TypeOK, LimitsInv PROVE RowReadable
    OBVIOUS
  <2>1. /\ task.active \in Nat /\ task.calls \in Nat /\ Len(queue) \in Nat
        /\ MaxParallelWorkers \in Nat /\ MaxWorkerCalls \in Nat
    BY EvidenceAssumption DEF TypeOK, Tasks
  <2> QED BY <2>1 DEF LimitsInv, Admitted, Clean, RowReadable
<1> QED BY <1>1, <1>2, <1>3, TypeCorrect, FlagTruth, PTL DEF Spec
=============================================================================
