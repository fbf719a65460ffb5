----------------------------- MODULE TaskEvidence -----------------------------
(***************************************************************************)
(* What the tools of one Main Agent episode make of worker results: the    *)
(* gates, failures, files and counters of TaskState, the Scheduler Guard   *)
(* that admits worker calls, the WorkerResultHandler that projects their   *)
(* results, the Quality Gate and the status an episode ends with.          *)
(*                                                                         *)
(* The tools of an episode run one after the other, so a tool is one       *)
(* action, except that a worker call takes minutes: it is admitted         *)
(* (ProposeWorker), started (StartJob) and its result is projected         *)
(* (ApplyResult, RetainResult or JobRaises), and the user may cancel in    *)
(* between.  Races on the row itself are the subject of RuntimeEpisodes.   *)
(*                                                                         *)
(* The workspace is a directory of files; the row only has their paths.    *)
(* The history variables say what the row does not: whether a recorded     *)
(* pass is about the code that is in the workspace now.                    *)
(***************************************************************************)
EXTENDS Integers, Sequences, FiniteSets

CONSTANTS
    FailureIds,         \* stable failure identifiers
    Source,             \* the source of each failure
    CodePaths,          \* the paths that count as code
    XmlPaths,           \* those of them that end in .xml
    Plans,              \* the update_plan calls of a scripted runner
    Batches,            \* the run_parallel_workers calls of a scripted runner
    MaxRepairRounds,    \* runtime_limits.max_repair_rounds
    MaxWorkerCalls,     \* runtime_limits.max_worker_calls
    MaxParallelWorkers, \* runtime_limits.max_parallel_workers
    NoPath,             \* current_code of a task without code
    NoJob               \* no worker is running

Kinds == {"test", "formal"}
Workers == {"dev", "repair"} \cup Kinds
Terminal == {"succeeded", "failed", "cancelled"}
Statuses == {"created", "running", "waiting_user"} \cup Terminal

\* "development" stands for all types whose only demand is a code file.
TaskTypes == {"unknown", "qa", "development"} \cup Kinds

\* TaskState.  required, latest and regression hold test_required and
\* formal_required, latest_test_passed and latest_formal_passed,
\* regression_required and formal_regression_required.  reports: which of
\* latest_test_report and latest_formal_report exist (a failing trace or a
\* counterexample comes with its report).  asked: a required question is open.
\* difficulty.requires_test implies test_required, so it has no field.
Tasks == [status : Statuses, asked : BOOLEAN, type : TaskTypes,
          required : [Kinds -> BOOLEAN],
          latest : [Kinds -> {"none", "passed", "failed"}],
          regression : [Kinds -> BOOLEAN],
          has_blocking_failure : BOOLEAN, can_finish_as_success : BOOLEAN,
          current_code : CodePaths \cup {NoPath}, reports : SUBSET Kinds,
          failures : [FailureIds -> {"absent", "open", "resolved"}],
          repair_rounds : Nat, active : Nat, calls : Nat]

\* The part of a WorkerInput the result handling depends on: the code path a
\* check was given and the failures selected for a repair.
Inputs == [worker : Workers, code : CodePaths \cup {NoPath}, targets : SUBSET FailureIds]

\* A running job remembers the counters before its dispatch (_dispatch_worker_input).
Jobs == [input : Inputs, active : Nat, calls : Nat]

ASSUME EvidenceAssumption ==
    /\ Source \in [FailureIds -> Kinds \cup {"compile"}]
    /\ XmlPaths \subseteq CodePaths
    /\ NoPath \notin CodePaths
    /\ NoJob \notin Jobs
    /\ Plans \subseteq [type : TaskTypes \ {"unknown"},
                        test : {"yes", "no", "keep"}, formal : {"yes", "no", "keep"}]
    /\ Batches \subseteq Seq(Workers)
    /\ MaxRepairRounds \in Nat /\ MaxWorkerCalls \in Nat
    /\ MaxParallelWorkers \in Nat \ {0}

VARIABLES
    task,     \* TaskState
    queue,    \* inputs of the current tool call that are still to be dispatched
    job,      \* the running job
    evidence, \* history: what the last pass of each kind is worth, see below
    repaired  \* history: code a passing repair wrote and no check passed since, or NoPath

vars == <<task, queue, job, evidence, repaired>>

\* "current": the pass is about the code in the workspace.  "superseded": a
\* passing dev or repair result has replaced the code since (or there was no
\* pass).  "xml_repaired": the same, but only by passing repairs each of whose
\* changes was one XML file.  "drifted": the code has changed in another way: a
\* file tool, a result that did not pass, a job that raised, or a check of a path
\* no longer current.
EvidenceStates == {"current", "superseded", "xml_repaired", "drifted"}

Init ==
    /\ task = [status |-> "created", asked |-> FALSE, type |-> "unknown",
               required |-> [k \in Kinds |-> FALSE],
               latest |-> [k \in Kinds |-> "none"],
               regression |-> [k \in Kinds |-> FALSE],
               has_blocking_failure |-> FALSE, can_finish_as_success |-> FALSE,
               current_code |-> NoPath, reports |-> {},
               failures |-> [f \in FailureIds |-> "absent"],
               repair_rounds |-> 0, active |-> 0, calls |-> 0]
    /\ queue = <<>>
    /\ job = NoJob
    /\ evidence = [k \in Kinds |-> "superseded"]
    /\ repaired = NoPath

IsTerminal == task.status \in Terminal

\* The loop makes the next tool call: the previous one has returned and has left
\* the task neither terminal nor waiting.
MayCallTool == task.status \in {"created", "running"} /\ job = NoJob /\ queue = <<>>

-----------------------------------------------------------------------------
(* Failures *)

OpenFailures(t) == {f \in FailureIds : t.failures[f] = "open"}
OpenFrom(t, source) == {f \in OpenFailures(t) : Source[f] = source}

Resolve(t, ids) ==
    [t EXCEPT !.failures = [f \in FailureIds |->
        IF f \in ids \cap OpenFailures(t) THEN "resolved" ELSE t.failures[f]]]

\* Faulty variant: a failure reported again is open again.
MergeReopening(t, ids) ==
    [t EXCEPT !.failures = [f \in FailureIds |->
        IF f \in ids THEN "open" ELSE t.failures[f]]]

\* A failure whose identifier is known is dropped, even if it was resolved.
Merge(t, ids) ==
    [t EXCEPT !.failures = [f \in FailureIds |->
        IF f \in ids /\ t.failures[f] = "absent" THEN "open" ELSE t.failures[f]]]

\* Faulty variants: the marker survives; the flag is left alone.
SettleKeepingMarker(t) == [t EXCEPT !.has_blocking_failure = OpenFailures(t) # {}]
SettleWithoutFlag(t) == [t EXCEPT !.can_finish_as_success = FALSE]

\* The end of _apply_result and of _task_with_validation_report.
Settle(t) ==
    [t EXCEPT !.has_blocking_failure = OpenFailures(t) # {},
              !.can_finish_as_success = FALSE]

-----------------------------------------------------------------------------
(* Scheduler Guard *)

IsIntake(t) == t.status = "created" \/ t.type = "unknown"

CommonPreconditions(t) ==
    /\ t.status = "running" /\ ~IsIntake(t) /\ ~t.asked
    /\ t.active + 1 <= MaxParallelWorkers
    /\ t.calls < MaxWorkerCalls

RepairAllowed(t) ==
    /\ OpenFailures(t) # {}
    /\ t.repair_rounds < MaxRepairRounds
    /\ t.reports # {}

\* The proposed paths are built from the same state, so the current code is
\* among them whenever there is one.
WorkerCallAllowed(t, w) ==
    /\ CommonPreconditions(t)
    /\ w # "dev" => t.current_code # NoPath
    /\ w = "repair" => RepairAllowed(t)

\* Faulty variant: room for one more call is enough for the whole batch.
BatchAllowedOneByOne(t, batch) ==
    /\ t.active + Len(batch) <= MaxParallelWorkers
    /\ \A n \in DOMAIN batch : batch[n] # "repair" /\ WorkerCallAllowed(t, batch[n])

\* validate_parallel_jobs: every member is judged on the same state.
BatchAllowed(t, batch) ==
    /\ t.active + Len(batch) <= MaxParallelWorkers
    /\ t.calls + Len(batch) <= MaxWorkerCalls
    /\ \A n \in DOMAIN batch : batch[n] # "repair" /\ WorkerCallAllowed(t, batch[n])

-----------------------------------------------------------------------------
(* Admission of worker calls *)

\* _proposed_worker_input_paths and the failures selected by build_worker_input.
Input(t, w) ==
    [worker |-> w,
     code |-> IF w \in Kinds THEN t.current_code ELSE NoPath,
     targets |-> IF w = "repair" THEN OpenFailures(t) ELSE {}]

\* _prepare_domain_worker_task: asking for a check makes it required; the first
\* worker but repair classifies the task.
Prepared(t, w) ==
    LET demanded == [t EXCEPT !.required = [k \in Kinds |-> t.required[k] \/ k = w]]
    IN IF IsIntake(t) /\ w # "repair"
       THEN [demanded EXCEPT !.status = "running",
                             !.type = IF w \in Kinds THEN w ELSE "development"]
       ELSE demanded

\* plc_dev, plc_test, plc_formal, plc_repair.  The input builder and the debounce
\* of repeated failures may reject what the guard admits.
ProposeWorker(w) ==
    /\ MayCallTool
    /\ task' = Prepared(task, w)
    /\ \/ queue' = <<>>
       \/ WorkerCallAllowed(task', w) /\ queue' = <<Input(task', w)>>
    /\ UNCHANGED <<job, evidence, repaired>>

\* run_parallel_workers: despite its name the jobs run one after the other, with
\* inputs built before the first of them.
ProposeBatch(batch) ==
    /\ MayCallTool
    /\ BatchAllowed(task, batch)
    /\ queue' = [n \in DOMAIN batch |-> Input(task, batch[n])]
    /\ UNCHANGED <<task, job, evidence, repaired>>

\* _record_active_worker and create_job: nothing is checked again.
StartJob ==
    /\ job = NoJob /\ queue # <<>>
    /\ job' = [input |-> Head(queue), active |-> task.active, calls |-> task.calls]
    /\ queue' = Tail(queue)
    /\ task' = [task EXCEPT !.active = @ + 1, !.calls = @ + 1]
    /\ UNCHANGED <<evidence, repaired>>

-----------------------------------------------------------------------------
(* Worker results *)

Outcomes == {"passed", "failed", "unknown", "need_clarification", "incomplete"}

\* What the handler reads of a WorkerResult.  code: the last code file written;
\* patch: so was a .diff, a .patch or an earlier code file that is not XML; asks, blocks: a clarification request
\* has a required question, is blocking.  Of a result whose execution did not
\* complete only the failures count.  For a failed check without structured failures the handler
\* makes one up: there failures is never empty.
Results == [w \in Workers |->
    {r \in [outcome : Outcomes, code : CodePaths \cup {NoPath}, patch : BOOLEAN,
            reports : SUBSET (Kinds \cap {w}),
            failures : {{}} \cup {{f} : f \in FailureIds},
            asks : BOOLEAN, blocks : BOOLEAN] :
        /\ r.outcome = "incomplete" => r.reports = {} /\ ~r.patch
        /\ r.outcome # "need_clarification" => ~r.asks /\ ~r.blocks
        /\ r.outcome = "failed" /\ w \in Kinds => r.failures # {}
        /\ r.patch => w = "repair"}]

\* _project_files
Filed(t, r) ==
    [t EXCEPT !.current_code = IF r.code = NoPath THEN @ ELSE r.code,
              !.reports = @ \cup r.reports]

\* Faulty variant: new code without a look at the markers.
DevPassedKeepingMarkers(t) == [t EXCEPT !.regression = [k \in Kinds |-> FALSE]]

\* _apply_dev_result
DevPassed(t) ==
    [t EXCEPT !.latest = [k \in Kinds |-> "none"],
              !.regression = [k \in Kinds |-> FALSE]]

\* _apply_test_result and _apply_formal_result
CheckPassed(t, k) ==
    [Resolve(t, OpenFrom(t, k)) EXCEPT !.required[k] = TRUE,
                                       !.latest[k] = "passed",
                                       !.regression[k] = FALSE]

CheckFailed(t, k) == [t EXCEPT !.required[k] = TRUE, !.latest[k] = "failed"]

\* Faulty variant: only a patch counts.
PatchChangedCode(r) == r.patch

\* _repair_changed_code: .xml files are not in its list of extensions.
ChangedCode(r) == r.patch \/ r.code \in CodePaths \ XmlPaths

\* _apply_repair_result: before is the task as it was when the result came.
RepairPassed(before, t, targets, r) ==
    LET repairedTask == [Resolve(t, targets) EXCEPT !.repair_rounds = @ + 1]
    IN IF ChangedCode(r)
       THEN [repairedTask EXCEPT
               !.latest = [k \in Kinds |-> "none"],
               !.regression = [k \in Kinds |->
                   k = "test" \/ t.regression[k] \/ OpenFrom(before, k) # {}]]
       ELSE [repairedTask EXCEPT !.regression = [k \in Kinds |-> FALSE]]

Clarified(t, r) ==
    [t EXCEPT !.asked = @ \/ r.asks,
              !.status = IF r.blocks THEN "waiting_user" ELSE @]

\* _apply_result
Applied(t, input, r) ==
    LET w == input.worker
        merged == Merge(t, r.failures)
        received == Filed(merged, r)
    IN Settle(
        CASE r.outcome = "incomplete" -> merged
          [] r.outcome = "need_clarification" -> Clarified(received, r)
          [] r.outcome = "passed" /\ w = "dev" -> DevPassed(received)
          [] r.outcome = "passed" /\ w = "repair" ->
                 RepairPassed(t, received, input.targets, r)
          [] r.outcome = "passed" /\ w \in Kinds -> CheckPassed(received, w)
          [] r.outcome = "failed" /\ w \in Kinds -> CheckFailed(received, w)
          [] OTHER -> received)

\* A passing dev result moves the phase to testing or formal verification, and
\* TaskState.model_validate refuses these without code: _apply_result raises.
Unacceptable(t, input, r) ==
    /\ input.worker = "dev" /\ r.outcome = "passed"
    /\ \E k \in Kinds : t.required[k] \/ (k = "test" /\ k \in t.reports)
    /\ Filed(t, r).current_code = NoPath

Drift(e) == [k \in Kinds |-> IF e[k] = "current" THEN "drifted" ELSE e[k]]

\* What a result does to the workspace, told from the files it wrote: here an XML
\* file is code like any other, as it is to _current_file_field_for_path.
EvidenceAfter(t, input, r) ==
    LET new == r.outcome = "passed" /\ r.code # NoPath /\ input.worker \in {"dev", "repair"}
        onlyXml == input.worker = "repair" /\ r.code \in XmlPaths /\ ~r.patch
        base == CASE new /\ ~onlyXml -> [k \in Kinds |-> "superseded"]
                  [] new /\ onlyXml ->
                         [k \in Kinds |-> IF evidence[k] = "superseded"
                                          THEN "superseded" ELSE "xml_repaired"]
                  [] ~new /\ (r.code # NoPath \/ r.patch) -> Drift(evidence)
                  [] OTHER -> evidence
    IN IF r.outcome = "passed" /\ input.worker \in Kinds
       THEN [base EXCEPT ![input.worker] =
                IF Filed(t, r).current_code = input.code THEN "current" ELSE "drifted"]
       ELSE base

RepairedAfter(input, r) ==
    CASE r.outcome # "passed" -> repaired
      [] r.outcome = "passed" /\ input.worker # "repair" -> NoPath
      [] OTHER -> IF r.code # NoPath THEN r.code ELSE repaired

\* _decrement_active_worker_counter.  Faulty variant: without the max.
DecrementedUnchecked(t) == [t EXCEPT !.active = @ - 1]
Decremented(t) == [t EXCEPT !.active = IF @ > 0 THEN @ - 1 ELSE 0]

\* Faulty variant: a list of terminal states without cancelled.
CountsUnlessFinished == task.status \notin {"succeeded", "failed"}
ResultCounts == ~IsTerminal

\* handle_worker_result for a task that may still change.
ApplyResult(r) ==
    /\ job # NoJob /\ ResultCounts
    /\ r \in Results[job.input.worker]
    /\ ~Unacceptable(task, job.input, r)
    /\ task' = Decremented(Applied(task, job.input, r))
    /\ evidence' = EvidenceAfter(task, job.input, r)
    /\ repaired' = RepairedAfter(job.input, r)
    /\ job' = NoJob
    /\ UNCHANGED queue

\* The worker may have written files before its result was refused or ignored.
MayHaveWritten == evidence' \in {evidence, Drift(evidence)}

\* The task was cancelled meanwhile: the result is kept for audit only.
RetainResult ==
    /\ job # NoJob /\ ~ResultCounts
    /\ task' = Decremented(task)
    /\ MayHaveWritten
    /\ job' = NoJob
    /\ UNCHANGED <<queue, repaired>>

\* _restore_active_worker.  Faulty variant: only the budget is given back.
RestoredBudget(t, j) == [t EXCEPT !.calls = j.calls]
Restored(t, j) == [t EXCEPT !.active = j.active, !.calls = j.calls]

\* The adapter or the handler raises: an unacceptable result, a worker that
\* cannot be reached, a schema error.  The call counts as not made.
JobRaises ==
    /\ job # NoJob
    /\ task' = Restored(task, job)
    /\ MayHaveWritten
    /\ job' = NoJob
    /\ UNCHANGED <<queue, repaired>>

-----------------------------------------------------------------------------
(* The other tools *)

\* _task_with_validation_report: a named failure is resolved whatever its
\* source.  A test report written by the Main Agent counts as a test report.
Validated(t, type, passed, ids) ==
    LET demanded == [t EXCEPT !.required = [k \in Kinds |-> t.required[k] \/ k = type]]
        checks == Kinds \cap {type}
    IN Settle(
        IF passed
        THEN [Resolve(demanded, IF ids = {} THEN OpenFrom(t, type) ELSE ids) EXCEPT
                !.reports = @ \cup checks,
                !.latest = [k \in Kinds |-> IF k \in checks THEN "passed" ELSE t.latest[k]],
                !.regression = [k \in Kinds |-> k \notin checks /\ t.regression[k]]]
        ELSE demanded)

\* The statement is about the workspace as it is: the pass is current.
RecordValidation(type, passed, ids) ==
    /\ MayCallTool
    /\ task' = Validated(task, type, passed, ids)
    /\ evidence' = [k \in Kinds |-> IF passed /\ k = type THEN "current" ELSE evidence[k]]
    /\ repaired' = IF passed /\ type \in Kinds THEN NoPath ELSE repaired
    /\ UNCHANGED <<queue, job>>

\* _requires_test, _requires_formal.  Nothing raises the difficulty level or its
\* safety signals, so they demand nothing.
Requires(t, k) ==
    \/ t.type = k \/ t.required[k]
    \/ k = "test" /\ (k \in t.reports \/ t.latest[k] # "none")

\* assess_quality_gate.  There is always a request, and no job is active when
\* the tool is called.
GatePasses(t) ==
    /\ t.type \notin {"unknown", "qa"} => t.current_code # NoPath
    /\ \A k \in Kinds : Requires(t, k) => k \in t.reports /\ t.latest[k] = "passed"
    /\ \A k \in Kinds : ~t.regression[k]
    /\ ~t.asked /\ ~t.has_blocking_failure /\ OpenFailures(t) = {}

RunQualityGate ==
    /\ MayCallTool
    /\ task' = [task EXCEPT !.can_finish_as_success = GatePasses(task)]
    /\ UNCHANGED <<queue, job, evidence, repaired>>

\* write_file: the name decides what the file is.
WriteCode(p) ==
    /\ MayCallTool
    /\ task' = [task EXCEPT !.current_code = p]
    /\ evidence' = Drift(evidence)
    /\ UNCHANGED <<queue, job, repaired>>

WriteReport(k) ==
    /\ MayCallTool
    /\ task' = [task EXCEPT !.reports = @ \cup {k}]
    /\ UNCHANGED <<queue, job, evidence, repaired>>

\* apply_patch and exec_command change files, not the row.
EditInPlace ==
    /\ MayCallTool
    /\ evidence' = Drift(evidence)
    /\ UNCHANGED <<task, queue, job, repaired>>

Demand(plan, k) == IF k = "test" THEN plan.test ELSE plan.formal

\* update_plan, which only a scripted runner calls.
UpdatePlan(plan) ==
    /\ MayCallTool
    /\ task' = [task EXCEPT
           !.status = "running", !.type = plan.type,
           !.required = [k \in Kinds |->
               Demand(plan, k) = "yes" \/ (Demand(plan, k) = "keep" /\ task.required[k])],
           !.can_finish_as_success = FALSE]
    /\ UNCHANGED <<queue, job, evidence, repaired>>

\* request_clarification; its questions may all be optional.
RequestClarification(required) ==
    /\ MayCallTool
    /\ task' = [task EXCEPT !.status = "waiting_user", !.asked = @ \/ required]
    /\ UNCHANGED <<queue, job, evidence, repaired>>

-----------------------------------------------------------------------------
(* Around the episode *)

\* _apply_latest_user_message, once the episode that asked is over.
AnswerQuestions ==
    /\ task.status = "waiting_user" /\ task.asked
    /\ job = NoJob /\ queue = <<>>
    /\ task' = [task EXCEPT !.status = "running", !.asked = FALSE]
    /\ UNCHANGED <<queue, job, evidence, repaired>>

\* cancel_task, at any moment.
Cancel ==
    /\ ~IsTerminal
    /\ task' = [task EXCEPT !.status = "cancelled", !.active = 0]
    /\ UNCHANGED <<queue, job, evidence, repaired>>

\* _finalize_runtime_stop with _final_status_for_stop: without an open failure
\* the status of the last tool call decides.  An episode without an answer or
\* out of turns fails the task.
Finish(final) ==
    /\ MayCallTool
    /\ final = "succeeded" => OpenFailures(task) = {}
    /\ task' = [task EXCEPT !.status = final]
    /\ UNCHANGED <<queue, job, evidence, repaired>>

ToolStep ==
    \/ \E w \in Workers : ProposeWorker(w)
    \/ \E batch \in Batches : ProposeBatch(batch)
    \/ \E type \in Kinds \cup {"compile"}, passed \in BOOLEAN, ids \in SUBSET FailureIds :
           RecordValidation(type, passed, ids)
    \/ RunQualityGate
    \/ \E p \in CodePaths : WriteCode(p)
    \/ \E k \in Kinds : WriteReport(k)
    \/ EditInPlace
    \/ \E plan \in Plans : UpdatePlan(plan)
    \/ \E required \in BOOLEAN : RequestClarification(required)

JobStep ==
    \/ StartJob
    \/ job # NoJob /\ \E r \in Results[job.input.worker] : ApplyResult(r)
    \/ RetainResult
    \/ JobRaises

Next ==
    \/ ToolStep
    \/ JobStep
    \/ AnswerQuestions
    \/ Cancel
    \/ \E final \in {"succeeded", "failed"} : Finish(final)

Spec == Init /\ [][Next]_vars

-----------------------------------------------------------------------------
(* Properties *)

\* The state is well-formed.
TypeOK ==
    /\ task \in Tasks
    /\ queue \in Seq(Inputs)
    /\ job \in Jobs \cup {NoJob}
    /\ evidence \in [Kinds -> EvidenceStates]
    /\ repaired \in CodePaths \cup {NoPath}

\* has_blocking_failure, which the gate report, the validator of the row and the
\* clients read, says whether an open failure exists: no path that opens or
\* resolves a failure forgets to recompute it.
FlagTruthful == task.has_blocking_failure <=> OpenFailures(task) # {}

\* A recorded success marker is withdrawn by whatever spoils it: with
\* can_finish_as_success there is no open failure and no regression is owed.
SuccessMarkerIsClean ==
    task.can_finish_as_success =>
        /\ OpenFailures(task) = {}
        /\ \A k \in Kinds : ~task.regression[k]

\* The pass of a check does not survive new code from a worker: while
\* latest_test_passed (latest_formal_passed) is true, no passing dev or repair
\* result has replaced a code file since that check.  The one exception is a
\* repair that writes an XML file and nothing else: it makes this file the current
\* code, and the pass stands.
MarkersFollowWorkers ==
    \A k \in Kinds : task.latest[k] = "passed" => evidence[k] # "superseded"

\* The row stays readable: TaskState.model_validate, which every reader calls,
\* refuses a row whose counters exceed their limits or that has succeeded with a
\* blocking failure, and nothing checks this when the row is written.
RowReadable ==
    /\ task.repair_rounds <= MaxRepairRounds
    /\ task.active <= MaxParallelWorkers
    /\ task.calls <= MaxWorkerCalls
    /\ task.status = "succeeded" => ~task.has_blocking_failure

\* active_parallel_workers counts the jobs that run: every way a call may end
\* gives its slot back, once.  (Cancelling gives it back early.)
CountersBalance ==
    ~IsTerminal => task.active = IF job = NoJob THEN 0 ELSE 1

\* The record of failures only grows, and a resolved failure is not reopened.
FailuresAreKept ==
    [][\A f \in FailureIds :
           task'.failures[f] # task.failures[f] =>
               <<task.failures[f], task'.failures[f]>> \in
                   {<<"absent", "open">>, <<"absent", "resolved">>, <<"open", "resolved">>}]_vars

\* The result of a worker that was running, or started, when its task was
\* cancelled is kept for audit only: of a terminal task nothing changes but the
\* two counters.
LateResultsChangeNothing ==
    [][IsTerminal =>
           task' = [task EXCEPT !.active = task'.active, !.calls = task'.calls]]_vars

\* The first repair of a task is never trusted: while the Quality Gate's pass
\* stands, code that its worker wrote has been checked or replaced by a
\* development worker since, unless that code is an XML file, after which no
\* regression test is owed.
FirstRepairIsRetested ==
    task.can_finish_as_success /\ task.repair_rounds <= 1 =>
        repaired \notin CodePaths \ XmlPaths

\* docs/backend.md: no success after a repair without a regression test.  While
\* the Quality Gate's pass stands, code that a repair worker wrote has been
\* checked or replaced by a development worker since.
RepairedCodeIsRetested == task.can_finish_as_success => repaired = NoPath

=============================================================================
