--------------------------- MODULE WorkerDispatch ---------------------------
(***************************************************************************)
(* The life of a worker call, from the tool of the Main Agent to the row   *)
(* of the task: AgentToolService._call_worker_tool and                     *)
(* _dispatch_worker_input (agents/tools.py), McpAdapter.call_worker        *)
(* (mcp/adapter.py), the worker job records and the projection of results  *)
(* (workers/worker_result_handler.py).                                     *)
(*                                                                         *)
(* An episode makes its calls one after the other; another episode runs    *)
(* beside it when the lease of the first has expired.  A row is read and   *)
(* written whole: what was committed in between is overwritten.  Steps end *)
(* at commits.  Jobs are numbered in the order their ids are drawn; a file *)
(* of a report directory is named by its job, and the code has one path.   *)
(***************************************************************************)
EXTENDS LocalWorkers

CONSTANTS
    Episodes,           \* episodes of the task that may run
    MaxJobs,            \* bound: worker calls in all
    MaxBeside,          \* bound: calls beside a second episode come first
    Route,              \* [Workers -> "mock", "real" or "subagent"] (_route_for_worker)
    Scenario,           \* of the mock
    Streams,            \* event sequences of the remote workers
    Replies,            \* replies of the language model
    Outages,            \* ways a remote worker or the server can fail
    CodeSizes,          \* characters of a code file
    MaxChars,           \* plc_worker_artifact_max_chars
    Properties,         \* whether worker_config names properties to prove
    MaxParallelWorkers, MaxWorkerCalls, MaxRepairRounds, \* runtime_limits
    MaxRetries,         \* subagent_max_retries
    MaxFaults           \* bound: crashes, failed writes and exceptions

ASSUME DispatchAssumption ==
    /\ MaxJobs \in Nat /\ MaxBeside \in Nat /\ MaxParallelWorkers \in Nat /\ MaxWorkerCalls \in Nat
    /\ MaxRepairRounds \in Nat /\ MaxRetries \in Nat /\ MaxFaults \in Nat
    /\ Outages \subseteq {"timeout", "connection"} \union ServerFaults
    /\ Route \in [Workers -> {"mock", "real", "subagent"}]
    /\ CodeSizes \subseteq Nat \ {0}
    /\ Replies \subseteq [form : {"text", "fenced", "json"},
                         states : {"object", "word", "missing"},
                         outcome : {"passed", "failed", "unknown", "need_clarification"},
                         writes : Seq({"type", "artifact_type"} \X Artifacts),
                         asks : BOOLEAN]

VARIABLES
    row,     \* the task row
    jobs,    \* the worker job records
    log,     \* [job -> the committed events of the job]
    code,    \* characters in the code file of the workspace, 0 when there is none
    ep,      \* [episode -> where it is in a call]
    issued,  \* job ids drawn
    faults,
    raced,   \* an episode entered beside another, or a write undid a foreign one
    leaked   \* jobs whose episode died before it gave their slot back

vars == <<row, jobs, log, code, ep, issued, faults, raced, leaked>>

Jobs == 1..MaxJobs
NoJob == 0

\* files.current_code is a path that never changes; the report pointers name a job.
Rows == [status : {"running", "waiting_user", "cancelled"}, code : BOOLEAN,
         requirements : 0..MaxJobs, test : 0..MaxJobs, trace : 0..MaxJobs,
         formal : 0..MaxJobs, counterexample : 0..MaxJobs,
         open : SUBSET Jobs, \* jobs whose blocking failure is open
         active : SUBSET Jobs, parallel : Nat, used : Nat, rounds : Nat,
         completed : SUBSET Jobs]

NewRow == [status |-> "running", code |-> FALSE, requirements |-> NoJob, test |-> NoJob,
           trace |-> NoJob, formal |-> NoJob, counterexample |-> NoJob, open |-> {},
           active |-> {}, parallel |-> 0, used |-> 0, rounds |-> 0, completed |-> {}]

Verdicts == {"passed", "failed", "unknown", "need_clarification"} \union Errors

\* A job record; verdict "none" is result_json NULL.
NoRecord == [worker |-> "none", inputs |-> {}, selected |-> {}, status |-> "none",
             verdict |-> "none", files |-> {}]

Idle == [pc |-> "idle", job |-> NoJob, worker |-> "none", inputs |-> {}, selected |-> {},
         seen |-> NewRow, before |-> NewRow, verdict |-> "none", left |-> <<>>, tries |-> 0]

Holding(e) == ep[e].pc \in {"call", "write", "finish", "read", "project", "decrement", "restore"}

-----------------------------------------------------------------------------
(* Guards of the tool *)

\* _proposed_worker_input_paths and select_worker_input_paths
Evidence(r) == {<<"test_report", r.test>>, <<"failing_trace", r.trace>>,
                <<"formal_report", r.formal>>, <<"counterexample", r.counterexample>>}
Inputs(r, w) ==
    {i \in CASE w = "dev" -> {<<"raw_user_request", MaxJobs + 1>>}
             [] w \in {"test", "formal"} -> {<<"requirements", r.requirements>>}
             [] w = "repair" -> Evidence(r) : i[2] # NoJob}

\* validate_worker_call
Callable(r, w) ==
    /\ r.status = "running"
    /\ r.parallel < MaxParallelWorkers
    /\ r.used < MaxWorkerCalls
    /\ w # "dev" => r.code
    /\ w = "repair" => /\ r.open # {} /\ r.rounds < MaxRepairRounds
                       /\ Inputs(r, w) # {}

\* _worker_failure_types: the error code, or the source of the failures.
FailureType(j) ==
    IF jobs[j].verdict \in Errors THEN {jobs[j].verdict}
    ELSE IF jobs[j].verdict = "failed" THEN {jobs[j].worker} ELSE {}

\* Only a repair's configuration depends on the row: it names the open failures.
SameCall(j, w, inputs, selected) ==
    /\ jobs[j].worker = w
    /\ jobs[j].inputs = inputs
    /\ w = "repair" => jobs[j].selected = selected

\* Faulty variant: only calls with the same verdict in a row are counted.
DebouncedLate(r, w) ==
    \E t \in Workers \union Errors :
        Cardinality({j \in Jobs : SameCall(j, w, Inputs(r, w), r.open) /\ t \in FailureType(j)}) > 2

\* _debounced_worker_retry_result: the same call failed twice in the same way.
\* The signature names paths, not contents: code that was repaired since does
\* not make it a different call.
Debounced(r, w) ==
    \E t \in Workers \union Errors :
        Cardinality({j \in Jobs : SameCall(j, w, Inputs(r, w), r.open) /\ t \in FailureType(j)}) >= 2

-----------------------------------------------------------------------------
(* Init and the steps of a call *)

Init ==
    /\ row = NewRow
    /\ jobs = [j \in Jobs |-> NoRecord]
    /\ log = [j \in Jobs |-> <<>>]
    /\ code = 0
    /\ ep = [e \in Episodes |-> Idle]
    /\ issued = 0
    /\ faults = 0
    /\ raced = FALSE
    /\ leaked = {}

\* The model calls a worker tool; a refused call changes nothing.
CallWorkerTool(e) ==
    /\ ep[e].pc = "idle" /\ issued < MaxJobs
    /\ (\E f \in Episodes \ {e} : ep[f].pc # "idle") => issued < MaxBeside
    /\ \E w \in Workers :
        /\ Callable(row, w) /\ ~Debounced(row, w)
        /\ ep' = [ep EXCEPT ![e] = [Idle EXCEPT !.pc = "record", !.job = issued + 1,
                                               !.worker = w, !.inputs = Inputs(row, w),
                                               !.selected = row.open]]
    /\ issued' = issued + 1
    /\ raced' = (raced \/ \E f \in Episodes \ {e} : ep[f].pc # "idle")
    /\ UNCHANGED <<row, jobs, log, code, faults, leaked>>

\* _record_active_worker reads the row again; the guards are not asked again.
ReadForRecord(e) ==
    /\ ep[e].pc = "record"
    /\ ep' = [ep EXCEPT ![e].pc = "start", ![e].seen = row]
    /\ UNCHANGED <<row, jobs, log, code, issued, faults, raced, leaked>>

\* _record_active_worker, create_job and worker_started, in one commit.
StartJob(e) ==
    LET j == ep[e].job  seen == ep[e].seen IN
    /\ ep[e].pc = "start"
    /\ row' = [seen EXCEPT !.active = @ \union {j}, !.parallel = @ + 1, !.used = @ + 1]
    /\ jobs' = [jobs EXCEPT ![j] = [NoRecord EXCEPT !.worker = ep[e].worker,
                    !.inputs = ep[e].inputs, !.selected = ep[e].selected, !.status = "running"]]
    /\ log' = [log EXCEPT ![j] = Append(@, "started")]
    /\ ep' = [ep EXCEPT ![e].pc = "call", ![e].before = seen, ![e].seen = NewRow]
    /\ raced' = (raced \/ row # seen)
    /\ UNCHANGED <<code, issued, faults, leaked>>

\* The worker's answer: an exception, a draft that is refused, or one to keep.
\* The mock's drafts are not validated.
Keep(e, d) ==
    ep' = [ep EXCEPT ![e] =
        IF d.outcome \in Errors THEN [@ EXCEPT !.pc = "finish", !.verdict = d.outcome]
        ELSE IF Route[@.worker] # "mock" /\ ~Acceptable(@.worker, d)
             THEN [@ EXCEPT !.pc = "finish", !.verdict = "schema"]
             ELSE [@ EXCEPT !.pc = "write", !.verdict = d.outcome, !.left = d.writes]]

Answer(e, d) ==
    /\ Keep(e, d)
    /\ UNCHANGED <<row, jobs, log, code, issued, faults, raced, leaked>>

MockAnswers(e) ==
    /\ ep[e].pc = "call" /\ Route[ep[e].worker] = "mock"
    /\ Answer(e, Mock(ep[e].worker, Scenario, PathVersion({})))

\* One POST with a stream as its answer.  A request that cannot be built is an
\* invalid response.
CallsSubagent(e) == ep[e].pc = "call" /\ Route[ep[e].worker] = "subagent"
CanSend(e) == Sendable(ep[e].worker, Snapshot(code, MaxChars), Properties)

RequestFails(e) == CallsSubagent(e) /\ ~CanSend(e) /\ Answer(e, Raised("schema"))

SubagentAnswers(e) ==
    /\ CallsSubagent(e) /\ CanSend(e)
    /\ \/ \E events \in Streams : Answer(e, DraftFrom(ep[e].worker, events))
       \/ \E class \in Outages \ ServerFaults : Answer(e, Raised(class))

\* Faulty variant: tries are not counted.
SubagentBusyForEver(e) ==
    /\ CallsSubagent(e) /\ CanSend(e)
    /\ ep[e].tries <= MaxRetries
    /\ ep' = [ep EXCEPT ![e].tries = 1 - @]
    /\ UNCHANGED <<row, jobs, log, code, issued, faults, raced, leaked>>

\* 429, 502, 503 and 504 are tried again.
SubagentBusy(e) ==
    /\ CallsSubagent(e) /\ CanSend(e)
    /\ ep[e].tries < MaxRetries
    /\ ep' = [ep EXCEPT ![e].tries = @ + 1]
    /\ UNCHANGED <<row, jobs, log, code, issued, faults, raced, leaked>>

ServerAnswers(e) ==
    /\ ep[e].pc = "call" /\ Route[ep[e].worker] = "real"
    /\ \/ \E reply \in Replies : Answer(e, LlmDraft(ep[e].worker, reply))
       \/ \E fault \in Outages \intersect ServerFaults : Answer(e, Raised(FaultClass(fault)))

\* _persist_file_writes: a file, its worker_progress event, a commit.
WriteFile(e) ==
    LET j == ep[e].job  a == Head(ep[e].left) IN
    /\ ep[e].pc = "write" /\ ep[e].left # <<>>
    /\ jobs' = [jobs EXCEPT ![j].files = @ \union {a}]
    /\ log' = [log EXCEPT ![j] = Append(@, a)]
    /\ IF a = "plc_code" THEN code' \in CodeSizes ELSE code' = code
    /\ ep' = [ep EXCEPT ![e].left = Tail(@)]
    /\ UNCHANGED <<row, issued, faults, raced, leaked>>

WriteFails(e) ==
    /\ ep[e].pc = "write" /\ ep[e].left # <<>> /\ faults < MaxFaults
    /\ faults' = faults + 1
    /\ ep' = [ep EXCEPT ![e].pc = "finish", ![e].verdict = "execution", ![e].left = <<>>]
    /\ UNCHANGED <<row, jobs, log, code, issued, raced, leaked>>

\* _job_status_for_result and the statuses of the exception handlers
JobStatus(verdict) ==
    CASE verdict = "timeout" -> "timeout"
      [] verdict \in Errors \ {"timeout"} -> "error"
      [] OTHER -> "completed"

\* Faulty variant: the job is ended before its last file is on disk.
FinishEarly(e) ==
    LET j == ep[e].job  v == ep[e].verdict IN
    /\ ep[e].pc = "finish" \/ (ep[e].pc = "write" /\ Len(ep[e].left) <= 1)
    /\ jobs' = [jobs EXCEPT ![j].status = JobStatus(v), ![j].verdict = v]
    /\ log' = [log EXCEPT ![j] = Append(@, JobStatus(v))]
    /\ ep' = [ep EXCEPT ![e].pc = "read", ![e].left = <<>>]
    /\ UNCHANGED <<row, code, issued, faults, raced, leaked>>

\* complete_job and the terminal event, in one commit.
Finish(e) ==
    LET j == ep[e].job  v == ep[e].verdict IN
    /\ ep[e].pc = "finish" \/ (ep[e].pc = "write" /\ ep[e].left = <<>>)
    /\ jobs' = [jobs EXCEPT ![j].status = JobStatus(v), ![j].verdict = v]
    /\ log' = [log EXCEPT ![j] = Append(@, JobStatus(v))]
    /\ ep' = [ep EXCEPT ![e].pc = "read"]
    /\ UNCHANGED <<row, code, issued, faults, raced, leaked>>

-----------------------------------------------------------------------------
(* The result reaches the row *)

\* Faulty variant: no floor.
LessBelowZero(n) == n - 1

Less(n) == IF n > 0 THEN n - 1 ELSE 0

\* _project_files
Pointed(r, j, files) ==
    LET At(artifact, old) == IF artifact \in files THEN j ELSE old
    IN [r EXCEPT !.code = @ \/ "plc_code" \in files,
                 !.requirements = At("requirements", @), !.test = At("test_report", @),
                 !.trace = At("failing_trace", @), !.formal = At("formal_report", @),
                 !.counterexample = At("counterexample", @)]

\* Faulty variant: the files of a job that ended with an error count too.
AppliedAlways(r, j) == [Pointed(r, j, jobs[j].files) EXCEPT
    !.active = @ \ {j}, !.completed = @ \union {j}, !.parallel = Less(@)]

\* _apply_result, as far as the tools' guards and the next inputs depend on it;
\* TaskEvidence has the gates.  Only a completed job moves the pointers.
Applied(r, j) ==
    LET w == jobs[j].worker
        v == jobs[j].verdict
        passed == v = "passed"
        filed == IF jobs[j].status = "completed" THEN Pointed(r, j, jobs[j].files) ELSE r
        ofKind == {k \in r.open : jobs[k].worker = w}
    IN [filed EXCEPT
          !.status = IF v = "need_clarification" THEN "waiting_user" ELSE @,
          !.open = IF w \in {"test", "formal"} /\ v = "failed" THEN @ \union {j}
                   ELSE IF w \in {"test", "formal"} /\ passed THEN @ \ ofKind
                   ELSE IF w = "repair" /\ passed THEN @ \ jobs[j].selected ELSE @,
          !.rounds = IF w = "repair" /\ passed THEN @ + 1 ELSE @,
          !.active = @ \ {j}, !.completed = @ \union {j}, !.parallel = Less(@)]

ReadForProjection(e) ==
    /\ ep[e].pc = "read"
    /\ ep' = [ep EXCEPT ![e].pc = "project", ![e].seen = row]
    /\ UNCHANGED <<row, jobs, log, code, issued, faults, raced, leaked>>

\* Faulty variant: the status is not looked at.
ProjectAnyway(e) ==
    LET seen == ep[e].seen  j == ep[e].job IN
    /\ ep[e].pc = "project"
    /\ row' = Applied(seen, j)
    /\ ep' = [ep EXCEPT ![e] = Idle]
    /\ raced' = (raced \/ row # seen)
    /\ UNCHANGED <<jobs, log, code, issued, faults, leaked>>

\* handle_worker_result and _decrement_active_worker_counter, in one commit.
Project(e) ==
    LET seen == ep[e].seen  j == ep[e].job IN
    /\ ep[e].pc = "project" /\ seen.status # "cancelled"
    /\ row' = Applied(seen, j)
    /\ ep' = [ep EXCEPT ![e] = Idle]
    /\ raced' = (raced \/ row # seen)
    /\ UNCHANGED <<jobs, log, code, issued, faults, leaked>>

\* The task is terminal: the result is kept for audit, and the row is read again
\* for the counter.
Retain(e) ==
    /\ ep[e].pc = "project" /\ ep[e].seen.status = "cancelled"
    /\ ep' = [ep EXCEPT ![e].pc = "decrement", ![e].seen = row]
    /\ UNCHANGED <<row, jobs, log, code, issued, faults, raced, leaked>>

Decrement(e) ==
    LET seen == ep[e].seen IN
    /\ ep[e].pc = "decrement"
    /\ row' = [seen EXCEPT !.parallel = Less(@)]
    /\ ep' = [ep EXCEPT ![e] = Idle]
    /\ raced' = (raced \/ row # seen)
    /\ UNCHANGED <<jobs, log, code, issued, faults, leaked>>

\* An exception of the handler: _restore_active_worker reads the row ...
HandlerRaises(e) ==
    /\ ep[e].pc = "project" /\ faults < MaxFaults
    /\ faults' = faults + 1
    /\ ep' = [ep EXCEPT ![e].pc = "restore", ![e].seen = row]
    /\ UNCHANGED <<row, jobs, log, code, issued, raced, leaked>>

\* Faulty variant: only the counter of calls is put back.
RestoreCallsOnly(e) ==
    LET seen == ep[e].seen  before == ep[e].before IN
    /\ ep[e].pc = "restore"
    /\ row' = [seen EXCEPT !.used = before.used]
    /\ ep' = [ep EXCEPT ![e] = Idle]
    /\ raced' = (raced \/ row # seen)
    /\ UNCHANGED <<jobs, log, code, issued, faults, leaked>>

\* Faulty variant: the whole row of before the call is written.
RestoreWholeRow(e) ==
    /\ ep[e].pc = "restore"
    /\ row' = ep[e].before
    /\ ep' = [ep EXCEPT ![e] = Idle]
    /\ raced' = (raced \/ row # ep[e].seen)
    /\ UNCHANGED <<jobs, log, code, issued, faults, leaked>>

\* ... and puts the references and counters back to what they were before the
\* call, whatever the status is now.  The result is never projected.
Restore(e) ==
    LET seen == ep[e].seen  before == ep[e].before IN
    /\ ep[e].pc = "restore"
    /\ row' = [seen EXCEPT !.active = before.active \ {ep[e].job},
                           !.parallel = before.parallel, !.used = before.used]
    /\ ep' = [ep EXCEPT ![e] = Idle]
    /\ raced' = (raced \/ row # seen)
    /\ UNCHANGED <<jobs, log, code, issued, faults, leaked>>

-----------------------------------------------------------------------------
(* The user and the process *)

\* cancel_task, on the locked row
Cancel ==
    /\ row.status # "cancelled"
    /\ row' = [row EXCEPT !.status = "cancelled", !.active = {}, !.parallel = 0]
    /\ UNCHANGED <<jobs, log, code, ep, issued, faults, raced, leaked>>

UserAnswers ==
    /\ row.status = "waiting_user"
    /\ row' = [row EXCEPT !.status = "running"]
    /\ UNCHANGED <<jobs, log, code, ep, issued, faults, raced, leaked>>

\* The backend dies: every episode is gone, what was committed stays, and a file
\* may be on disk whose event was not committed.  Nothing repairs the row or the
\* job records at the next start.
Crash ==
    LET held == {e \in Episodes : Holding(e)}
        writing == {e \in Episodes : ep[e].pc = "write" /\ ep[e].left # <<>>}
    IN
    /\ faults < MaxFaults /\ \E e \in Episodes : ep[e].pc # "idle"
    /\ faults' = faults + 1
    /\ \E orphaned \in SUBSET writing :
        /\ jobs' = [j \in Jobs |->
             [jobs[j] EXCEPT !.files = @ \union
                 {Head(ep[e].left) : e \in {e \in orphaned : ep[e].job = j}}]]
        /\ IF \E e \in orphaned : Head(ep[e].left) = "plc_code"
           THEN code' \in CodeSizes ELSE code' = code
    /\ leaked' = leaked \union {ep[e].job : e \in held}
    /\ ep' = [e \in Episodes |-> Idle]
    /\ UNCHANGED <<row, log, issued, raced>>

EpisodeStep(e) ==
    \/ ReadForRecord(e) \/ StartJob(e)
    \/ MockAnswers(e) \/ RequestFails(e) \/ SubagentAnswers(e) \/ SubagentBusy(e)
    \/ ServerAnswers(e)
    \/ WriteFile(e) \/ WriteFails(e) \/ Finish(e)
    \/ ReadForProjection(e) \/ Project(e) \/ Retain(e) \/ Decrement(e)
    \/ HandlerRaises(e) \/ Restore(e)

Next ==
    \/ \E e \in Episodes : CallWorkerTool(e) \/ EpisodeStep(e)
    \/ Cancel \/ UserAnswers \/ Crash

Spec == Init /\ [][Next]_vars

\* An episode that runs is not stopped for ever: the remote worker, the server
\* and the disk answer, fail or time out.
FairSpec == Spec /\ \A e \in Episodes : WF_vars(EpisodeStep(e))

-----------------------------------------------------------------------------
(* Properties *)

TypeOK ==
    /\ row \in Rows
    /\ \A j \in Jobs :
        /\ jobs[j].worker \in Workers \union {"none"}
        /\ jobs[j].selected \subseteq Jobs
        /\ jobs[j].status \in {"none", "running", "completed", "timeout", "error"}
        /\ jobs[j].verdict \in Verdicts \union {"none"}
        /\ jobs[j].files \subseteq Artifacts
        /\ ToSet(log[j]) \subseteq Artifacts \union {"started", "completed", "timeout", "error"}
    /\ \A e \in Episodes : ep[e].job \in 0..MaxJobs /\ ep[e].seen \in Rows /\ ep[e].before \in Rows
    /\ code \in CodeSizes \union {0}
    /\ issued \in 0..MaxJobs /\ faults \in 0..MaxFaults /\ raced \in BOOLEAN
    /\ leaked \subseteq Jobs

\* A pass that anyone can read of a job record is backed by every file the worker
\* had to deliver, on disk and announced before the end was (call_worker).
PassedJobHasItsFiles ==
    \A j \in Jobs : jobs[j].verdict = "passed" =>
        /\ Required(jobs[j].worker) \subseteq jobs[j].files
        /\ Required(jobs[j].worker) \subseteq ToSet(SubSeq(log[j], 1, Len(log[j]) - 1))

\* The evidence a task points at exists: every pointer names an ended, completed
\* job and a file it wrote, in spite of crashes, failed writes and overwritten
\* rows (_project_files, _persist_file_writes).
EvidenceIsOnDisk ==
    /\ \A i \in Evidence(row) \union {<<"requirements", row.requirements>>} :
        i[2] # NoJob => i[1] \in jobs[i[2]].files /\ jobs[i[2]].status = "completed"
    /\ row.code => code > 0

\* As long as nothing raced, the counter of parallel workers and the references to
\* them are exactly the calls in progress and those a crash cut off: a slot is
\* neither lost nor given back twice (_record_active_worker,
\* _decrement_active_worker_counter, _restore_active_worker, cancel_task).
SlotsAreExact ==
    LET inCall == {ep[e].job : e \in {e \in Episodes : Holding(e)}} IN
    (~raced /\ row.status # "cancelled") =>
        /\ row.active = inCall \union leaked
        /\ row.parallel = Cardinality(row.active)

\* No call is made a third time after it failed twice in the same way, unless two
\* episodes ran beside each other (_debounced_worker_retry_result).
RetriesAreBounded ==
    ~raced => \A j \in Jobs : \A t \in FailureType(j) :
        Cardinality({k \in Jobs : /\ SameCall(k, jobs[j].worker, jobs[j].inputs, jobs[j].selected)
                                  /\ t \in FailureType(k)}) <= 2

\* A worker that answers after the cancellation changes nothing of what the task
\* knows, as long as nothing raced: the status, files, failures and results stay
\* (handle_worker_result, audit only).  References and counters do move.
LateResultsChangeNothing ==
    [][(row.status = "cancelled" /\ ~raced') =>
        row' = [row EXCEPT !.parallel = row'.parallel, !.used = row'.used,
                           !.active = row'.active]]_vars

\* Cancellation prevents further worker dispatch, as its specification says.
NoDispatchAfterCancel ==
    [][row.status = "cancelled" =>
        \A j \in Jobs : jobs[j].status = "none" => jobs'[j].status = "none"]_vars

\* Every call of a worker tool comes back to the Main Agent, after at most
\* MaxRetries busy answers (call_worker, _stream_with_retries).
EveryCallReturns == \A e \in Episodes : (ep[e].pc # "idle") ~> (ep[e].pc = "idle")

\* The abstract specification of a job; what a job did is read off its events.
Life(j) == IF log[j] = <<>> THEN "none"
           ELSE IF Last(log[j]) \in {"completed", "timeout", "error"} THEN jobs[j].verdict
           ELSE "running"

Ledger == INSTANCE JobLedger WITH
    life <- [j \in Jobs |-> Life(j)],
    counted <- row.completed,
    closed <- (row.status = "cancelled")

LedgerSpec == Ledger!Spec
=============================================================================
