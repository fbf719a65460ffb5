# Formal verification of router_agent

TLA+ models of the backend that runs PLC engineering tasks with a "Main Agent"
(a language model with tools), the TLC configurations that check them, and
machine-checked proofs (TLAPS) of their main theorems. Paths below are relative
to `src/backend/app/` unless they start with `src/`.

## 1. Inventory

A user posts a request; the API creates a *task* (one database row that holds the
whole `TaskState` as JSON) and schedules a *Runtime invocation* as a background
task of the web process. The invocation claims a lease in the row, runs one
*episode* of the Main Agent loop (model turn, tool calls, model turn, ...) and
releases the lease. Tools call *workers* (develop, test, verify, repair) through
an MCP adapter; their results are projected into the row. Every step appends
*events*, which browsers follow over server-sent events. The user may post
messages and cancel at any time; all of these run beside each other in threads
of one process, each with a database session of its own (PostgreSQL, READ
COMMITTED, `autoflush=False, expire_on_commit=False`).

| Component | State | Operations | Interacts by | What makes it correct |
|---|---|---|---|---|
| Runtime service (`services/runtime_service.py`) | `metadata.runtime` of the row: episode status, id, `lease_until` | start, resume after message, follow-up answer, claim, release, record exception | task row | at most one episode per task; a lease ends with its own episode; it is freed after a crash; waiting tasks are resumed |
| Task API and service (`api/tasks.py`, `services/task_service.py`) | task row, message files | create, append message, cancel, delete | row, background tasks | terminal states are final; messages take effect |
| Main Agent service and loop (`agents/main_agent.py`, `agents/observability.py`) | agent runs, turn and stop-block counts, run files | run episode, turns, stop decision, finalization, error paths | row, tools | bounded loop; no finalization over a terminal state |
| Agent tools (`agents/tools.py`) | row: plan, questions, counters, tool records | update_plan, clarification, worker tools, parallel batch, files, commands, reports, gate | row, adapter | tools respect the status; counters balance |
| Scheduler guard (`services/scheduler_guard.py`) | none (rules over the row) | validate single, repair and parallel calls | called by tools on a row read before | no call beyond the limits or on stale inputs |
| Worker result handler (`workers/worker_result_handler.py`) | gates, failures, current files, counters | apply dev/test/formal/repair result | row | evidence is about the current code; a result counts once |
| Quality gate (`services/quality_gate.py`) | gate results | assess, run | row, gate table | success only with evidence |
| MCP adapter, job records (`mcp/adapter.py`, `repositories/worker_job_repo.py`) | job rows | create job, call, complete | workers, events | every job gets one terminal state |
| Event log and streams (`repositories/event_repo.py`, `services/event_service.py`) | `event_seq` of task and session, event rows | append, list, stream | everyone appends | sequences without gaps or repeats; streams miss nothing |
| Agent sessions (`services/session_service.py`, `repositories/session_repo.py`) | session row with its own `event_seq`, agent runs | create, append message, update, delete | tasks, events | the session's log is that of its tasks, merged; a run says what its events say |
| Subagent HTTP client (`mcp/subagent_client.py`) | a stream of server-sent events | one POST, read events until the stream ends, make a draft, retry when busy | HTTP, adapter | a flaw is never read as a pass; a call ends |
| Mock and LLM workers (`mcp/mock_worker.py`, `mcp/llm_worker.py`, `mcp/server.py`, `mcp/client.py`) | none | make a draft, fall back, classify errors | adapter | drafts that are accepted have their files |
| Artifact store (`storage/artifact_store.py`) | content files, artifact rows | write, register, read | tools | a row has its file, with the content it was written with |
| Repositories (`repositories/task_repo.py`, `core/database.py`) | rows | locked and unlocked read, whole-row write | all | |
| Frontend (`src/frontend/src/features/task-workspace`) | event list, cursor, task copy | stream, poll, reconnect, switch streams | HTTP | shows the log's prefix; catches up |
| Others: trace summary, final report, evaluation suite, launcher, schemas | | | | see section 7 |

The behaviours that are hard here come from one design decision: the task is one
JSON document, some paths write it under `SELECT ... FOR UPDATE`, and others
read it without a lock and write **all** of it back. Cancel, lease expiry, slow
model calls and crashes fall between those reads and writes. `PROJECT.json`
lists the hazards with the line at which each bites.

## 2. Plan

The order was: the life of a task (`RuntimeEpisodes`), its evidence
(`TaskEvidence`), the life of a worker call (`WorkerDispatch` on `LocalWorkers`
and `WorkerDrafts`, refining `JobLedger`), what a remote worker's stream is read
as (`SubagentReports`), the event logs with their readers (`EventLog`, refining
`EventJournal`), and the loop with its workspace (`ToolLoop`). All of them have proofs.

```
WorkerDrafts <- LocalWorkers <- WorkerDispatch <- MCWorkerDispatch
      ^                              |  ^
      |                              |  +-- WorkerDispatch_proofs <- WorkerResults_proofs
      |                              +-- INSTANCE ... WITH --> JobLedger
      +------ SubagentReports <- MCSubagentReports, SubagentReports_proofs
EventLog <- MCEventLog, EventLog_proofs
      +-- INSTANCE ... WITH --> EventJournal
ToolLoop <- MCToolLoop, ToolLoop_proofs
TaskEvidence <- MCTaskEvidence, TaskEvidence_proofs
RuntimeEpisodes <- RuntimeEpisodes_proofs
Rankings <- SubagentReports_proofs, EventLog_proofs, ToolLoop_proofs
```

Left, in order of use:

1. To be proved next: every invariant, action property and refinement of the runs is
   a theorem now. What is left is to say for each claim that a run refutes under
   which condition it does hold (a cancelled task that no episode has looked at is not
   finished; a session that nobody writes to is deleted with all its tasks).
2. To be modelled next: the frontend's fetching of task states beside its
   events, the output files of long results under `.router`, the removal of
   workspaces.

Invariants are conjunctions of named parts, no module uses a RECURSIVE operator,
and constants carry named assumptions.

## 3. Modules

### RuntimeEpisodes

The task row, the HTTP handlers that change it and all Runtime invocations of
one task, interleaved at the granularity of database transactions.

| TLA+ | code |
|---|---|
| `row` | the committed `TaskState` row: status, an open required question (`asked`), past intake (`typed`), recorded messages (`msgs`), `metadata.runtime` (`lease`) |
| `pc[i]` | where invocation `i` is; `Start` is the invocation scheduled at creation, message `m` is both the handler of that message and the invocation it schedules |
| `copy[i]` | the row as read without a lock by a transaction that will write all of it back |
| `verdict[i]` | a decision taken on an earlier read and used later |
| `turns`, `stopBlocks` | the loop counters of `run_orchestration` |
| `expired` | episodes whose fixed 300 seconds have passed |
| `staleLease` | history: some unlocked write has put an old lease back |

Paths that read with `get_task_for_update` and commit are one action
(`ClaimEpisode`, `ReleaseEpisode`, `CancelTask`, `Finalize`, `InvocationFails`).
The others are two: a read into `copy[i]` (`ReadRow` or the read of the handler)
and a commit computed from it (`StaleWrite`). The row cannot be written between
the flush of such a write and its commit, since the flush takes the row lock.

Abstractions: the row keeps what the runtime decides on. A call of a turn with
several tool calls counts as a turn. Tools that touch neither status nor
questions appear as the rewrites of their call records. A call record or a rule
that may or may not apply is a free choice. Event appends lock the row and
change `event_seq` only; they are in `EventLog`. A failure of a
tool after its flush is a commit followed by a failure in the next phase.
Parallel batches are in `TaskEvidence`, deletion of the task is in `EventLog`.

### TaskEvidence

What the tools of one episode make of worker results. The tools of an episode
run one after the other, so a tool is one action; a worker call is admitted,
started and answered in three, and the user may cancel in between.

| TLA+ | code |
|---|---|
| `task` | the committed `TaskState` as one flat record: status, `task_type`, gates, current files, failures, counters |
| `queue` | worker inputs of the current tool call that are not dispatched yet (more than one only for `run_parallel_workers`) |
| `job` | the running worker call with the counters `_dispatch_worker_input` keeps for the case that it raises |
| `ProposeWorker`, `ProposeBatch` | `_prepare_domain_worker_task`, the guard and the input builder |
| `StartJob` | `_record_active_worker`, `create_job` |
| `ApplyResult` | `handle_worker_result` with `_apply_result` and the decrement that follows it |
| `RetainResult`, `JobRaises` | a result for a terminal task; an exception with `_restore_active_worker` |
| `RecordValidation`, `RunQualityGate` | the tools of these names |
| `WriteCode`, `WriteReport`, `EditInPlace` | `write_file`, `apply_patch`, `exec_command` |
| `UpdatePlan`, `ProposeBatch` | tools that only a scripted runner calls |
| `Cancel`, `Finish`, `AnswerQuestions` | the end of the task and the user's answer |
| `evidence[k]`, `repaired` | history: whether the last pass of a check is about the code in the workspace, and the repaired file no check has passed |

The history variables compare the row with what it cannot know, the files. A
pass is `"superseded"` once a passing development or repair worker has written a
code file, whatever its extension; for this the result handler answers. One case
it does not answer for has a value of its own, `"xml_repaired"`: a repair that
writes an XML file and nothing else makes it the current code
(`_current_file_field_for_path`), but is no change to `_repair_changed_code`, so
passes stand and no regression is owed. `MarkersFollowWorkers` and
`FirstRepairIsRetested` name this exception. A pass is `"drifted"` if the code
changed in another way (a file tool, a failing worker, an exception after the
files were written), which the code does not claim to notice.

Abstractions. A result carries its outcome, at most one code path and one
failure, and whether reports, a patch and clarification questions are among its
files. A failing trace or a counterexample comes with the report of the check.
`difficulty` has its initial value, since nothing in the code raises it. Task types whose
only demand is code are one. What the input builder and the debounce of repeated
failures reject is a free choice. Of an `incomplete` result (the execution did
not complete) only the failures count, as in the code. Concurrent writers of the
row are the subject of `RuntimeEpisodes`; crashes during a worker call are in
`WorkerDispatch`.

### JobLedger

What the dispatch promises of a job, with nothing of how: it starts once, ends
once with a verdict that stands, and its result is counted once, after the end
and never while the task is closed. Where rows are written from stale copies
(`raced`), counted results may be lost or come back and a closed task may reopen,
but no result is counted that did not end. `WorkerDispatch` implements it with
`life[j]` read off the events of job `j` and its record (`Life`), `counted` the
row's `completed_worker_job_ids` and `closed` a cancelled status.

### WorkerDrafts, LocalWorkers

No state: the pure part of `mcp/`. `WorkerDrafts` has the guesses by which the
subagent client reads a report (`Find`, `TestStatus`, `FormalStatus`,
`RepairPassed`: the first key that matches decides, whatever its type), the
draft it makes of a stream of events for each worker (`DraftFrom`), and the
rules a draft is accepted by (`Acceptable`). `LocalWorkers` has the scenarios of
the mock, the normalization, parsing and fallback of a language model's reply,
and the error classes of the MCP client. A report is the entries of all its
objects, however deep, in the order in which `_find_first_key` meets them, and
its listed properties by status and reason. A value is a boolean, a number, a
number as text, a text (by the words and parts the client looks for) or anything
else. A draft is its outcome, the types of the files it writes and whether it
asks. Other texts and contents of files are left out.

### SubagentReports

One remote call as its events arrive (`received`), with the draft that is made
when the stream ends, which may be after any event. Every stream carries the
truth it reports (how many cases or properties failed and were not checked), so
that what the client makes of it can be compared with what was said.
`StreamsAssumption` says what it means that an author is truthful (`Truthful`): under
every key it uses, a report of a test or a formal check says what the truth of the
whole run is. How many facts it states, under which of the keys, in which order, at
which depth and as numbers or texts is open. Three things the client takes for
passes although something is wrong are excluded there, and are no more than what the
client relies on: results per case under the known keys (the first of the list
decides), `"1"` as the text of `passed` (`_bool_signal` reads yes), and an unchecked
property that is known only by a status outside the documented ones
(`passed`, `failed`, `not_checked`, `error`), such as `timeout`, which
`_formal_property_is_problem` does not count.

### WorkerDispatch

One call after the other from the tool to the row, for each episode; a second
episode runs beside the first as it can when a lease has expired.

| TLA+ | code |
|---|---|
| `row` | the committed row, reduced to what the guards and the next inputs depend on: status, pointers to reports (as the job that wrote them), open failures, references and counters |
| `jobs`, `log` | the worker job records and the events of each job |
| `code` | size of the code file in the workspace, whose snapshot is part of a request |
| `ep[e]` | where episode `e` is in a call, with the row as it last read it (`seen`) and as it was before the call (`before`, kept by `_dispatch_worker_input`) |
| `CallWorkerTool` | `_call_worker_tool` up to its guards and `_debounced_worker_retry_result` |
| `ReadForRecord`, `StartJob` | `_record_active_worker`, `create_job` and the start event |
| `MockAnswers`, `SubagentAnswers`, `SubagentBusy`, `RequestFails`, `ServerAnswers` | `McpAdapter.call_worker` for each route, with the ways it fails |
| `WriteFile`, `WriteFails`, `Finish` | `_persist_file_writes`, `complete_job` |
| `ReadForProjection`, `Project`, `Retain`, `Decrement` | `handle_worker_result` and `_decrement_active_worker_counter` |
| `HandlerRaises`, `Restore` | the exception path with `_restore_active_worker` |
| `Cancel`, `UserAnswers`, `Crash` | the user, and the death of the process |
| `faults`, `raced`, `leaked` | bound of faults; history: whether episodes or writes have raced, and the jobs a crash cut off |

A step ends at a commit. Abstractions: `worker_config` overrides and
non-blocking clarification questions are left out, gates are in `TaskEvidence`, and so are
parallel batches (which dispatch their calls one after the other).

### EventLog

The rows of one session and its tasks under PostgreSQL's row locks, and one
browser.

| TLA+ | code |
|---|---|
| `task`, `session` | existence and `event_seq` column of the rows, and a version for the state document of a task |
| `log`, `sessionLog` | the event rows of each task and of the session |
| `run` | the status column of the `agent_runs` row |
| `txn[w]` | the open transaction of a request or thread: rows it holds, the row it has written, the events it has inserted, the run's status as it last read or wrote it under the session's lock |
| `BeginCreate`, `BeginMessage` | `create_session` and `append_message` up to the row of the new task; the message is a 404 when the session is gone |
| `FindSession`, `LoadSession`, `LinkSession` | the second lookup in `create_task`: the session is created again when it has been deleted meanwhile, or read once more and updated (`update_session`, whose `max` is `Carried`); then the run |
| `past` | history: whether an insert has met the unique constraint of a log, whether a message has carried an old number into the session's row, and the tasks that deletions of the session have left behind |
| `BeginWrite`, `Rewrite`, `AppendEvent`, `AppendSessionEvent` | a change of the state by `update_task_state`; the two halves of `append_event` |
| `Commit`, `Fail`, `BreakDeadlock` | the end of a transaction; PostgreSQL rolls back one of two that wait for each other |
| `BeginDelete`, `BeginDeleteSession`, `DeleteSessionRow`, `DeleteTaskRow`, `CommitDelete` | deletion |
| `view` | the hook `useTaskEvents`: stream, cursor, events shown, timers; `sent` and `wire` are the generator's cursor and the connection |
| `Follow`, `Signal`, `Poll`, `Receive`, `StreamBreaks`, `Reconnect`, `CloseStream` | the effects and callbacks of the hook and one turn of `iter_event_stream` or `iter_session_event_stream` |

`Ordered` is `ORDER BY seq` of the queries and the sort of the hook.

Four types of event stand for all: the first of a task, one that starts a run,
one that ends it and is terminal, and one that streams hide.

A session can be created again under its id: `delete_session` may commit between the
lookup of `append_message` (session_service.py:87) and that of `create_task`
(task_service.py:144). The new session starts with an empty log and number 0, beside
tasks the deletion may have left behind (`past.orphans`), which have no run row any
more and go on copying their events into it. What the properties say then:

* the new log holds of such a task what follows some point of its log, with nothing missing
  in between (`SessionLogMergesTaskLogs`), and the task's run stays absent (`RunFollowsLog`);
* numbers stay dense, unless the session is deleted and created again between the two
  reads of one message: `max` then keeps the number of the session that is gone
  (`past.carried`), and the new log has a gap or refuses an append;
* `ShownIsThePrefix` is not claimed of a browser that has followed the session since before the
  deletion (`view.born`): its cursor and events outlive the old log, so it resumes
  the new one after a number that meant another event.

### EventJournal

What the event log promises its readers, with nothing of transactions, locks, numbers
and streams: a task's log opens with its creation, a batch of events enters the log of its task and
that of the session in one step, behind all that was there, and a log ends with its
deletion. A task's is then gone for good; a session that a new task brings back starts a
new story, which may miss the beginnings of the tasks that were left behind (`left`), of
which it tells whatever happens from some point on. `EventLog` implements it with `life` read off the rows (`Existing`),
`told` the types of the events of each task (`Told`) and `story` the session's events without
their numbers (`Story`) and `left` its `past.orphans`. Tasks may outlive their session,
as `EventLogOrphan` shows.

### ToolLoop

The loop of one episode after the other over model turns and tool calls, with
the workspace.

| TLA+ | code |
|---|---|
| `row`, `work` | the committed row and the row as the episode's database session sees it: records of tool calls, current files, artifacts, final report |
| `disk`, `store` | the workspace (a source file, a directory, a report in it) and the artifact files |
| `leftover` | a command that timed out has left processes behind |
| `messages`, `queue`, `turns`, `blocks` | conversation, calls of the turn, counters of `run_orchestration` |
| `ModelCallsTools`, `ModelStops`, `ExceedTurns` | a model turn and the limits |
| `RecordCall`, `RunTool`, `RecordResult`, `RefuseCall` | `_execute_tool_call` with the recorder's commits |
| `ListFiles` ... `WriteFinalReport` | what each workspace tool may return and leave behind |
| `LeftoverWrites`, `Resume`, `Crash` | the rest |
| `removed`, `truth` | history: recorded paths that commands took away; how each call ended |

The tools of the other modules are one call here (`elsewhere`), which may end the
loop. A path is listed or read with the outcomes its content allows; sizes are
small or larger than the active context keeps.

`write_artifact`, `register_workspace_file`, `read_artifact` and `write_final_report` are
methods of `AgentToolService` but not in the registry the loop offers the model
(`get_main_agent_tool_registry`); the model has them as calls like the others, so it
allows more than the loop does today. A shell command is taken to stay in the workspace,
though `exec_command` could reach the artifact files as well: `WorkspaceBacksRow` says
nothing of artifacts that a command deletes. The `task_id` the model puts into a call
is taken to be the episode's, and one episode runs at a time
(`RuntimeEpisodes` says when that is so).

### MC modules

`MCTaskEvidence`, `MCSubagentReports`, `MCWorkerDispatch`, `MCEventLog` and
`MCToolLoop` define the sets TLC needs; section 5 says which.

### Modules of proofs

`RuntimeEpisodes_proofs`; `TaskEvidence_proofs`; `WorkerDispatch_proofs` and
`WorkerResults_proofs`, which extends it; `SubagentReports_proofs`; `EventLog_proofs`;
`ToolLoop_proofs`. `Rankings` holds what the last three need of finite sets of
numbers: a least element, the rank of an element, the last few, and that the
increasing enumeration exists and is the only one. See section 6.

## 4. Runs

| Run | Instance | Shows |
|---|---|---|
| `Episodes` | 1 message, 2 turns, 1 fault | `TypeOK`; a lease recorded as given up belongs to an episode that is over (`LeaseRecordTruthful`); one live episode at most while no unlocked write has put an old lease back (`ExclusiveUnlessStaleWrite`); a settled terminal task is final (`TerminalIsFinal`) |
| `EpisodesLive` | 1 message, 1 turn, 1 fault, fair | every handler and background task ends; a message to an idle waiting task makes it leave the waiting state unless a step fails; the lease gets free again and again, also after a crash |
| `EpisodesStaleFinish` | violation | a cancel is overwritten by the terminal write of an episode that looked at the status earlier |
| `Evidence` | 2 failures, 1 structured-text and 1 XML code file, 3 calls, 2 repair rounds, 2 parallel | `TypeOK`; the blocking flag tells the truth (`FlagTruthful`); the gate's pass is withdrawn by failures and owed regressions (`SuccessMarkerIsClean`); passes do not survive new code, unless a repair wrote XML (`MarkersFollowWorkers`); the row passes its own validator (`RowReadable`); slots are given back (`CountersBalance`); the first repair is retested, unless it wrote XML (`FirstRepairIsRetested`); failures are never lost or reopened (`FailuresAreKept`); a cancelled task keeps late results out (`LateResultsChangeNothing`) |
| `EvidenceSecondRepair` | violation | a second repair that changes no code clears the regression that the first one owes |
| `Reports` | truthful reports of 2 cases or properties, 3 facts | no truthful report of a flaw is read as a pass (`NoFalsePass`); a pass has the files the adapter then asks for (`PassIsAcceptable`); error events and broken data never end in a pass (`ErrorsDecide`) |
| `ReportsDocumented` | violation | a report in the documented form, of a run in which everything passed, is made a failure |
| `Dispatch` | 3 calls, 2 episodes, 1 fault, 1 busy answer, fair | `TypeOK`; a pass has its files (`PassedJobHasItsFiles`); a pointer names a file of a completed job (`EvidenceIsOnDisk`); slots are neither lost nor given back twice (`SlotsAreExact`); no call is made a third time after it failed twice alike (`RetriesAreBounded`); after a cancel results change nothing (`LateResultsChangeNothing`); the dispatch implements `JobLedger` (`LedgerSpec`); every call returns (`EveryCallReturns`) |
| `DispatchAfterCancel` | violation | a cancel between guard and start: the worker starts for a cancelled task |
| `EventLog` | 2 writers and 4 events, on 2 tasks with rewrites or on 3; a browser with 1 writer and 3 events, or 2 writers and 2; fair | `TypeOK`; numbers have no gaps (`LogsAreDense`); no append is refused (`NoAppendIsRefused`); the session's log merges its tasks' (`SessionLogMergesTaskLogs`); a run says what its log says (`RunFollowsLog`); an append never undoes another's state (`AppendsKeepTheState`); the rows implement `EventJournal` (`JournalSpec`); what is shown is the visible prefix (`ShownIsThePrefix`), and it catches up (`ViewsCatchUp`) |
| `EventLogOrphan` | violation | a message to a session that is being deleted leaves a task without one |
| `ToolLoop` | all tools in 2 calls, 5 tools in 3, 2 episodes | `TypeOK`; what the row says of files is backed by files (`WorkspaceBacksRow`); a closed record names the outcome of its own call (`RecordsTellTheTruth`); each request is the conversation with only old large results shortened (`RequestsAreWellFormed`) |

Definitions marked "faulty variant" in the modules are plausible bugs of the
definition they stand before; with one in its place the property that
`PROJECT.json` ("mutants") names is violated.

Every violation is a disagreement between the code and `src/openspec/specs` or
`src/docs`; `PROJECT.json` quotes both.

## 5. Bounds and fairness

`RuntimeEpisodes`: two turns allow a tool call whose effect the next turn meets,
one message gives two concurrent invocations plus the handler and the canceller;
all races of the findings need no more, and the theorems cover any number. One
fault covers a crash or exception at every point. The deadlock check is off
because a task that has ended stops.

`TaskEvidence`: three worker calls are enough for check, repair and recheck (code
may also come from `write_file`), two repair rounds for one repair to meet the
debts of another, one failure of each kind for a result to resolve the one and
keep the other. Two parallel workers let a batch be admitted at all. One code
path of each kind suffices: which path is current matters only to whether
code exists and to whether a check was about it. The deadlock check is off for the same reason as above.

`WorkerDispatch`: three calls are the least that can show a third attempt at a
failing call, or develop, check and repair. Each worker is behind another route
(`MixedRoute`), so that all of them, with their failures, are in one run. A
second episode enters beside the first in the first two calls only
(`MaxBeside`): a race needs one call of each. One fault is a crash, a failed
write or an exception at any point, one busy answer meets `MaxRetries`. Of two
sizes of code one exceeds `MaxChars`, so a request may be impossible to build.
`DispatchAfterCancel` needs one episode and the mock. The theorems have none of these bounds.

`EventLog`: two writers with four events let each transaction append, to one task or two,
beside a create, a rewrite or a deletion of the other, deadlock included. With three
tasks one can outlive the session, be written to, and see the session created again by the
third. The browser is watched with one writer, since it sees commits only: three events
and three moves (lost connections, signals, changes of stream) let it lose a
stream, come back and change it with events on both sides; and with two writers and two
moves, so that the session it follows is deleted and created again. A number is
carried over only by three transactions at once (a message, a deletion and the message
that creates the session again), which is left to the theorems.

`ToolLoop`: every tool with every outcome in two calls, of one turn or two, with a
crash anywhere and an episode after it; three calls of the tools that
interfere (a file is written, registered, read back); and the read-only mode.
`KeepRecent` is 1, so that with two results one is old.

`SubagentReports`: two cases or properties, of which one fails, or is not checked, or
both; three of the facts a truthful author may state, in any order, as numbers,
booleans or text, beside a property that was not checked, failed to run or timed
out; error events and data that is no JSON; and a cut after any event.

Deadlock is off in these too: an episode, a call, a stream or a history that has ended stops.

Fairness. `EpisodesLive`: weak fairness of each invocation's own steps, of message
handlers once they have started and of time (`LeaseExpires`): handlers and background
tasks are run to their end by the web server, and a lease is a fixed instant.
`Dispatch`: weak fairness of each episode's steps, because a remote worker, the
server and the disk answer, fail or time out (the clients set timeouts).
`EventLog`: weak fairness of `Poll`, `Receive` and `Reconnect`, because the
generator polls for as long as its connection lives and the browser's timers
fire; nothing is assumed of transactions. Nothing is ever assumed of users:
nobody has to post a message, answer or cancel.

## 6. Proofs

`RuntimeEpisodes_proofs` proves for every set of messages, every number of turns
and faults, from `ConstantsAssumption` only:

* `TypeCorrect`: `Spec => []TypeOK`. The frame lemmas (`*Types`) say what a
  locked and an unlocked write do to the types.
* `LeaseTruth`: `Spec => []LeaseRecordTruthful`. The property is stated about
  the row *and* all copies, which makes it inductive with `TypeOK`.
* `Exclusion`: `Spec => []ExclusiveUnlessStaleWrite`. Uniqueness alone is not
  inductive: a claim needs to know that a live episode is recorded in the row.
  The property says so, together with `LeaseRecordTruthful`.
* `Finality`: `Spec => TerminalIsFinal`. Every action either is disabled in a
  settled state or writes a copy with the same status.

`TaskEvidence_proofs` proves for every set of failures and code files, every plan,
batch and limit, from `EvidenceAssumption` only. Each operator of the result
handler has a lemma on types (`*Types`) and one on what it does to failures,
markers and counters (`*Facts`, `*Gates`); `AppliedFacts` and `AppliedGates` put
them together for a whole result, `Validated*` for a validation report, and
`QuietSteps` says that no other step touches failures, markers or debts.

* `TypeCorrect`: `Spec => []TypeOK`.
* `FlagTruth`, `MarkersTruth`, `CleanSuccess`: `[]FlagTruthful`,
  `[]MarkersFollowWorkers`, `[]SuccessMarkerIsClean`, each inductive with `TypeOK`.
* `FailuresKept`, `LateResults`: the action properties `FailuresAreKept` and
  `LateResultsChangeNothing`.
* `CountersTruth`: `[]CountersBalance`. Not inductive alone: an exception writes
  back the counter remembered before the call, so `CountersInv` adds that the
  running job remembers an idle task.
* `FirstRepair`: `Spec => []FirstRepairIsRetested`. The invariant `RepairInv` says
  that an unchecked repaired file that is not XML owes a regression test until a second repair; with `SuccessMarkerIsClean` the gate cannot have passed.
  `EvidenceSecondRepair` shows that "first" is needed. The labels of the history are
  set from the files a result wrote, never from `_repair_changed_code`.

* `Readable`: `[]RowReadable`. Limits are looked at when a call
  is admitted, while counters go up when it starts and are written back when it raises. So
  `LimitsInv` speaks of what is still queued: the counters with the queue are within
  the limits (`Admitted`), and so is what a running job remembers (`Remembered`). A repair is
  admitted alone and runs alone, which is why one look at the number of rounds is enough. That
  success has no blocking failure uses `FlagTruthful`.

`WorkerDispatch_proofs` proves for every number of episodes and jobs, every route, limit,
stream and reply, from `DispatchAssumption` only. Its invariant `IInv` has four
parts. `Typed`: the types of all that a call carries. `Ordered`: the job of a call is as far
as the call (unborn before the start, running until its end, over after), no two
calls share a job, and no job is born before its number is drawn. `Sourced`:
every pointer and every counted result of the row, and of each stale copy of it,
names an ended job that wrote the file; the copies matter because any of them
may become the row. `Uncounted`: the result of a call in progress is counted in
no row. Frame lemmas (`CallMoves`, `RowWrites`, `JobMoves`) say what a step that
moves only calls, the row or one job leaves intact; the actions cite them.

* `TypeCorrect`, `EvidenceOnDisk`: `[]TypeOK`, `[]EvidenceIsOnDisk`.
* `LateResults`: the action property `LateResultsChangeNothing`.
* `LedgerStep`, `Refinement`: `Spec => LedgerSpec`. Each step is a step of
  `JobLedger` or a stutter; `Stages`, `SameLives` and `OneLife` say what events make of
  `life`, and `Ordered` and `Uncounted` give the guards of `Start`, `End` and `Count`.

`WorkerResults_proofs` adds to `IInv` three invariants that follow the call of each episode.

* `PassesHaveFiles`: `[]PassedJobHasItsFiles`. In `FilesInv` each file a writing
  call must deliver is still before it or on disk and announced (`Promised`), so when
  nothing is left the pass has delivered (`Delivered`); a call that only ends its
  job has not passed. `MockDelivers` stands in for the validation that the mock's
  drafts do not go through.
* `SlotsTruth`: `[]SlotsAreExact`. In `SlotsInv`, while nothing raced, one episode
  at most is in a call (`Alone`); the slots are that call and what crashes left,
  and what the call remembers for restoring is what crashes left (`Counted`); and a
  result that is kept without being merged means a cancelled row (`Settled`), whose slots are
  cleared. `Apart` keeps the number of a job cut off by a crash from being drawn again.
* `RetriesStop`: `[]RetriesAreBounded`. That at most two calls with the same request failed
  alike is not inductive: the debounce looks at the records before a call starts, and
  they may grow until it ends. In `RetryInv`, a call on its way has met fewer than two such
  failures (`Admitted`) and its record names its request (`Recorded`). Since `Alone`
  holds while nothing raced, no other call fails in between, and
  a failing call makes them two.

`SubagentReports_proofs` proves for every set of streams with `StreamsAssumption`. The
invariant says that the draft is `DraftFrom` of the events heard, so the rest is
about that operator. `Find` takes the first key that matches, whatever its type, and the proofs go through the keys as they stand in the report.

* `TypesHold`, `ErrorsAreFinal`: `[]TypeOK`, `[]ErrorsDecide`.
* `PassesAreAccepted`: `[]PassIsAcceptable`; a draft that passes has the kinds of file
  the adapter looks for, for each worker.
* `PassesAreTrue`: `[]NoFalsePass`. Whichever key decides, its author has said nothing
  but the truth under it; a formal check with unchecked properties shows them under
  one of two forms, and either one keeps `FormalStatus` from passing.

`EventLog_proofs` proves for any tasks, writers and bounds, from `EventLogAssumption`
only. The invariant `DInv` is about locks: no two transactions hold the same row
(`Exclusive`), what a transaction has numbered hangs on a row it holds
(`WellFormed`) and goes on where the committed log ends (`Fits`), and every task's log is
dense. A commit changes the log of a row its transaction holds, so all others still fit.
The session's log has a part of its own (`Ordinary`, `Continues`), which holds until a
message carries an old number into it.

* `NumbersAreDense`, `NothingIsRefused`: `[]LogsAreDense`, `[]NoAppendIsRefused`.
* `AppendsUndoNothing`: the action property `AppendsKeepTheState`.
* `LogsAreMerged`, `RunsFollow`: `[]SessionLogMergesTaskLogs`, `[]RunFollowsLog`, from
  `SInv`. The committed logs agree (`Merges`, `Tells`) because every transaction is
  one copy behind its events at most, but for those it wrote to a task left behind while
  there was no session (`Mirrors`, `Skipped`), and what it knows of the run is what the
  session's log with its own copies tells (`Known`), which the session's lock keeps true.
  A task there without a session, or without a run, is one that a deletion left behind.
* `ThePrefixIsShown`: `[]ShownIsThePrefix`, from `VInv`. `Level` relates four places: what
  is shown ends at the cursor, the wire holds exactly the visible events between the cursor
  and the generator's place, that place is within the log. Commits only add behind it. A
  browser whose session was created again after it began to follow is not `Tracked`.
* `JournalStep`, `JournalIsKept`: `Spec => JournalSpec`. A commit is a `Create` or a
  `Publish`, a committed deletion a `DeleteTasks` or a `DeleteSession`, every other step a
  stutter. `Mirrors` makes what a commit adds to the session the copy of
  what it adds to the task, but for its first `Skipped` events; `JInv` adds what each kind
  of transaction may append.
* `TypesHold`: `[]TypeOK`, for which `Bounded` keeps every numbered row, committed or
  not, below the number of events appended, and `Inserted` counts the sessions.

`ToolLoop_proofs` proves for every set of tools and any number of turns, calls and
episodes, from `ToolLoopAssumption` and `KitsAssumption` only. One lemma per kind of tool says what it may
return (`GoodResult`). The invariant adds to the types (`Typed`) that the row
*and* the session's view are backed by files (`Backed`), that queued calls have rising
numbers beyond all records (`Queued`), that the call being run owns the last record
(`Tied`), which is why closing records by name alone closes the right one, and
what a record left running means (`Told`).

* `TypeCorrect`, `FilesAreThere`, `RecordsAreTrue`: `[]TypeOK`,
  `[]WorkspaceBacksRow`, `[]RecordsTellTheTruth`.
* `RequestsAreGood`: `[]RequestsAreWellFormed`. In `Talk` each call of a turn is answered at
  its place behind the turn or is still queued at the place it will be answered
  from (`Settled`); when the queue is empty and the model is asked, all are answered.
  `Compaction` says what shortening does to a conversation: roles, calls and the
  last results stay.

`SelectSeq`, sorting and folds are recursive in their libraries, so what they return
cannot be proved. The models define what they need of them by the set of
positions or numbers they keep and its increasing enumeration, which
`Rankings` has the facts of; these rest on the well-foundedness of the naturals.

Model-checked only: the violations, and liveness under fairness
(`EveryInvocationEnds`, `IdleWaitingTaskIsResumed`, `LeaseEventuallyFree`,
`EveryCallReturns`, `ViewsCatchUp`), which needs ENABLED and is out of the
prover's reach.

## 7. Not modelled

* The evaluation suite (`eval/`): a sequential offline program that shares no state with
  the service. What it computes are scores and tables.
* Trace summary and final report: pure projections of the row and the events.
* The launcher and the manual test scripts: process start-up.
* Schemas and configuration: data declarations, used as the types of the
  modelled state.
* Of the frontend, the fetching of task states and lists and all rendering.
* Of the tools, the output files of long results under `.router` and the
  directories of workspaces, which are made with a task and removed with it.
* Texts: prompts, requests to workers, reports, file contents beyond the few kinds
  that decide an outcome.

`PROJECT.json` lists for each component what is missing of it. Three hazards there have no
property: in these places the code has no mechanism whose failure a property
could tell from its success.
