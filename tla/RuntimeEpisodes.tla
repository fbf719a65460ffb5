--------------------------- MODULE RuntimeEpisodes ---------------------------
(***************************************************************************)
(* The life of one task: the task row, the HTTP handlers that change it    *)
(* (append_user_message, cancel_task) and the background Runtime           *)
(* invocations (start_task, resume_after_user_message,                     *)
(* answer_followup_message), which run beside each other, each with its    *)
(* own database session.                                                   *)
(*                                                                         *)
(* What makes this hard is how the row is written.  It is one JSON         *)
(* document.  Some code paths read it with SELECT ... FOR UPDATE and       *)
(* commit (claim, release, cancel, the terminal write): those are single   *)
(* atomic actions here.  The others read it without a lock, change a       *)
(* field, and write the WHOLE document back (update_task_state); under     *)
(* READ COMMITTED another transaction may commit in between.  Those are    *)
(* two actions here: a read that puts the row into copy[i], and a commit   *)
(* that computes the new row from copy[i].  A row is never written halfway *)
(* because the first flush takes the row lock and keeps it to the commit.  *)
(*                                                                         *)
(* Appending an event reads the row with the lock and changes event_seq    *)
(* only; event sequences belong to another module and are not in the row   *)
(* here.                                                                   *)
(***************************************************************************)
EXTENDS Naturals

CONSTANTS
    Messages,   \* the user messages that may be posted; each schedules an invocation
    Start,      \* the invocation scheduled when the task is created
    NoEpisode,  \* the episode_id of a row that was never claimed
    NoCopy,     \* "holds no copy of the row"
    MaxTurns,   \* main_agent_max_turns
    MaxFaults   \* bound: how many exceptions and crashes a behaviour contains

Invocations == Messages \cup {Start}

MAX_STOP_BLOCKS == 2

Terminal == {"succeeded", "partial_failed", "failed", "cancelled"}
Statuses == {"created", "running", "waiting_user"} \cup Terminal
Cancellable == {"created", "running", "waiting_user"}

\* metadata.runtime: episode_status and episode_id.  lease_until is a fixed
\* instant, set when the lease is claimed and never renewed: the variable
\* expired holds the episodes for which it has passed.
Leases == [st : {"none", "running", "idle", "error"},
           ep : Invocations \cup {NoEpisode}]

\* The part of TaskState that the runtime decides on.  asked: a required
\* clarification question is open.  typed: the task is past intake and has a
\* task type.  msgs: the user messages listed in current_files.all_paths.
Rows == [status : Statuses, asked : BOOLEAN, typed : BOOLEAN,
         msgs : SUBSET Messages, lease : Leases]

ASSUME ConstantsAssumption ==
    /\ Start \notin Messages
    /\ NoEpisode \notin Invocations
    /\ NoCopy \notin Rows
    /\ MaxTurns \in Nat \ {0}
    /\ MaxFaults \in Nat

\* Phases of one tool call of the Main Agent.
ToolPhases == {"call", "plan", "clarify",
               "prepare", "guard", "callWorker", "dispatch", "project", "result"}

\* Phases in which an invocation runs a claimed episode.
EpisodePhases ==
    {"answer", "recheck", "enter", "turn", "observe",
     "report", "replay", "finalize", "release"} \cup ToolPhases

\* "start", "resume" and "followup" are scheduled background tasks;
\* "record" is the HTTP handler; "lost" is an invocation whose process died.
Phases == EpisodePhases \cup
    {"unsent", "record", "start", "resume", "followup", "followAnswer",
     "done", "lost"}

Ended == {"done", "lost"}

\* Phases that read the row without a lock and then write all of it.
RewritePhases ==
    {"call", "plan", "clarify", "prepare", "dispatch", "project", "result",
     "report", "replay", "followup"}

\* What an invocation remembers of a read it made earlier: that it may go on
\* ("go"), that it may not ("blocked"), that it ran out of turns ("exceeded").
Verdicts == {"go", "blocked", "exceeded"}

VARIABLES
    row,        \* the committed task row
    pc,         \* the phase of each invocation
    copy,       \* the row as an invocation read it and will write it back
    verdict,    \* a decision an invocation took on an earlier read of the row
    turns,      \* turns used of the Main Agent loop it is in
    stopBlocks, \* turns of that loop without content or tool call
    expired,    \* episodes whose lease_until has passed
    faults,     \* exceptions and crashes so far
    staleLease  \* history: an unlocked write has put an old lease back

vars == <<row, pc, copy, verdict, turns, stopBlocks, expired, faults, staleLease>>

TypeOK ==
    /\ row \in Rows
    /\ pc \in [Invocations -> Phases]
    /\ copy \in [Invocations -> Rows \cup {NoCopy}]
    /\ verdict \in [Invocations -> Verdicts]
    /\ turns \in [Invocations -> 0..MaxTurns]
    /\ stopBlocks \in [Invocations -> 0..(MAX_STOP_BLOCKS - 1)]
    /\ expired \subseteq Invocations
    /\ faults \in 0..MaxFaults
    /\ staleLease \in BOOLEAN

\* create_task has committed and scheduled start_task.
Init ==
    /\ row = [status |-> "created", asked |-> FALSE, typed |-> FALSE,
              msgs |-> {}, lease |-> [st |-> "none", ep |-> NoEpisode]]
    /\ pc = [i \in Invocations |-> IF i = Start THEN "start" ELSE "unsent"]
    /\ copy = [i \in Invocations |-> NoCopy]
    /\ verdict = [i \in Invocations |-> "go"]
    /\ turns = [i \in Invocations |-> 0]
    /\ stopBlocks = [i \in Invocations |-> 0]
    /\ expired = {}
    /\ faults = 0
    /\ staleLease = FALSE

-----------------------------------------------------------------------------
(* Helpers *)

IsTerminal(r) == r.status \in Terminal

\* _is_runnable(task, allow_waiting_user=False)
IsRunnable(r) == ~IsTerminal(r) /\ ~r.asked /\ r.status # "waiting_user"

\* Faulty variant: a lease is never given up.
LeaseNeverLapses == row.lease.st = "running"

LeaseActive == row.lease.st = "running" /\ row.lease.ep \notin expired

GoTo(i, phase) == pc' = [pc EXCEPT ![i] = phase]

\* update_task_state in a transaction that read the row with the lock.
LockedWrite(r) == row' = r /\ UNCHANGED staleLease

\* update_task_state in a transaction that read the row without it: whatever
\* was committed since the read is overwritten by the values of the copy.
StaleWrite(r) ==
    /\ row' = r
    /\ staleLease' = (staleLease \/ r.lease # row.lease)

NoWrite == UNCHANGED <<row, staleLease>>

\* A local variable of invocation i at the end of its scope.
Forget(i) == verdict' = [verdict EXCEPT ![i] = "go"]
LeaveLoop(i) ==
    /\ turns' = [turns EXCEPT ![i] = 0]
    /\ stopBlocks' = [stopBlocks EXCEPT ![i] = 0]

\* An invocation is over; its local variables are gone.
EndInvocation(i) ==
    /\ GoTo(i, "done")
    /\ copy' = [copy EXCEPT ![i] = NoCopy]
    /\ Forget(i)
    /\ LeaveLoop(i)

\* An unlocked read.
ReadRow(i) ==
    /\ pc[i] \in RewritePhases
    /\ copy[i] = NoCopy
    /\ copy' = [copy EXCEPT ![i] = row]
    /\ UNCHANGED <<row, pc, verdict, turns, stopBlocks, expired, faults, staleLease>>

\* What every commit of a read-modify-write has in common.
CommitFrom(i, from, to) ==
    /\ pc[i] = from
    /\ copy[i] # NoCopy
    /\ copy' = [copy EXCEPT ![i] = NoCopy]
    /\ GoTo(i, to)
    /\ UNCHANGED <<turns, stopBlocks, expired, faults>>

-----------------------------------------------------------------------------
(* HTTP handlers *)

\* POST /messages, up to the write: the handler looks the task up, writes the
\* message file and goes on with the row it already has in its session.
PostMessage(m) ==
    /\ pc[m] = "unsent"
    /\ copy' = [copy EXCEPT ![m] = row]
    /\ GoTo(m, "record")
    /\ UNCHANGED <<row, verdict, turns, stopBlocks, expired, faults, staleLease>>

\* ... the write, the commit, and the choice of background task, made from
\* the status the handler wrote.
RecordMessage(m) ==
    /\ CommitFrom(m, "record",
                  IF IsTerminal(copy[m]) THEN "followup" ELSE "resume")
    /\ StaleWrite([copy[m] EXCEPT !.msgs = @ \cup {m}])
    /\ UNCHANGED verdict

\* Faulty variant: only a repeated cancel is refused.
CancelAnyOther == row.status # "cancelled"

CancelAccepted == row.status \in Cancellable

\* POST /cancel: locked.  Other statuses are a conflict or a no-op.
CancelTask ==
    /\ CancelAccepted
    /\ LockedWrite([row EXCEPT !.status = "cancelled"])
    /\ UNCHANGED <<pc, copy, verdict, turns, stopBlocks, expired, faults>>

-----------------------------------------------------------------------------
(* Claiming and releasing the runtime lease *)

\* Faulty variants: the lease is not looked at; a resumed task must be runnable.
MayClaimHeld(i) ==
    /\ ~IsTerminal(row)
    /\ IF pc[i] = "resume" THEN row.status = "waiting_user" ELSE IsRunnable(row)

MayClaimRunnable(i) == IsRunnable(row) /\ ~LeaseActive

\* claim_runtime_episode: start_task does not run a task that waits for the
\* user, resume_after_user_message runs nothing else.
MayClaim(i) ==
    /\ ~IsTerminal(row)
    /\ IF pc[i] = "resume" THEN row.status = "waiting_user" ELSE IsRunnable(row)
    /\ ~LeaseActive

ClaimEpisode(i) ==
    /\ pc[i] \in {"start", "resume"}
    /\ MayClaim(i)
    /\ LockedWrite([row EXCEPT !.lease = [st |-> "running", ep |-> i]])
    /\ GoTo(i, IF pc[i] = "resume" THEN "answer" ELSE "enter")
    /\ UNCHANGED <<copy, verdict, turns, stopBlocks, expired, faults>>

SkipEpisode(i) ==
    /\ pc[i] \in {"start", "resume"}
    /\ ~MayClaim(i)
    /\ GoTo(i, "done")
    /\ NoWrite
    /\ UNCHANGED <<copy, verdict, turns, stopBlocks, expired, faults>>

\* Faulty variant: the release does not ask whose lease it is.
OwnsAnyLease(i) == TRUE

\* "if it still belongs to this run"
OwnsLease(i) == row.lease.ep = i

LeaseEndedBy(i, st) == IF OwnsLease(i) THEN [row EXCEPT !.lease.st = st] ELSE row

ReleaseEpisode(i) ==
    /\ pc[i] = "release"
    /\ LockedWrite(LeaseEndedBy(i, "idle"))
    /\ EndInvocation(i)
    /\ UNCHANGED <<expired, faults>>

\* The fixed 300 seconds of a lease pass, whatever its holder is doing.
LeaseExpires(i) ==
    /\ pc[i] \in EpisodePhases \/ OwnsLease(i)
    /\ i \notin expired
    /\ expired' = expired \cup {i}
    /\ UNCHANGED <<row, pc, copy, verdict, turns, stopBlocks, faults, staleLease>>

-----------------------------------------------------------------------------
(* resume_after_user_message: apply the latest message to the questions *)

\* Nothing to apply (no open question, or no recorded message): the task is
\* run only if it is runnable as it stands.
ReadForAnswer(i) ==
    /\ pc[i] = "answer"
    /\ copy[i] = NoCopy
    /\ IF row.asked /\ row.msgs # {}
       THEN /\ copy' = [copy EXCEPT ![i] = row]
            /\ UNCHANGED pc
       ELSE /\ GoTo(i, IF IsRunnable(row) THEN "enter" ELSE "release")
            /\ UNCHANGED copy
    /\ UNCHANGED <<row, verdict, turns, stopBlocks, expired, faults, staleLease>>

ApplyUserMessage(i) ==
    /\ CommitFrom(i, "answer", "recheck")
    /\ StaleWrite([copy[i] EXCEPT !.status = "running", !.asked = FALSE])
    /\ UNCHANGED verdict

RecheckRunnable(i) ==
    /\ pc[i] = "recheck"
    /\ GoTo(i, IF IsRunnable(row) THEN "enter" ELSE "release")
    /\ UNCHANGED <<row, copy, verdict, turns, stopBlocks, expired, faults, staleLease>>

-----------------------------------------------------------------------------
(* The Main Agent loop *)

\* run_episode: a terminal task is not run again (read, then start_main_agent_run
\* under the lock; a terminal status seen by either ends the episode).
StartMainAgentRun(i) ==
    /\ pc[i] = "enter"
    /\ GoTo(i, IF IsTerminal(row) THEN "release" ELSE "turn")
    /\ NoWrite
    /\ UNCHANGED <<copy, verdict, turns, stopBlocks, expired, faults>>

\* Faulty variants: one turn too many; turns that are not counted.
UseExtraTurn(i) ==
    /\ pc[i] = "turn"
    /\ turns[i] <= MaxTurns
    /\ turns' = [turns EXCEPT ![i] = @ + 1]

UseFreeTurn(i) == pc[i] = "turn" /\ UNCHANGED turns

\* One turn of the model out of max_turns.
UseTurn(i) ==
    /\ pc[i] = "turn"
    /\ turns[i] < MaxTurns
    /\ turns' = [turns EXCEPT ![i] = @ + 1]

\* The model calls a tool (each call of a turn with several is a turn here),
\* and the tool reads the task: a worker tool to prepare it, any other to
\* record the call.
CallTool(i) ==
    /\ UseTurn(i)
    /\ \E phase \in {"call", "prepare"} : GoTo(i, phase)
    /\ copy' = [copy EXCEPT ![i] = row]
    /\ UNCHANGED <<row, verdict, stopBlocks, expired, faults, staleLease>>

\* Neither content nor a tool call: the stop is blocked and the loop goes on.
EmptyTurn(i) ==
    /\ UseTurn(i)
    /\ stopBlocks[i] + 1 < MAX_STOP_BLOCKS
    /\ stopBlocks' = [stopBlocks EXCEPT ![i] = @ + 1]
    /\ UNCHANGED <<row, pc, copy, verdict, expired, faults, staleLease>>

\* The model answers, or has been blocked too often: _finalize_runtime_stop
\* reads the task now and decides from this read whether it may terminate it.
StopTurn(i) ==
    /\ pc[i] = "turn"
    /\ turns[i] < MaxTurns
    /\ LeaveLoop(i)
    /\ verdict' = [verdict EXCEPT ![i] = IF IsTerminal(row) THEN "blocked" ELSE "go"]
    /\ GoTo(i, "report")
    /\ UNCHANGED <<row, copy, expired, faults, staleLease>>

\* A provider or model-behaviour error ends the episode and leaves the status.
ProviderError(i) ==
    /\ pc[i] = "turn"
    /\ GoTo(i, "release")
    /\ LeaveLoop(i)
    /\ UNCHANGED <<row, copy, verdict, expired, faults, staleLease>>

\* MaxTurnsExceeded: _record_agent_error looks at the status once, now.
ExceedTurns(i) ==
    /\ pc[i] = "turn"
    /\ turns[i] = MaxTurns
    /\ IF IsTerminal(row)
       THEN GoTo(i, "release") /\ UNCHANGED verdict
       ELSE GoTo(i, "report") /\ verdict' = [verdict EXCEPT ![i] = "exceeded"]
    /\ LeaveLoop(i)
    /\ UNCHANGED <<row, copy, expired, faults, staleLease>>

-----------------------------------------------------------------------------
(* Tools.  Every tool call writes a record into the row before and after. *)

\* The write may also be left out: the run is not in agent_runs, or nothing
\* changes.
MaybeRewrite(i) == NoWrite \/ StaleWrite(copy[i])

\* Tools that change nothing kept here (files, commands, reports, gates) go
\* straight to "result"; a worker tool records its call after the guard.
RecordToolCall(i) ==
    /\ \/ \E body \in {"plan", "clarify", "result"} : CommitFrom(i, "call", body)
       \/ CommitFrom(i, "callWorker",
                     IF verdict[i] = "blocked" THEN "result" ELSE "dispatch")
    /\ MaybeRewrite(i)
    /\ Forget(i)

RecordToolResult(i) ==
    /\ CommitFrom(i, "result", "observe")
    /\ MaybeRewrite(i)
    /\ UNCHANGED verdict

\* update_plan rejects a terminal task; it always selects a task type.  The
\* production registry does not offer it: scripted runners call it.
UpdatePlan(i) ==
    /\ CommitFrom(i, "plan", "result")
    /\ IF IsTerminal(copy[i])
       THEN NoWrite
       ELSE StaleWrite([copy[i] EXCEPT !.status = "running", !.typed = TRUE])
    /\ UNCHANGED verdict

\* request_clarification: no look at the status.  Questions may be optional.
RequestClarification(i) ==
    /\ CommitFrom(i, "clarify", "result")
    /\ \E required \in BOOLEAN :
           StaleWrite([copy[i] EXCEPT !.status = "waiting_user",
                                      !.asked = @ \/ required])
    /\ UNCHANGED verdict

\* _prepare_domain_worker_task: an untyped task becomes running, whatever its
\* status; a typed one at most gets its gates set.
PrepareWorkerTask(i) ==
    /\ CommitFrom(i, "prepare", "guard")
    /\ IF copy[i].typed /\ copy[i].status # "created"
       THEN MaybeRewrite(i)
       ELSE NoWrite \/ StaleWrite([copy[i] EXCEPT !.status = "running", !.typed = TRUE])
    /\ UNCHANGED verdict

\* _call_worker_tool reads the task once: validate_worker_call judges that read
\* and the record of the call is written from it.  Other rules of the guard, the
\* debounce or the input builder may reject too.
ReadForGuard(i) ==
    /\ pc[i] = "guard"
    /\ \E other \in BOOLEAN :
           verdict' = [verdict EXCEPT ![i] =
               IF \/ other \/ IsTerminal(row)
                  \/ row.status = "waiting_user" \/ row.asked
               THEN "blocked" ELSE "go"]
    /\ copy' = [copy EXCEPT ![i] = row]
    /\ GoTo(i, "callWorker")
    /\ UNCHANGED <<row, turns, stopBlocks, expired, faults, staleLease>>

\* _record_active_worker and create_job.
DispatchWorker(i) ==
    /\ CommitFrom(i, "dispatch", "project")
    /\ StaleWrite(copy[i])
    /\ UNCHANGED verdict

\* handle_worker_result: audit only for a terminal task; a blocking
\* clarification request makes the task wait.  If it raises, the counters are
\* restored (_restore_active_worker), whatever the status.
ProjectWorkerResult(i) ==
    /\ CommitFrom(i, "project", "result")
    /\ \/ IsTerminal(copy[i]) /\ NoWrite
       \/ StaleWrite(copy[i])
       \/ /\ ~IsTerminal(copy[i])
          /\ \E required \in BOOLEAN :
                 StaleWrite([copy[i] EXCEPT !.status = "waiting_user",
                                            !.asked = @ \/ required])
    /\ UNCHANGED verdict

\* After each tool call the loop stops when the task is terminal or waiting.
ObserveTask(i) ==
    /\ pc[i] = "observe"
    /\ IF IsTerminal(row) \/ row.status = "waiting_user"
       THEN GoTo(i, "release") /\ LeaveLoop(i)
       ELSE GoTo(i, "turn") /\ UNCHANGED <<turns, stopBlocks>>
    /\ UNCHANGED <<row, copy, verdict, expired, faults, staleLease>>

-----------------------------------------------------------------------------
(* Finalization *)

\* The final report and the replay log: two rewrites, each with its commit.
WriteRunFiles(i) ==
    /\ CommitFrom(i, "report", "replay") \/ CommitFrom(i, "replay", "finalize")
    /\ StaleWrite(copy[i])
    /\ UNCHANGED verdict

\* The row is locked and read again, its status is not looked at again: what
\* counts is the read of StopTurn or ExceedTurns.
Finalize(i) ==
    /\ pc[i] = "finalize"
    /\ \/ verdict[i] = "blocked" /\ NoWrite
       \/ /\ verdict[i] = "go"
          /\ \E final \in {"succeeded", "failed"} :
                 LockedWrite([row EXCEPT !.status = final])
       \/ /\ verdict[i] = "exceeded"
          /\ LockedWrite([row EXCEPT !.status = "failed"])
    /\ GoTo(i, "release")
    /\ Forget(i)
    /\ UNCHANGED <<copy, turns, stopBlocks, expired, faults>>

-----------------------------------------------------------------------------
(* Follow-up questions on a terminal task: no lease *)

\* The follow-up trace is committed; the session keeps its row through the
\* commit (expire_on_commit is off) while the model writes the answer.
RecordFollowupTrace(m) ==
    /\ pc[m] = "followup"
    /\ copy[m] # NoCopy
    /\ StaleWrite(copy[m])
    /\ GoTo(m, "followAnswer")
    /\ UNCHANGED <<copy, verdict, turns, stopBlocks, expired, faults>>

RecordFollowupAnswer(m) ==
    /\ CommitFrom(m, "followAnswer", "done")
    /\ StaleWrite(copy[m])
    /\ UNCHANGED verdict

-----------------------------------------------------------------------------
(* Faults *)

CountFault == faults < MaxFaults /\ faults' = faults + 1

\* An exception outside a tool: rollback, and record_runtime_exception.
InvocationFails(i) ==
    /\ CountFault
    /\ pc[i] \in (EpisodePhases \ ToolPhases) \cup {"followup", "followAnswer"}
    /\ LockedWrite(LeaseEndedBy(i, "error"))
    /\ EndInvocation(i)
    /\ UNCHANGED expired

\* An exception inside a tool becomes a failed tool result.
ToolFails(i) ==
    /\ CountFault
    /\ pc[i] \in ToolPhases
    /\ copy' = [copy EXCEPT ![i] = NoCopy]
    /\ GoTo(i, "observe")
    /\ Forget(i)
    /\ UNCHANGED <<row, turns, stopBlocks, expired, staleLease>>

\* The backend process dies with its handlers and background tasks.
ProcessCrashes ==
    /\ CountFault
    /\ pc' = [i \in Invocations |->
                 IF pc[i] \in {"unsent", "done"} THEN pc[i] ELSE "lost"]
    /\ copy' = [i \in Invocations |-> NoCopy]
    /\ verdict' = [i \in Invocations |-> "go"]
    /\ turns' = [i \in Invocations |-> 0]
    /\ stopBlocks' = [i \in Invocations |-> 0]
    /\ UNCHANGED <<row, expired, staleLease>>

-----------------------------------------------------------------------------

\* What the backend does on its own in invocation i.
Step(i) ==
    \/ ReadRow(i) \/ ClaimEpisode(i) \/ SkipEpisode(i) \/ ReleaseEpisode(i)
    \/ ReadForAnswer(i) \/ ApplyUserMessage(i) \/ RecheckRunnable(i)
    \/ StartMainAgentRun(i) \/ CallTool(i) \/ EmptyTurn(i) \/ StopTurn(i)
    \/ ProviderError(i) \/ ExceedTurns(i)
    \/ RecordToolCall(i) \/ RecordToolResult(i) \/ UpdatePlan(i)
    \/ RequestClarification(i) \/ PrepareWorkerTask(i)
    \/ ReadForGuard(i) \/ DispatchWorker(i) \/ ProjectWorkerResult(i)
    \/ ObserveTask(i) \/ WriteRunFiles(i) \/ Finalize(i)

MessageStep(m) ==
    RecordMessage(m) \/ RecordFollowupTrace(m) \/ RecordFollowupAnswer(m)

Next ==
    \/ \E i \in Invocations :
           Step(i) \/ LeaseExpires(i) \/ InvocationFails(i) \/ ToolFails(i)
    \/ \E m \in Messages : MessageStep(m) \/ PostMessage(m)
    \/ CancelTask
    \/ ProcessCrashes

Spec == Init /\ [][Next]_vars

\* Handlers and background tasks run to their end unless the process dies, and
\* time passes.  Nobody has to post a message or cancel.
Fairness ==
    /\ \A i \in Invocations : WF_vars(Step(i)) /\ WF_vars(LeaseExpires(i))
    /\ \A m \in Messages : WF_vars(MessageStep(m))

FairSpec == Spec /\ Fairness

-----------------------------------------------------------------------------
(* Properties *)

\* An episode is live while it runs and its lease has not lapsed.
Live(i) == pc[i] \in EpisodePhases /\ i \notin expired

\* The lease in a row, committed or held by somebody who will write it back,
\* is given up (idle or error) only by its own episode, when that is over: an
\* episode that outlived its lease never ends the lease of its successor, and
\* no old document names an episode as over that still runs.
LeaseRecordTruthful ==
    \A r \in {row} \cup {copy[i] : i \in {j \in Invocations : copy[j] # NoCopy}} :
        r.lease.st \in {"idle", "error"} =>
            r.lease.ep \in Invocations /\ pc[r.lease.ep] = "done"

\* claim_runtime_episode keeps episodes apart as long as no unlocked write has
\* put an old lease back: every live episode then finds its own lease in the
\* row, so there is one at most.
ExclusiveUnlessStaleWrite ==
    ~staleLease =>
        /\ \A i \in Invocations : Live(i) => row.lease = [st |-> "running", ep |-> i]
        /\ \A i, j \in Invocations : Live(i) /\ Live(j) => i = j

\* The task is terminal, no episode runs, and every old document that may
\* still be written back says so too.
Settled ==
    /\ IsTerminal(row)
    /\ \A i \in Invocations : pc[i] \notin EpisodePhases
    /\ \A i \in Invocations : copy[i] # NoCopy => copy[i].status = row.status

\* Once settled, a task keeps its terminal status for good: later messages,
\* follow-up answers, late starts and resumes, a cancel or a crash do not
\* reopen it, although each of them may write the whole row.
TerminalIsFinal == [][Settled => Settled' /\ row'.status = row.status]_vars

\* Every background task and handler comes to its end: the loop of the Main
\* Agent is bounded, no phase waits for another invocation.
EveryInvocationEnds ==
    \A i \in Invocations : pc[i] # "unsent" ~> pc[i] \in Ended

\* A message to a task that waits with nobody running an episode and no lease
\* held does make it leave the waiting state, unless a step fails.
IdleWaitingTaskIsResumed ==
    \A m \in Messages :
        (/\ pc[m] = "resume" /\ row.status = "waiting_user"
         /\ row.asked /\ row.msgs # {} /\ ~LeaseActive
         /\ \A i \in Invocations : pc[i] \notin EpisodePhases)
            ~> row.status # "waiting_user" \/ faults > 0

\* Nobody locks a task out for good: whoever claimed it, and whether or not
\* the process died before the release, it can be claimed again later.
LeaseEventuallyFree == []<>(~LeaseActive)

(* What the repository's documents say and the code does not keep *)

\* "a stale Main Agent episode ... attempts to finish a cancelled task ... the
\* persisted task status SHALL remain cancelled"
CancelledIsNotFinished ==
    [][row.status = "cancelled" =>
        row'.status \notin {"succeeded", "partial_failed", "failed"}]_vars

=============================================================================
