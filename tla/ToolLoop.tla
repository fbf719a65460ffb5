------------------------------ MODULE ToolLoop ------------------------------
(***************************************************************************)
(* The Main Agent's loop over model turns and tool calls                   *)
(* (OpenAICompatibleToolLoopRunner.run_orchestration, _execute_tool_call)  *)
(* with the workspace tools of AgentToolService and the ArtifactStore: what *)
(* a call leaves on the disk, in the task's row, in the record of tool     *)
(* calls and in the conversation, when tools are rejected, fail, raise or  *)
(* time out and when the process dies between two commits.                 *)
(*                                                                         *)
(* The episode writes the row through one database session: `work' is its  *)
(* view, `row' what is committed.  Every event of the recorder commits, so *)
(* a call's record is committed before its tool runs and the tool's own    *)
(* writes with its result.  What the tools of the other modules do         *)
(* (planning, questions, workers, gates) is one call here, "elsewhere".    *)
(***************************************************************************)
EXTENDS Integers, Sequences, FiniteSets, FiniteSetsExt

CONSTANTS
  Kits,        \* the execution_mode ("local_full_access", "local_read_only"); bounds:
               \* the tool calls a model may make, and how many in all
  MaxTurns,    \* max_turns of an episode
  MaxBatch,    \* bound: tool calls of one model turn
  KeepRecent,  \* TOOL_RESULT_RECENT_KEEP_COUNT
  MaxEpisodes  \* bound: episodes of the task

ASSUME ToolLoopAssumption ==
  /\ {MaxTurns, MaxBatch, KeepRecent, MaxEpisodes} \subseteq Nat
  /\ MaxEpisodes > 0

VARIABLES
  kit,       \* the member of Kits this behaviour uses
  disk,      \* [Paths -> the content of the workspace path]
  removed,   \* history: the recorded paths that commands and patches have removed
  leftover,  \* a timed-out command has left processes behind
  store,     \* the artifact files, by artifact number
  row,       \* the committed row: tool-call records, current files, artifacts
  work,      \* the row as the episode's session sees it
  pc,        \* where the loop is
  run,       \* the episode's number: latest_main_agent_run_id
  turns,     \* model turns of the episode
  blocks,    \* stop requests refused so far
  messages,  \* the conversation
  queue,     \* calls of the current turn still to execute
  result,    \* what the executed tool returned or raised
  truth      \* history: how each call ended, by number

vars == <<kit, disk, removed, leftover, store, row, work, pc, run, turns, blocks, messages,
          queue, result, truth>>
files == <<disk, removed, leftover, store>>
loop == <<kit, run, turns, blocks>>
-----------------------------------------------------------------------------
(* The workspace: a source file, and a directory with a report in it. *)

Paths == {"main.st", "reports", "reports/test_report.json"}
Contents == {"missing", "dir", "empty", "text", "long", "binary"}

(* A call as a model makes it: which arguments it has depends on the tool, and
   no file is written in the place of the directory.                        *)
Calls == [tool : STRING, path : STRING, arg : STRING, dirs : BOOLEAN, artifact : Nat,
          number : Nat]
Tools == {"list_files", "read_file", "glob", "grep", "git_status", "write_file", "apply_patch",
          "exec_command", "write_artifact", "register_workspace_file", "read_artifact",
          "write_final_report", "elsewhere"}
Refused == {"malformed", "unknown", "arguments"}
MayMake(c) ==
  /\ c \in Calls /\ c.tool \in Tools \cup Refused
  /\ c.tool = "write_file" =>
       c.path # "reports" /\ c.arg \in {"empty", "text", "long", "binary", "surrogate"}
  /\ c.tool = "write_artifact" => c.arg \in Contents \cup {"bad type"}
ASSUME KitsAssumption ==
  \A k \in Kits : k.max \in Nat /\ \A c \in k.calls : MayMake(c)

Parent(p) == IF p = "reports/test_report.json" THEN {"reports"} ELSE {}
IsReport(p) == p = "reports/test_report.json"
Orphan(d, p) == \E q \in Parent(p) : d[q] # "dir"
Inside(p) == p \in Paths
There(p) == Inside(p) /\ disk[p] # "missing"

(* What a command or a patch may do to the workspace: one path is written,
   made or removed, a directory with all it holds.                          *)
Changed(p, x) == [q \in Paths |-> IF q = p THEN x
                                  ELSE IF p \in Parent(q) /\ x # "dir" THEN "missing"
                                  ELSE disk[q]]
Changes == {disk} \cup
  {Changed(p, x) : p \in {q \in Paths \ {"reports"} : ~Orphan(disk, q)},
                   x \in {"missing", "text", "binary"}} \cup
  {Changed("reports", x) : x \in {"missing", "dir"}}

-----------------------------------------------------------------------------
(* What a tool returns: its status, whether the result is larger than the
   active context allows, the paths it names as written; with the disk, the
   artifact files and the session's row it leaves.  "raised" is an exception
   out of the tool.                                                         *)

Returns(status, size) == [status |-> status, size |-> size, wrote |-> {}, stops |-> FALSE,
                          disk |-> disk, store |-> store, work |-> work, leaves |-> FALSE]
Rejected == Returns("rejected", "small")
Failed == Returns("failed", "small")
Raised == Returns("raised", "small")
Applied(size) == Returns("applied", size)
Sized == {Applied("small"), Applied("large")}
MayRead == kit.mode \in {"local_read_only", "local_full_access"}
MayWrite == kit.mode = "local_full_access"

(* list_files: a broken link or a file that vanishes meanwhile raises. *)
ListFiles(c) ==
  IF ~MayRead \/ ~There(c.path) THEN {Rejected}
  ELSE IF disk[c.path] = "dir" THEN Sized \cup {Raised} ELSE {Applied("small")}

(* read_file: what is not UTF-8 is refused like a bad path (the first except
   clause takes it), an unreadable file raises; a report is summarised unless
   the model asks for "full", and its body is left out of the result by
   _compact_tool_result_details.                                            *)
Summarized(c) == c.arg = "summary" \/ (c.arg = "auto" /\ IsReport(c.path))
ReadFile(c) ==
  IF ~MayRead \/ c.arg \notin {"auto", "summary", "full"} \/ ~There(c.path) THEN {Rejected}
  ELSE CASE disk[c.path] = "dir" -> {Rejected}
         [] disk[c.path] = "binary" -> {Rejected, Raised}
         [] disk[c.path] = "long" /\ ~Summarized(c) -> {Applied("large"), Raised}
         [] OTHER -> {Applied("small"), Raised}

(* glob: an absolute pattern raises; grep: so does an unreadable file. *)
Glob(c) == IF ~MayRead \/ ~There(c.path) THEN {Rejected} ELSE Sized \cup {Raised}
Grep(c) == IF ~MayRead \/ ~There(c.path) THEN {Rejected} ELSE Sized \cup {Raised}

(* git_status in a directory: exit code, timeout. *)
GitStatus(c) ==
  IF ~MayRead \/ ~There(c.path) \/ disk[c.path] # "dir" THEN {Rejected}
  ELSE Sized \cup {Failed}

(* _record_workspace_file_path: all_paths, and the field the path stands for. *)
Recorded(p) == [work EXCEPT !.paths = @ \cup {p}]

(* write_file.  Text that cannot be encoded (an unpaired surrogate) empties
   the file before the ValueError that is reported as a rejected path; an
   I/O error may leave anything.  Only a write that succeeded is recorded.   *)
WriteFileRecordedFirst(c) ==
  IF ~MayWrite \/ ~Inside(c.path) \/ disk[c.path] = "dir" THEN {Rejected}
  ELSE {[Rejected EXCEPT !.work = Recorded(c.path)],
        [Applied("small") EXCEPT !.disk[c.path] = c.arg, !.wrote = {c.path},
                                 !.work = Recorded(c.path)]}
WriteFile(c) ==
  LET made == IF c.dirs THEN [q \in Paths |-> IF q \in Parent(c.path) THEN "dir" ELSE disk[q]]
              ELSE disk
      written(x) == [made EXCEPT ![c.path] = x]
  IN IF ~MayWrite \/ ~Inside(c.path) THEN {Rejected}
     ELSE IF Orphan(made, c.path) THEN {Rejected}
     ELSE IF disk[c.path] = "dir" THEN {Failed}
     ELSE IF c.arg = "surrogate" THEN {[Rejected EXCEPT !.disk = written("empty")]}
     ELSE {[Applied("small") EXCEPT !.disk = written(c.arg), !.wrote = {c.path},
                                    !.work = Recorded(c.path)],
           [Failed EXCEPT !.disk = made], [Failed EXCEPT !.disk = written("empty")]}

(* apply_patch: git apply changes all it names or nothing, except when it is
   killed by the timeout; its output, or the file it is kept in, may raise
   after that.  The paths it changes are not recorded.                      *)
ApplyPatch(c) ==
  IF ~MayWrite \/ ~There(c.path) \/ disk[c.path] # "dir" THEN {Rejected}
  ELSE {Failed} \cup UNION {{[Applied("small") EXCEPT !.disk = d], [Failed EXCEPT !.disk = d],
                             [Raised EXCEPT !.disk = d]} : d \in Changes}

(* exec_command in the workspace root: whatever the command does is done
   whether it exits 0, fails, prints what is not UTF-8 (subprocess raises)
   or times out; in the last case its children live on.                     *)
ExecCommand(c) ==
  IF ~MayWrite THEN {Rejected}
  ELSE UNION {{[Applied("small") EXCEPT !.disk = d], [Failed EXCEPT !.disk = d],
               [Raised EXCEPT !.disk = d],
               [Failed EXCEPT !.disk = d, !.leaves = TRUE]} : d \in Changes}

(* write_artifact_content: the file is written under a new name, then the
   row is inserted; a failure of either removes the file and raises, but an
   Artifact that does not validate, between the two, leaves it behind: a
   ValueError, which write_artifact answers and register_workspace_file not. *)
WithFile(x) == Append(store, x)
WithArtifact(x) ==
  [work EXCEPT !.artifacts = [i \in DOMAIN @ \cup {Len(store) + 1} |->
                                IF i \in DOMAIN @ THEN @[i] ELSE x]]
Stored(x, invalid) ==
  {[Applied("small") EXCEPT !.store = WithFile(x), !.work = WithArtifact(x)],
   [invalid EXCEPT !.store = WithFile(x)], Raised}
WriteArtifact(c) == IF c.arg = "bad type" THEN {Rejected} ELSE Stored(c.arg, Rejected)
RegisterWorkspaceFile(c) ==
  IF ~MayRead \/ ~There(c.path) \/ disk[c.path] = "dir" THEN {Rejected}
  ELSE Stored(disk[c.path], Raised)

(* read_artifact_content finds the file by the name in the row. *)
ContentOf(i) == store[i]

(* read_artifact: only in mode "full" is the content read and bounded. *)
ReadArtifact(c) ==
  IF c.artifact \notin DOMAIN work.artifacts THEN {Rejected}
  ELSE IF c.arg = "summary" THEN {Applied("small")}
  ELSE CASE ContentOf(c.artifact) \in {"missing", "binary"} -> {Failed}
         [] ContentOf(c.artifact) = "long" -> {Applied("large")}
         [] OTHER -> {Applied("small")}

(* write_final_report: report and replay log; the task is not finished by it.
   An output that does not validate raises.                                 *)
WriteFinalReport(c) == {[Applied("small") EXCEPT !.work.report = TRUE], Raised}

(* The tools of the other modules: they may end the task or ask the user. *)
Elsewhere(c) == {Applied("small"), Rejected, Raised, [Applied("small") EXCEPT !.stops = TRUE]}

Results(c) ==
  CASE c.tool = "list_files" -> ListFiles(c)
    [] c.tool = "read_file" -> ReadFile(c)
    [] c.tool = "glob" -> Glob(c)
    [] c.tool = "grep" -> Grep(c)
    [] c.tool = "git_status" -> GitStatus(c)
    [] c.tool = "write_file" -> WriteFile(c)
    [] c.tool = "apply_patch" -> ApplyPatch(c)
    [] c.tool = "exec_command" -> ExecCommand(c)
    [] c.tool = "write_artifact" -> WriteArtifact(c)
    [] c.tool = "register_workspace_file" -> RegisterWorkspaceFile(c)
    [] c.tool = "read_artifact" -> ReadArtifact(c)
    [] c.tool = "write_final_report" -> WriteFinalReport(c)
    [] c.tool = "elsewhere" -> Elsewhere(c)
-----------------------------------------------------------------------------
(* The records of tool calls in the row. *)

(* _append_agent_tool_call_record, and _complete_agent_tool_call_record: the
   last running record of that tool in the latest run is closed.            *)
Open(records, c) ==
  {i \in DOMAIN records : records[i].tool = c.tool /\ records[i].run = run
                          /\ records[i].status = "running"}
Opened(records, c) ==
  Append(records, [tool |-> c.tool, run |-> run, call |-> c.number, status |-> "running"])
CompletedFirst(records, c, status) ==
  IF Open(records, c) = {} THEN records
  ELSE [records EXCEPT ![Min(Open(records, c))].status = status]
Completed(records, c, status) ==
  IF Open(records, c) = {} THEN records
  ELSE [records EXCEPT ![Max(Open(records, c))].status = status]

(* The conversation as it is sent to the model: an old result that is large
   is replaced by its summary and the paths it names.                       *)
ToolMessages(ms) == {i \in DOMAIN ms : ms[i].role = "tool"}
Recent(ms) ==
  {i \in ToolMessages(ms) : Cardinality({j \in ToolMessages(ms) : j > i}) < KeepRecent}
Cleared(m) == [m EXCEPT !.size = "small", !.cleared = TRUE]
CompactedEarly(ms) ==
  [i \in DOMAIN ms |->
     IF i \in ToolMessages(ms) /\ Cardinality({j \in ToolMessages(ms) : j < i}) >= KeepRecent
        /\ ms[i].size = "large" THEN Cleared(ms[i])
     ELSE ms[i]]
Compacted(ms) ==
  [i \in DOMAIN ms |->
     IF i \in ToolMessages(ms) \ Recent(ms) /\ ms[i].size = "large" THEN Cleared(ms[i])
     ELSE ms[i]]

Message(role) == [role |-> role, calls |-> <<>>, size |-> "small", wrote |-> {},
                  cleared |-> FALSE]
-----------------------------------------------------------------------------
Init ==
  /\ kit \in Kits
  /\ disk \in {[p \in Paths |-> "missing"],
               [p \in Paths |-> CASE p = "main.st" -> "long" [] p = "reports" -> "dir"
                                  [] OTHER -> "long"]}
  /\ removed = {} /\ leftover = FALSE /\ store = <<>>
  /\ row = [records |-> <<>>, paths |-> {}, artifacts |-> <<>>, report |-> FALSE]
  /\ work = row
  /\ pc = "turn" /\ run = 1 /\ turns = 0 /\ blocks = 0
  /\ messages = <<Message("system"), Message("user")>>
  /\ queue = <<>> /\ result = Rejected /\ truth = <<>>

Commit(r) == work' = r /\ row' = r

(* The calls of a turn in the order of their index, each with an id. *)
Numbered(batch) == [k \in DOMAIN batch |-> [batch[k] EXCEPT !.number = Len(truth) + k]]

(* A model turn with tool calls; its message goes into the conversation. *)
ModelCallsTools ==
  /\ pc = "turn" /\ turns < MaxTurns
  /\ \E n \in 1..MaxBatch : \E batch \in [1..n -> kit.calls] :
       /\ Len(truth) + n <= kit.max
       /\ queue' = Numbered(batch)
       /\ truth' = truth \o [k \in 1..n |-> "none"]
       /\ messages' = Append(messages, [Message("assistant") EXCEPT
                                !.calls = [k \in 1..n |-> Len(truth) + k]])
  /\ turns' = turns + 1 /\ pc' = "call"
  /\ UNCHANGED <<kit, files, row, work, run, blocks, result>>

(* MAX_STOP_BLOCKS: the second refused stop ends the episode. *)
AfterBlockLate(n) == IF n > 2 THEN "done" ELSE "turn"
AfterBlock(n) == IF n >= 2 THEN "done" ELSE "turn"

(* A turn without tool calls: with a final text the stop may be allowed;
   otherwise, and with no text, the loop goes on, twice at most.            *)
ModelStops ==
  /\ pc = "turn" /\ turns < MaxTurns
  /\ turns' = turns + 1
  /\ \/ pc' = "done" /\ UNCHANGED <<blocks, messages>>
     \/ /\ blocks' = blocks + 1
        /\ pc' = AfterBlock(blocks')
        /\ messages' = messages \o <<Message("assistant"), Message("user")>>
  /\ UNCHANGED <<kit, files, row, work, run, queue, result, truth>>

(* The turn limit raises; run_episode fails the task. *)
ExceedTurns ==
  /\ pc = "turn" /\ turns = MaxTurns
  /\ pc' = "done"
  /\ UNCHANGED <<files, row, work, loop, messages, queue, result, truth>>

(* Refused: arguments that are not JSON, a tool that does not exist or arguments the
   tool does not take: the call is recorded as events only.                 *)
RefuseCall ==
  LET c == Head(queue) IN
  /\ pc = "call" /\ c.tool \in Refused
  /\ result' = IF c.tool = "malformed" THEN Failed ELSE Rejected
  /\ pc' = "result"
  /\ UNCHANGED <<files, row, work, loop, messages, queue, truth>>

(* _record_tool_call: the record and the event are committed. *)
RecordCall ==
  LET c == Head(queue) IN
  /\ pc = "call" /\ c.tool \notin Refused
  /\ Commit([work EXCEPT !.records = Opened(@, c)])
  /\ pc' = "tool"
  /\ UNCHANGED <<files, loop, messages, queue, result, truth>>

(* The tool runs. *)
RunTool ==
  /\ pc = "tool"
  /\ \E r \in Results(Head(queue)) :
       /\ disk' = r.disk
       /\ removed' = (removed \cup {p \in work.paths : r.disk[p] = "missing"})
                       \ {p \in Paths : r.disk[p] # "missing"}
       /\ store' = r.store
       /\ work' = r.work
       /\ leftover' = (leftover \/ r.leaves)
       /\ result' = r
  /\ pc' = "result"
  /\ UNCHANGED <<row, loop, messages, queue, truth>>

(* _record_tool_result closes the record and its event commits; an exception
   is answered by _execute_tool_call, whose events commit as well, but leave
   the record open.  The result goes into the conversation, and the loop
   ends when the tool has finished the task or asked the user.              *)
Answer(c, r) ==
  [Message("tool") EXCEPT !.calls = <<c.number>>, !.size = r.size, !.wrote = r.wrote]
RecordResult ==
  LET c == Head(queue) IN
  /\ pc = "result"
  /\ Commit(IF result.status = "raised" THEN work
            ELSE [work EXCEPT !.records = Completed(@, c, result.status)])
  /\ truth' = [truth EXCEPT ![c.number] = result.status]
  /\ messages' = Append(messages, Answer(c, result))
  /\ queue' = Tail(queue)
  /\ pc' = IF result.stops THEN "done" ELSE IF Len(queue) = 1 THEN "turn" ELSE "call"
  /\ UNCHANGED <<files, loop, result>>

(* Processes that a timed-out command left behind go on working. *)
LeftoverWrites ==
  /\ leftover
  /\ \E d \in Changes : d # disk /\ disk' = d
  /\ removed' = (removed \cup {p \in work.paths : disk'[p] = "missing"})
                  \ {p \in Paths : disk'[p] # "missing"}
  /\ leftover' = FALSE
  /\ UNCHANGED <<store, row, work, pc, loop, messages, queue, result, truth>>

(* The episode starts a run and a conversation of its own
   (start_main_agent_run): when the one before has returned, or when the
   process died in it and what was not committed is gone.                   *)
NewEpisode ==
  /\ run < MaxEpisodes
  /\ work' = row
  /\ run' = run + 1 /\ turns' = 0 /\ blocks' = 0
  /\ pc' = "turn"
  /\ messages' = <<Message("system"), Message("user")>>
  /\ queue' = <<>>
  /\ UNCHANGED <<kit, files, row, result, truth>>
Resume == pc = "done" /\ NewEpisode
Crash == pc # "done" /\ NewEpisode

Next ==
  \/ ModelCallsTools \/ ModelStops \/ ExceedTurns
  \/ RefuseCall \/ RecordCall \/ RunTool \/ RecordResult
  \/ LeftoverWrites \/ Resume \/ Crash

Spec == Init /\ [][Next]_vars
-----------------------------------------------------------------------------
(* The session is ahead of the committed row only while a tool runs or its
   result waits to be recorded; there is a call to execute exactly then and
   in front of it; and a conversation is never asked a third time to go on.  *)
TypeOK ==
  /\ disk \in [Paths -> Contents]
  /\ \A p \in Paths : disk[p] # "missing" => ~Orphan(disk, p)
  /\ removed \subseteq {p \in Paths : disk[p] = "missing"}
  /\ pc \in {"turn", "call", "tool", "result", "done"}
  /\ pc # "result" => work = row
  /\ pc \in {"call", "tool", "result"} => queue # <<>>
  /\ pc = "turn" => queue = <<>> /\ turns <= MaxTurns /\ blocks < 2
  /\ \A i \in DOMAIN row.records : row.records[i].call \in DOMAIN truth

(* What the row says of the files is backed by files, through every crash,
   timeout and failed tool: each path listed in current_files.all_paths is
   in the workspace, unless a command or a patch took it away, and each
   artifact row has the file written for it, with the content it was written
   with (write_file, _record_workspace_file_path, write_artifact_content).   *)
WorkspaceBacksRow ==
  /\ \A p \in row.paths : disk[p] # "missing" \/ p \in removed
  /\ \A i \in DOMAIN row.artifacts : i \in DOMAIN store /\ store[i] = row.artifacts[i]

(* A closed record of a tool call has the status that call ended with, though
   records are closed by tool name alone; and between calls the only records
   of the current run left running are those of calls that raised
   (_complete_agent_tool_call_record, _execute_tool_call).                   *)
RecordsTellTheTruth ==
  \A i \in DOMAIN row.records :
    LET r == row.records[i] IN
    IF r.status # "running" THEN truth[r.call] = r.status
    ELSE pc \in {"turn", "call", "done"} => r.run < run \/ truth[r.call] = "raised"

(* What is sent to the model (_messages_for_model_context) has the same
   messages in the same order as the conversation, the latest tool results
   whole, no other large result, the paths of cleared results still named,
   and every call of a turn answered, in order, before the next turn.        *)
RequestsAreWellFormed ==
  pc = "turn" =>
    LET sent == Compacted(messages)
        asked(i) == messages[i].calls
        results == ToolMessages(messages)
        kept == IF Cardinality(results) < KeepRecent THEN Cardinality(results) ELSE KeepRecent
    IN /\ Len(sent) = Len(messages)
       /\ \A i \in DOMAIN sent :
            /\ sent[i].role = messages[i].role /\ sent[i].calls = messages[i].calls
            /\ sent[i].wrote = messages[i].wrote
            /\ sent[i].role = "assistant" =>
                 \A k \in DOMAIN asked(i) :
                   /\ i + k \in DOMAIN sent
                   /\ sent[i + k].role = "tool" /\ sent[i + k].calls = <<asked(i)[k]>>
       /\ \E latest \in SUBSET results :
            /\ Cardinality(latest) = kept
            /\ \A i \in latest, j \in results \ latest : j < i
            /\ \A i \in DOMAIN messages :
                 sent[i] = IF i \in results \ latest /\ messages[i].size = "large"
                           THEN Cleared(messages[i]) ELSE messages[i]
=============================================================================
