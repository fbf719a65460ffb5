-------------------------- MODULE WorkerResults_proofs --------------------------
(***************************************************************************)
(* Three more proofs about WorkerDispatch: a job that passed has the files *)
(* it had to deliver, the slots of the row are exactly the calls in        *)
(* progress, and a call that failed twice in the same way is not made a    *)
(* third time.  They rest on the invariant of WorkerDispatch_proofs, which *)
(* says how far the job of each call has come.                             *)
(***************************************************************************)
EXTENDS WorkerDispatch_proofs, FiniteSetTheorems

-----------------------------------------------------------------------------
(* The elements of sequences. *)

LEMMA AppendedSet ==
  ASSUME NEW S, NEW s \in Seq(S), NEW a \in S
  PROVE  /\ ToSet(Append(s, a)) = ToSet(s) \cup {a}
         /\ SubSeq(Append(s, a), 1, Len(Append(s, a)) - 1) = s
<1>1. ToSet(Append(s, a)) = ToSet(s) \cup {a}
  <2>1. DOMAIN Append(s, a) = DOMAIN s \cup {Len(s) + 1}
    OBVIOUS
  <2>2. \A i \in DOMAIN s : Append(s, a)[i] = s[i]
    OBVIOUS
  <2>3. Append(s, a)[Len(s) + 1] = a
    OBVIOUS
  <2> QED BY <2>1, <2>2, <2>3 DEF ToSet
<1>2. SubSeq(Append(s, a), 1, Len(Append(s, a)) - 1) = s
  OBVIOUS
<1> QED BY <1>1, <1>2

LEMMA ShortenedSet ==
  ASSUME NEW S, NEW s \in Seq(S), s # <<>>
  PROVE  ToSet(s) \subseteq ToSet(Tail(s)) \cup {Head(s)}
<1> SUFFICES ASSUME NEW i \in DOMAIN s, i # 1
             PROVE  s[i] \in ToSet(Tail(s))
  BY DEF ToSet
<1>1. i - 1 \in DOMAIN Tail(s) /\ Tail(s)[i - 1] = s[i]
  OBVIOUS
<1> QED BY <1>1 DEF ToSet

LEMMA WrittenSets ==
  /\ ToSet(<<"requirements", "plc_code", "io_contract">>)
       = {"requirements", "plc_code", "io_contract"}
  /\ ToSet(<<"test_report">>) = {"test_report"}
  /\ ToSet(<<"formal_report">>) = {"formal_report"}
  /\ ToSet(<<"patch", "plc_code", "repair_summary">>)
       = {"patch", "plc_code", "repair_summary"}
<1>1. \A a, b, c : ToSet(<<a, b, c>>) = {a, b, c}
  <2> SUFFICES ASSUME NEW a, NEW b, NEW c
               PROVE  ToSet(<<a, b, c>>) = {a, b, c}
    OBVIOUS
  <2>1. DOMAIN <<a, b, c>> = {1, 2, 3}
    OBVIOUS
  <2> QED BY <2>1 DEF ToSet
<1>2. \A a : ToSet(<<a>>) = {a}
  BY DEF ToSet
<1> QED BY <1>1, <1>2

(* The mock's drafts are not validated, and need not be. *)
LEMMA MockDelivers ==
  ASSUME NEW w \in Workers, NEW scenario, NEW version,
         Mock(w, scenario, version).outcome = "passed"
  PROVE  Required(w) \subseteq ToSet(Mock(w, scenario, version).writes)
<1> DEFINE d == Mock(w, scenario, version)
<1>1. /\ MockClarification.outcome # "passed" /\ Raised("timeout").outcome # "passed"
      /\ MockTestFailed.outcome # "passed" /\ MockFormalFailed.outcome # "passed"
  BY DEF MockClarification, Raised, MockTestFailed, MockFormalFailed, Failing, Draft
<1>2. CASE w = "dev"
  <2>1. d = MockDev
    BY <1>1, <1>2 DEF Mock
  <2> QED BY <1>2, <2>1, WrittenSets DEF MockDev, Passing, Draft, Required
<1>3. CASE w = "test"
  <2>1. d = MockTestPassed
    BY <1>1, <1>3 DEF Mock, MockTest
  <2> QED BY <1>3, <2>1, WrittenSets DEF MockTestPassed, Passing, Draft, Required
<1>4. CASE w = "formal"
  <2>1. d = MockFormalPassed
    BY <1>1, <1>4 DEF Mock, MockFormal
  <2> QED BY <1>4, <2>1, WrittenSets DEF MockFormalPassed, Passing, Draft, Required
<1>5. CASE w = "repair"
  <2>1. d = MockRepair
    BY <1>1, <1>5 DEF Mock
  <2> QED BY <1>5, <2>1, WrittenSets DEF MockRepair, Passing, Draft, Required
<1> QED BY <1>2, <1>3, <1>4, <1>5 DEF Workers
-----------------------------------------------------------------------------
(* The files of a pass.  A call that writes has each required file before   *)
(* it or on disk and announced; a call that only ends is no pass.           *)

OnDisk(j, a) == a \in jobs[j].files /\ a \in ToSet(log[j])
Promised(x) ==
  /\ x.pc \in Running => x.worker = jobs[x.job].worker
  /\ x.pc = "write" /\ x.verdict = "passed" =>
       \A a \in Required(x.worker) : a \in ToSet(x.left) \/ OnDisk(x.job, a)
  /\ x.pc = "finish" => x.verdict # "passed"
Delivered(j) ==
  /\ log[j] # <<>> /\ Last(log[j]) \in Terminal
  /\ Required(jobs[j].worker) \subseteq jobs[j].files
  /\ Required(jobs[j].worker) \subseteq ToSet(SubSeq(log[j], 1, Len(log[j]) - 1))
FilesInv ==
  /\ \A e \in Episodes : Promised(ep[e])
  /\ \A j \in Jobs : jobs[j].verdict = "passed" => Delivered(j)

LEMMA CallsKeepFiles ==
  ASSUME IInv, FilesInv, NEW e \in Episodes, NEW x, ep' = [ep EXCEPT ![e] = x], Promised(x),
         UNCHANGED <<jobs, log>>
  PROVE  FilesInv'
<1>1. \A f \in Episodes : Promised(ep'[f])
  BY DEF IInv, Typed, FilesInv
<1>2. \A f \in Episodes : Promised(ep[f])'
  BY <1>1 DEF Promised, OnDisk
<1> QED BY <1>2 DEF FilesInv, Delivered

(* A step that moves one job leaves the calls of the others alone. *)
LEMMA JobsKeepFiles ==
  ASSUME IInv, FilesInv, NEW e \in Episodes, NEW x \in Calls, NEW j \in Jobs,
         ep[e].pc # "idle", j = ep[e].job, ep' = [ep EXCEPT ![e] = x],
         \A k \in Jobs \ {j} : jobs'[k] = jobs[k] /\ log'[k] = log[k],
         Promised(x)', jobs'[j].verdict = "passed" => Delivered(j)'
  PROVE  FilesInv'
<1>1. \A f \in Episodes : ep'[f] = IF f = e THEN x ELSE ep[f]
  BY DEF IInv, Typed
<1>2. \A f \in Episodes : Promised(ep[f])'
  <2> SUFFICES ASSUME NEW f \in Episodes
               PROVE  Promised(ep[f])'
    OBVIOUS
  <2>1. CASE f = e
    BY <1>1, <2>1
  <2>2. CASE f # e
    <3>1. ep'[f] = ep[f] /\ Promised(ep[f])
      BY <1>1, <2>2 DEF FilesInv
    <3>2. ep[f].pc # "idle" => ep[f].job \in Jobs \ {j}
      BY <2>2, Limits DEF IInv, Typed, Ordered, InStep, Jobs
    <3> QED BY <3>1, <3>2 DEF Promised, OnDisk, Running
  <2> QED BY <2>1, <2>2
<1>3. \A k \in Jobs : (jobs[k].verdict = "passed" => Delivered(k))'
  <2> SUFFICES ASSUME NEW k \in Jobs, k # j
               PROVE  (jobs[k].verdict = "passed" => Delivered(k))'
    OBVIOUS
  <2> QED BY DEF FilesInv, Delivered
<1> QED BY <1>2, <1>3 DEF FilesInv

LEMMA AnswersKeepFiles ==
  ASSUME IInv, FilesInv, NEW e \in Episodes, NEW d \in Drafts, ep[e].pc = "call", Answer(e, d),
         d.outcome = "passed" => \/ Route[ep[e].worker] # "mock"
                                 \/ Required(ep[e].worker) \subseteq ToSet(d.writes)
  PROVE  FilesInv'
<1> DEFINE c == ep[e]
           x == IF d.outcome \in Errors THEN [c EXCEPT !.pc = "finish", !.verdict = d.outcome]
                ELSE IF Route[c.worker] # "mock" /\ ~Acceptable(c.worker, d)
                     THEN [c EXCEPT !.pc = "finish", !.verdict = "schema"]
                     ELSE [c EXCEPT !.pc = "write", !.verdict = d.outcome, !.left = d.writes]
<1>1. c \in Calls /\ c.pc = "call" /\ Promised(c)
  BY DEF IInv, Typed, FilesInv
<1>2. "passed" \notin Errors
  BY DEF Errors
<1>3. ep' = [ep EXCEPT ![e] = x] /\ UNCHANGED <<jobs, log>>
  BY DEF Answer, Keep
<1>4. x.job = c.job /\ x.worker = c.worker
      /\ \/ x.pc = "finish" /\ x.verdict # "passed"
         \/ /\ x.pc = "write" /\ x.left = d.writes
            /\ x.verdict = "passed" => Required(c.worker) \subseteq ToSet(d.writes)
  BY <1>1, <1>2 DEF Calls, Acceptable
<1> HIDE DEF x, c
<1>5. Promised(x)
  BY <1>1, <1>4 DEF Promised, Running
<1> QED BY <1>3, <1>5, CallsKeepFiles

LEMMA StartsKeepFiles ==
  ASSUME IInv, FilesInv, NEW e \in Episodes, StartJob(e)
  PROVE  FilesInv'
<1>1. PICK c \in Calls : c = ep[e] /\ c.pc = "start" /\ c.seen \in Rows
  BY DEF StartJob, IInv, Typed, Calls
<1>2. PICK j \in Jobs : j = c.job
  BY <1>1, Limits DEF IInv, Typed, Ordered, InStep, Jobs
<1>3. PICK x \in Calls : x.pc = "call" /\ x.job = j /\ x.worker = c.worker
                         /\ ep' = [ep EXCEPT ![e] = x]
  <2> DEFINE called == [c EXCEPT !.pc = "call", !.before = c.seen, !.seen = NewRow]
  <2>1. called \in Calls /\ called.pc = "call" /\ called.job = j /\ called.worker = c.worker
    BY <1>1, <1>2, NewRowIsARow DEF Calls, Phases
  <2>2. ep' = [ep EXCEPT ![e] = called]
    BY <1>1 DEF StartJob
  <2> QED BY <2>1, <2>2
<1>4. /\ jobs'[j].worker = c.worker /\ jobs'[j].verdict = "none"
      /\ \A k \in Jobs \ {j} : jobs'[k] = jobs[k] /\ log'[k] = log[k]
  BY <1>1, <1>2 DEF StartJob, NoRecord, IInv, Typed
<1>5. Promised(x)'
  BY <1>3, <1>4 DEF Promised
<1> QED BY <1>1, <1>2, <1>3, <1>4, <1>5, JobsKeepFiles

LEMMA WritesKeepFiles ==
  ASSUME IInv, FilesInv, NEW e \in Episodes, WriteFile(e)
  PROVE  FilesInv'
<1>1. PICK c \in Calls : c = ep[e] /\ c.pc = "write" /\ c.left # <<>> /\ c.left \in Seq(Artifacts)
  BY DEF WriteFile, IInv, Typed, Calls
<1>2. PICK j \in Jobs : j = c.job /\ Runs(j) /\ jobs[j] \in JobRecords /\ log[j] \in Seq(Events)
  BY <1>1, RunningJob DEF Running
<1>3. PICK a \in Artifacts : a = Head(c.left)
  BY <1>1
<1>4. a \in Events
  BY <1>3 DEF Events
<1>5. PICK x \in Calls : /\ x.pc = "write" /\ x.job = j /\ x.worker = c.worker
                         /\ x.verdict = c.verdict /\ x.left = Tail(c.left)
                         /\ ep' = [ep EXCEPT ![e] = x]
  <2> DEFINE shorter == [c EXCEPT !.left = Tail(@)]
  <2>1. shorter \in Calls /\ shorter.pc = "write" /\ shorter.job = j
        /\ shorter.worker = c.worker /\ shorter.verdict = c.verdict /\ shorter.left = Tail(c.left)
    <3>1. Tail(c.left) \in Seq(Artifacts)
      BY <1>1
    <3> QED BY <1>1, <1>2, <3>1 DEF Calls
  <2>2. ep' = [ep EXCEPT ![e] = shorter]
    BY <1>1 DEF WriteFile, IInv, Typed
  <2> QED BY <2>1, <2>2
<1>6. /\ jobs'[j].files = jobs[j].files \cup {a} /\ jobs'[j].worker = jobs[j].worker
      /\ jobs'[j].verdict = jobs[j].verdict /\ log'[j] = Append(log[j], a)
      /\ \A k \in Jobs \ {j} : jobs'[k] = jobs[k] /\ log'[k] = log[k]
  BY <1>1, <1>2, <1>3 DEF WriteFile, IInv, Typed, JobRecords
<1>7. jobs[j].verdict # "passed"
  BY <1>2 DEF FilesInv, Delivered, Runs
<1>8. ToSet(log'[j]) = ToSet(log[j]) \cup {a}
      /\ ToSet(c.left) \subseteq ToSet(Tail(c.left)) \cup {a}
  BY <1>1, <1>2, <1>3, <1>4, <1>6, AppendedSet, ShortenedSet
<1>9. Promised(c)
  BY <1>1 DEF FilesInv
<1>10. Promised(x)'
  BY <1>1, <1>2, <1>5, <1>6, <1>8, <1>9 DEF Promised, OnDisk, Running
<1> QED BY <1>1, <1>2, <1>5, <1>6, <1>7, <1>10, JobsKeepFiles

LEMMA FinishesKeepFiles ==
  ASSUME IInv, FilesInv, NEW e \in Episodes, Finish(e)
  PROVE  FilesInv'
<1>1. PICK c \in Calls : /\ c = ep[e] /\ Promised(c) /\ c.pc \in Running
                         /\ c.pc = "finish" \/ (c.pc = "write" /\ c.left = <<>>)
  BY DEF Finish, IInv, Typed, FilesInv, Running
<1>2. PICK j \in Jobs : j = c.job /\ jobs[j] \in JobRecords /\ log[j] \in Seq(Events)
  BY <1>1, RunningJob
<1>3. PICK x \in Calls : x.pc = "read" /\ ep' = [ep EXCEPT ![e] = x]
  <2> DEFINE answered == [c EXCEPT !.pc = "read"]
  <2>1. answered \in Calls /\ answered.pc = "read"
    BY <1>1 DEF Calls, Phases
  <2>2. ep' = [ep EXCEPT ![e] = answered]
    BY <1>1 DEF Finish, IInv, Typed
  <2> QED BY <2>1, <2>2
<1>4. PICK end \in Terminal : end = JobStatus(c.verdict) /\ end \in Events
  <2>1. JobStatus(c.verdict) \in Terminal
    BY DEF JobStatus, Terminal
  <2> QED BY <2>1 DEF Events
<1>5. /\ jobs'[j].files = jobs[j].files /\ jobs'[j].worker = jobs[j].worker
      /\ jobs'[j].verdict = c.verdict /\ log'[j] = Append(log[j], end)
      /\ \A k \in Jobs \ {j} : jobs'[k] = jobs[k] /\ log'[k] = log[k]
  BY <1>1, <1>2, <1>4 DEF Finish, IInv, Typed, JobRecords
<1>6. SubSeq(log'[j], 1, Len(log'[j]) - 1) = log[j] /\ log'[j] # <<>> /\ Last(log'[j]) = end
  BY <1>2, <1>4, <1>5, AppendedSet, AppendLast
<1>7. ASSUME c.verdict = "passed"
      PROVE  Delivered(j)'
  <2>1. c.left = <<>> /\ c.worker = jobs[j].worker
        /\ \A a \in Required(c.worker) : a \in ToSet(c.left) \/ OnDisk(j, a)
    BY <1>1, <1>2, <1>7 DEF Promised
  <2>2. ToSet(c.left) = {}
    BY <2>1 DEF ToSet
  <2> QED BY <1>4, <1>5, <1>6, <2>1, <2>2 DEF Delivered, OnDisk
<1>8. Promised(x)'
  BY <1>3 DEF Promised, Running
<1> QED BY <1>1, <1>2, <1>3, <1>5, <1>7, <1>8, JobsKeepFiles DEF Running

LEMMA CrashesKeepFiles ==
  ASSUME IInv, FilesInv, Crash
  PROVE  FilesInv'
<1>1. \A e \in Episodes : ep'[e] = Idle
  BY DEF Crash
<1>2. \A e \in Episodes : Promised(ep[e])'
  BY <1>1 DEF Idle, Promised, Running
<1>3. \A j \in Jobs : /\ jobs'[j].verdict = jobs[j].verdict /\ jobs'[j].worker = jobs[j].worker
                       /\ jobs[j].files \subseteq jobs'[j].files /\ log' = log
  <2>1. PICK orphaned : jobs' = [j \in Jobs |-> [jobs[j] EXCEPT !.files = @ \cup
                          {Head(ep[e].left) : e \in {e \in orphaned : ep[e].job = j}}]]
    BY DEF Crash
  <2> DEFINE extra(j) == {Head(ep[e].left) : e \in {e \in orphaned : ep[e].job = j}}
  <2>2. \A j \in Jobs : jobs'[j] = [jobs[j] EXCEPT !.files = @ \cup extra(j)]
    BY <2>1
  <2>3. \A j \in Jobs : jobs[j] \in JobRecords
    BY DEF IInv, Typed
  <2> HIDE DEF extra
  <2> QED BY <2>2, <2>3 DEF JobRecords, Crash
<1> QED BY <1>2, <1>3 DEF FilesInv, Delivered

LEMMA StepsKeepFiles == IInv /\ FilesInv /\ [Next]_vars => FilesInv'
<1> SUFFICES ASSUME IInv, FilesInv, [Next]_vars
             PROVE  FilesInv'
  OBVIOUS
<1>1. ASSUME NEW e \in Episodes, CallWorkerTool(e)
      PROVE  FilesInv'
  <2>1. PICK x : ep' = [ep EXCEPT ![e] = x] /\ x.pc = "record"
    <3>1. PICK w \in Workers :
            ep' = [ep EXCEPT ![e] = [Idle EXCEPT !.pc = "record", !.job = issued + 1,
                             !.worker = w, !.inputs = Inputs(row, w), !.selected = row.open]]
      BY <1>1 DEF CallWorkerTool
    <3> DEFINE x == [Idle EXCEPT !.pc = "record", !.job = issued + 1, !.worker = w,
                                 !.inputs = Inputs(row, w), !.selected = row.open]
    <3>2. x.pc = "record"
      BY DEF Idle
    <3> QED BY <3>1, <3>2
  <2>2. Promised(x)
    BY <2>1 DEF Promised, Running
  <2> QED BY <1>1, <2>1, <2>2, CallsKeepFiles DEF CallWorkerTool
<1>2. ASSUME NEW e \in Episodes,
             \/ ReadForRecord(e) \/ WriteFails(e) \/ ReadForProjection(e) \/ Retain(e)
             \/ HandlerRaises(e) \/ Project(e) \/ Decrement(e) \/ Restore(e)
      PROVE  FilesInv'
  <2>1. PICK c \in Calls : c = ep[e] /\ Promised(c)
    BY DEF IInv, Typed, FilesInv
  <2>2. PICK x : /\ ep' = [ep EXCEPT ![e] = x]
                 /\ \/ x.pc \notin Running
                    \/ /\ c.pc \in Running /\ x.pc = "finish" /\ x.verdict = "execution"
                       /\ x.worker = c.worker /\ x.job = c.job
    <3>1. CASE WriteFails(e)
      <4>1. ep' = [ep EXCEPT ![e] = [c EXCEPT !.pc = "finish", !.verdict = "execution",
                                              !.left = <<>>]]
        BY <2>1, <3>1 DEF WriteFails
      <4>2. c.pc \in Running
        BY <2>1, <3>1 DEF WriteFails, Running
      <4>3. PICK x : x = [c EXCEPT !.pc = "finish", !.verdict = "execution", !.left = <<>>]
        OBVIOUS
      <4>4. x.pc = "finish" /\ x.verdict = "execution" /\ x.worker = c.worker /\ x.job = c.job
        BY <2>1, <4>3 DEF Calls
      <4> QED BY <4>1, <4>2, <4>3, <4>4
    <3>2. CASE ReadForRecord(e)
      <4> DEFINE x == [c EXCEPT !.pc = "start", !.seen = row]
      <4>1. ep' = [ep EXCEPT ![e] = x] /\ x.pc \notin Running
        BY <2>1, <3>2 DEF ReadForRecord, Calls, Running
      <4> QED BY <4>1
    <3>3. CASE ReadForProjection(e) \/ Retain(e) \/ HandlerRaises(e)
      <4>1. PICK pc \in {"project", "decrement", "restore"} :
              ep' = [ep EXCEPT ![e] = [c EXCEPT !.pc = pc, !.seen = row]]
        BY <2>1, <3>3 DEF ReadForProjection, Retain, HandlerRaises
      <4> DEFINE x == [c EXCEPT !.pc = pc, !.seen = row]
      <4>2. x.pc \notin Running
        BY <2>1 DEF Calls, Running
      <4> QED BY <4>1, <4>2
    <3>4. CASE Project(e) \/ Decrement(e) \/ Restore(e)
      <4>1. ep' = [ep EXCEPT ![e] = Idle] /\ Idle.pc \notin Running
        BY <3>4 DEF Project, Decrement, Restore, Idle, Running
      <4> QED BY <4>1
    <3> QED BY <1>2, <3>1, <3>2, <3>3, <3>4
  <2>3. Promised(x)
    BY <2>1, <2>2 DEF Promised, Running
  <2>4. UNCHANGED <<jobs, log>>
    BY <1>2 DEF ReadForRecord, WriteFails, ReadForProjection, Retain, HandlerRaises, Project,
                Decrement, Restore
  <2> QED BY <2>2, <2>3, <2>4, CallsKeepFiles
<1>3. ASSUME NEW e \in Episodes,
             \/ MockAnswers(e) \/ RequestFails(e) \/ SubagentAnswers(e) \/ ServerAnswers(e)
      PROVE  FilesInv'
  <2>1. ep[e].pc = "call" /\ ep[e].worker \in Workers
    BY <1>3, RunningJob DEF MockAnswers, RequestFails, SubagentAnswers, ServerAnswers,
                            CallsSubagent, Running
  <2>2. CASE MockAnswers(e)
    BY <2>1, <2>2, MockTypes, MockDelivers, AnswersKeepFiles DEF MockAnswers
  <2>3. Outages \subseteq Errors \cup ServerFaults
    BY DispatchAssumption DEF Errors
  <2>4. CASE RequestFails(e)
    <3>1. Raised("schema") \in Drafts /\ Raised("schema").outcome # "passed"
      BY RaisedTypes DEF Errors, Raised
    <3> QED BY <2>1, <2>4, <3>1, AnswersKeepFiles DEF RequestFails
  <2>5. CASE SubagentAnswers(e)
    <3>1. Route[ep[e].worker] # "mock"
      BY <2>5 DEF SubagentAnswers, CallsSubagent
    <3>2. \A class \in Outages \ ServerFaults : Raised(class) \in Drafts
      BY <2>3, RaisedTypes
    <3>3. \E d \in Drafts : Answer(e, d)
      BY <2>1, <2>5, <3>2, StreamTypes DEF SubagentAnswers
    <3> QED BY <2>1, <3>1, <3>3, AnswersKeepFiles
  <2>6. CASE ServerAnswers(e)
    <3>1. Route[ep[e].worker] # "mock"
      BY <2>6 DEF ServerAnswers
    <3>2. \A fault \in Outages \cap ServerFaults : Raised(FaultClass(fault)) \in Drafts
      <4>1. \A fault \in ServerFaults : FaultClass(fault) \in Errors
        BY DEF FaultClass, ServerFaults, Errors
      <4> QED BY <4>1, RaisedTypes
    <3>3. \E d \in Drafts : Answer(e, d)
      BY <2>1, <2>6, <3>2, ReplyTypes DEF ServerAnswers
    <3> QED BY <2>1, <3>1, <3>3, AnswersKeepFiles
  <2> QED BY <1>3, <2>2, <2>4, <2>5, <2>6
<1>4. ASSUME NEW e \in Episodes, SubagentBusy(e)
      PROVE  FilesInv'
  <2>1. PICK c \in Calls : c = ep[e] /\ Promised(c) /\ c.pc = "call"
    BY <1>4 DEF SubagentBusy, CallsSubagent, IInv, Typed, FilesInv
  <2> DEFINE x == [c EXCEPT !.tries = @ + 1]
  <2>2. x.pc = "call" /\ x.worker = c.worker /\ x.job = c.job
    BY <2>1 DEF Calls
  <2>3. ep' = [ep EXCEPT ![e] = x] /\ UNCHANGED <<jobs, log>>
    BY <1>4, <2>1 DEF SubagentBusy
  <2> HIDE DEF x
  <2>4. Promised(x)
    BY <2>1, <2>2 DEF Promised
  <2> QED BY <2>3, <2>4, CallsKeepFiles
<1>5. CASE Cancel \/ UserAnswers \/ UNCHANGED vars
  <2>1. UNCHANGED <<jobs, log, ep>>
    BY <1>5 DEF Cancel, UserAnswers, vars
  <2> QED BY <2>1 DEF FilesInv, Promised, OnDisk, Delivered
<1> QED BY <1>1, <1>2, <1>3, <1>4, <1>5, StartsKeepFiles, WritesKeepFiles, FinishesKeepFiles,
           CrashesKeepFiles DEF Next, EpisodeStep

(* A job that passed has delivered: each file its worker had to write is on *)
(* disk and was announced before the end of the job was, for every route,   *)
(* draft and fault (call_worker, _persist_file_writes).                     *)
THEOREM PassesHaveFiles == Spec => []PassedJobHasItsFiles
<1>1. Init => FilesInv
  BY DEF Init, FilesInv, Promised, Running, Idle, NoRecord
<1>2. FilesInv => PassedJobHasItsFiles
  BY DEF FilesInv, Delivered, PassedJobHasItsFiles
<1> QED BY <1>1, <1>2, StepsKeepFiles, Invariance, PTL DEF Spec

-----------------------------------------------------------------------------
(* The slots of the row.  While nothing has raced one episode at most is in *)
(* a call; what it remembers of the slots is what crashes have left.        *)

InCall == {ep[e].job : e \in {e \in Episodes : Holding(e)}}
Alone == \A e, f \in Episodes : ep[e].pc # "idle" /\ ep[f].pc # "idle" => e = f
Apart ==
  /\ \A e \in Episodes : ep[e].pc # "idle" => ep[e].job \notin leaked
  /\ \A j \in leaked : j <= issued
Counted ==
  row.status # "cancelled" =>
    /\ row.active = InCall \cup leaked /\ row.parallel = Cardinality(row.active)
    /\ \A e \in Episodes : Holding(e) =>
         ep[e].before.active = leaked /\ ep[e].before.parallel = Cardinality(leaked)
Settled ==
  \A e \in Episodes :
    (ep[e].pc = "project" /\ ep[e].seen.status = "cancelled") \/ ep[e].pc = "decrement"
      => row.status = "cancelled"
SlotsInv == Apart /\ (~raced => Alone /\ Counted /\ Settled)

LEMMA OneMore ==
  ASSUME IInv, NEW j \in Jobs, j \notin leaked
  PROVE  /\ Cardinality(leaked) \in Nat /\ Cardinality(leaked \cup {j}) = Cardinality(leaked) + 1
         /\ (leaked \cup {j}) \ {j} = leaked
<1>1. IsFiniteSet(leaked)
  <2>1. IsFiniteSet(1..MaxJobs)
    BY Limits, FS_Interval
  <2> QED BY <2>1, FS_Subset DEF IInv, Typed, Jobs
<1> QED BY <1>1, FS_CardinalityType, FS_AddElement

(* Who is alone in a call is all that is in a call. *)
LEMMA OnlyCall ==
  ASSUME Alone, NEW e \in Episodes, ep[e].pc # "idle"
  PROVE  /\ InCall = IF Holding(e) THEN {ep[e].job} ELSE {}
         /\ \A f \in Episodes : Holding(f) => f = e
<1>1. \A f \in Episodes : Holding(f) => f = e
  BY DEF Alone, Holding
<1> QED BY <1>1 DEF InCall

(* Steps that move a call on: it has its slot before and after. *)
LEMMA MovesKeepSlots ==
  ASSUME IInv, SlotsInv, NEW e \in Episodes, NEW x \in Calls, ep' = [ep EXCEPT ![e] = x],
         ep[e].pc # "idle", x.pc # "idle", x.job = ep[e].job, x.before = ep[e].before,
         Holding(e) <=> Holding(e)',
         (x.pc = "project" /\ x.seen.status = "cancelled") \/ x.pc = "decrement"
           => row.status = "cancelled" \/ raced,
         UNCHANGED <<row, issued, raced, leaked>>
  PROVE  SlotsInv'
<1>1. \A f \in Episodes : ep'[f] = IF f = e THEN x ELSE ep[f]
  BY DEF IInv, Typed
<1>2. \A f \in Episodes : /\ Holding(f)' <=> Holding(f)
                          /\ ep'[f].job = ep[f].job /\ ep'[f].before = ep[f].before
                          /\ ep'[f].pc = "idle" <=> ep[f].pc = "idle"
  BY <1>1 DEF Holding
<1>3. Apart'
  BY <1>2 DEF SlotsInv, Apart
<1>4. ASSUME ~raced
      PROVE  Alone' /\ Counted' /\ Settled'
  <2>1. Alone'
    BY <1>2, <1>4 DEF SlotsInv, Alone
  <2>2. InCall' = InCall
    BY <1>2 DEF InCall
  <2>3. Counted'
    BY <1>2, <1>4, <2>2 DEF SlotsInv, Counted
  <2>4. Settled'
    BY <1>1, <1>4 DEF SlotsInv, Settled
  <2> QED BY <2>1, <2>3, <2>4
<1> QED BY <1>3, <1>4 DEF SlotsInv

(* Steps that end a call: unless rows raced, the slots are what is left over. *)
LEMMA ReturnsKeepSlots ==
  ASSUME IInv, SlotsInv, NEW e \in Episodes, ep' = [ep EXCEPT ![e] = Idle],
         ep[e].pc # "idle", raced' = (raced \/ row # ep[e].seen), UNCHANGED <<issued, leaked>>,
         ~raced' /\ row'.status # "cancelled" =>
           row'.active = leaked /\ row'.parallel = Cardinality(leaked)
  PROVE  SlotsInv'
<1>1. \A f \in Episodes : ep'[f] = IF f = e THEN Idle ELSE ep[f]
  BY DEF IInv, Typed
<1>2. Idle.pc = "idle"
  BY DEF Idle
<1>3. Apart'
  BY <1>1, <1>2 DEF SlotsInv, Apart
<1>4. ASSUME ~raced'
      PROVE  Alone' /\ Counted' /\ Settled'
  <2>1. ~raced /\ Alone
    BY <1>4 DEF SlotsInv
  <2>2. \A f \in Episodes : ep'[f].pc = "idle"
    BY <1>1, <1>2, <2>1 DEF Alone
  <2>3. InCall' = {} /\ \A f \in Episodes : ~Holding(f)'
    BY <2>2 DEF InCall, Holding
  <2> QED BY <1>4, <2>2, <2>3 DEF Alone, Counted, Settled
<1> QED BY <1>3, <1>4 DEF SlotsInv

LEMMA StartsKeepSlots ==
  ASSUME IInv, SlotsInv, NEW e \in Episodes, StartJob(e)
  PROVE  SlotsInv'
<1>1. PICK c \in Calls : c = ep[e] /\ c.pc = "start" /\ c.seen \in Rows
  BY DEF StartJob, IInv, Typed, Calls
<1>2. PICK j \in Jobs : j = c.job /\ j \notin leaked
  BY <1>1, Limits DEF IInv, Typed, Ordered, InStep, Jobs, SlotsInv, Apart
<1>3. PICK x \in Calls : x.pc = "call" /\ x.job = j /\ x.before = c.seen
                         /\ ep' = [ep EXCEPT ![e] = x]
  <2> DEFINE called == [c EXCEPT !.pc = "call", !.before = c.seen, !.seen = NewRow]
  <2>1. called \in Calls /\ called.pc = "call" /\ called.job = j /\ called.before = c.seen
    BY <1>1, <1>2, NewRowIsARow DEF Calls, Phases
  <2>2. ep' = [ep EXCEPT ![e] = called]
    BY <1>1 DEF StartJob
  <2> QED BY <2>1, <2>2
<1>4. \A f \in Episodes : ep'[f] = IF f = e THEN x ELSE ep[f]
  BY <1>3 DEF IInv, Typed
<1>5. /\ row'.active = c.seen.active \cup {j} /\ row'.parallel = c.seen.parallel + 1
      /\ row'.status = c.seen.status /\ raced' = (raced \/ row # c.seen)
      /\ UNCHANGED <<issued, leaked>>
  BY <1>1, <1>2 DEF StartJob, Rows
<1>6. Apart'
  BY <1>1, <1>2, <1>3, <1>4, <1>5 DEF SlotsInv, Apart
<1>7. ASSUME ~raced'
      PROVE  Alone' /\ Counted' /\ Settled'
  <2>1. ~raced /\ row = c.seen /\ Alone /\ Counted
    BY <1>5, <1>7 DEF SlotsInv
  <2>2. \A f \in Episodes : f # e => ep[f].pc = "idle" /\ ep'[f] = ep[f]
    BY <1>1, <1>4, <2>1 DEF Alone
  <2>3. Alone' /\ Settled'
    BY <1>3, <1>4, <2>2 DEF Alone, Settled
  <2>4. InCall = {} /\ InCall' = {j}
    BY <1>1, <1>3, <1>4, <2>2 DEF InCall, Holding
  <2>5. Counted'
    <3> SUFFICES ASSUME row'.status # "cancelled"
                 PROVE  /\ row'.active = InCall' \cup leaked'
                        /\ row'.parallel = Cardinality(row'.active)
                        /\ \A f \in Episodes : Holding(f)' =>
                             /\ ep'[f].before.active = leaked'
                             /\ ep'[f].before.parallel = Cardinality(leaked')
      BY DEF Counted
    <3>1. c.seen.active = leaked /\ c.seen.parallel = Cardinality(leaked)
      BY <1>5, <2>1, <2>4 DEF Counted
    <3>2. row'.active = InCall' \cup leaked' /\ row'.parallel = Cardinality(row'.active)
      BY <1>2, <1>5, <2>4, <3>1, OneMore
    <3> QED BY <1>3, <1>4, <1>5, <2>2, <3>1, <3>2 DEF Holding
  <2> QED BY <2>3, <2>5
<1> QED BY <1>6, <1>7 DEF SlotsInv

LEMMA CallsKeepSlots ==
  ASSUME IInv, SlotsInv, NEW e \in Episodes, CallWorkerTool(e)
  PROVE  SlotsInv'
<1>1. PICK x : ep' = [ep EXCEPT ![e] = x] /\ x.pc = "record" /\ x.job = issued + 1
  <2>1. PICK w \in Workers :
          ep' = [ep EXCEPT ![e] = [Idle EXCEPT !.pc = "record", !.job = issued + 1,
                           !.worker = w, !.inputs = Inputs(row, w), !.selected = row.open]]
    BY DEF CallWorkerTool
  <2> DEFINE x == [Idle EXCEPT !.pc = "record", !.job = issued + 1, !.worker = w,
                               !.inputs = Inputs(row, w), !.selected = row.open]
  <2>2. x.pc = "record" /\ x.job = issued + 1
    BY DEF Idle
  <2> QED BY <2>1, <2>2
<1>2. \A f \in Episodes : ep'[f] = IF f = e THEN x ELSE ep[f]
  BY <1>1 DEF IInv, Typed
<1>3. /\ ep[e].pc = "idle" /\ issued \in Nat /\ issued' = issued + 1
      /\ raced' = (raced \/ \E f \in Episodes \ {e} : ep[f].pc # "idle")
      /\ UNCHANGED <<row, leaked>> /\ leaked \subseteq Nat
  BY Limits DEF CallWorkerTool, IInv, Typed, Jobs
<1>4. Apart'
  <2>1. \A j \in leaked : j <= issued
    BY DEF SlotsInv, Apart
  <2>2. \A j \in leaked : j <= issued + 1 /\ j # issued + 1
    BY <1>3, <2>1
  <2> QED BY <1>1, <1>2, <1>3, <2>2 DEF SlotsInv, Apart
<1>5. ASSUME ~raced'
      PROVE  Alone' /\ Counted' /\ Settled'
  <2>1. ~raced /\ Alone /\ Counted /\ Settled
        /\ \A f \in Episodes : f # e => ep[f].pc = "idle"
    BY <1>3, <1>5 DEF SlotsInv
  <2>2. \A f \in Episodes : ~Holding(f) /\ ~Holding(f)'
    BY <1>1, <1>2, <1>3, <2>1 DEF Holding
  <2>3. InCall' = InCall
    BY <2>2 DEF InCall
  <2>4. Alone' /\ Counted'
    BY <1>2, <1>3, <2>1, <2>2, <2>3 DEF Alone, Counted
  <2>5. Settled'
    BY <1>1, <1>2, <1>3, <2>1 DEF Settled
  <2> QED BY <2>4, <2>5
<1> QED BY <1>4, <1>5 DEF SlotsInv

LEMMA ResultsKeepSlots ==
  ASSUME IInv, SlotsInv, NEW e \in Episodes, Project(e) \/ Decrement(e) \/ Restore(e)
  PROVE  SlotsInv'
<1>1. PICK c \in Calls : /\ c = ep[e] /\ Holding(e) /\ c.seen \in Rows /\ c.before \in Rows
                         /\ c.pc \in {"project", "decrement", "restore"}
  BY DEF Project, Decrement, Restore, IInv, Typed, Calls, Holding
<1>2. PICK j \in Jobs : j = c.job /\ j \notin leaked /\ Over(j)
  BY <1>1, Limits DEF IInv, Typed, Ordered, InStep, Late, Jobs, SlotsInv, Apart
<1>3. /\ ep' = [ep EXCEPT ![e] = Idle] /\ raced' = (raced \/ row # c.seen)
      /\ UNCHANGED <<issued, leaked>>
  BY <1>1 DEF Project, Decrement, Restore
<1>4. ASSUME ~raced', row'.status # "cancelled"
      PROVE  row'.active = leaked /\ row'.parallel = Cardinality(leaked)
  <2>1. ~raced /\ row = c.seen /\ Alone /\ Counted /\ Settled
    BY <1>3, <1>4 DEF SlotsInv
  <2>2. InCall = {j}
    BY <1>1, <1>2, <2>1, OnlyCall
  <2>3. CASE Project(e)
    <3> DEFINE r == IF jobs[j].status = "completed" THEN Pointed(row, j, jobs[j].files) ELSE row
    <3>1. r \in Rows /\ r.active = row.active /\ r.parallel = row.parallel
      <4>1. Known(row) /\ row \in Rows
        BY DEF IInv, Typed, Sourced
      <4>2. jobs[j].status = "completed" =>
              Pointed(row, j, jobs[j].files) \in Rows
        BY <4>1, PointedIsBacked
      <4>3. Pointed(row, j, jobs[j].files).active = row.active
            /\ Pointed(row, j, jobs[j].files).parallel = row.parallel
        BY <4>1 DEF Pointed, Rows
      <4> QED BY <4>1, <4>2, <4>3
    <3>2. row' = Applied(row, j) /\ row.status # "cancelled"
      BY <1>1, <1>2, <2>1, <2>3 DEF Project
    <3>3. row'.active = r.active \ {j} /\ row'.parallel = Less(r.parallel)
      <4> HIDE DEF r
      <4>1. Applied(row, j).active = r.active \ {j}
            /\ Applied(row, j).parallel = Less(r.parallel)
        BY <3>1 DEF Applied, Rows, r
      <4> QED BY <3>2, <4>1
    <3>4. row.active = {j} \cup leaked /\ row.parallel = Cardinality({j} \cup leaked)
      BY <2>1, <2>2, <3>2 DEF Counted
    <3> QED BY <1>2, <3>1, <3>3, <3>4, OneMore DEF Less
  <2>4. CASE Decrement(e)
    <3>1. row'.status = row.status /\ row.status = "cancelled"
      BY <1>1, <2>1, <2>4 DEF Decrement, Settled, Rows
    <3> QED BY <1>4, <3>1
  <2>5. CASE Restore(e)
    <3>1. /\ row'.active = c.before.active \ {j} /\ row'.parallel = c.before.parallel
          /\ row'.status = row.status
      BY <1>1, <1>2, <2>1, <2>5 DEF Restore, Rows
    <3>2. c.before.active = leaked /\ c.before.parallel = Cardinality(leaked)
      BY <1>1, <1>4, <2>1, <3>1 DEF Counted
    <3> QED BY <1>2, <3>1, <3>2
  <2> QED BY <2>3, <2>4, <2>5
<1> QED BY <1>1, <1>3, <1>4, ReturnsKeepSlots

LEMMA CrashesKeepSlots ==
  ASSUME IInv, SlotsInv, Crash
  PROVE  SlotsInv'
<1>1. \A e \in Episodes : ep'[e].pc = "idle"
  BY DEF Crash, Idle
<1>2. leaked' = leaked \cup InCall /\ UNCHANGED <<row, issued, raced>>
  BY DEF Crash, InCall
<1>3. Apart'
  <2>1. \A e \in Episodes : Holding(e) => ep[e].job <= issued
    BY Limits DEF Holding, IInv, Typed, Ordered, InStep
  <2> QED BY <1>1, <1>2, <2>1 DEF SlotsInv, Apart, InCall
<1>4. InCall' = {} /\ \A e \in Episodes : ~Holding(e)'
  BY <1>1 DEF InCall, Holding
<1>5. ~raced' => Alone' /\ Counted' /\ Settled'
  BY <1>1, <1>2, <1>4 DEF SlotsInv, Alone, Counted, Settled
<1> QED BY <1>3, <1>5 DEF SlotsInv

LEMMA StepsKeepSlots == IInv /\ SlotsInv /\ [Next]_vars => SlotsInv'
<1> SUFFICES ASSUME IInv, SlotsInv, [Next]_vars
             PROVE  SlotsInv'
  OBVIOUS
<1>1. ASSUME NEW e \in Episodes,
             \/ ReadForRecord(e) \/ WriteFails(e) \/ ReadForProjection(e) \/ Retain(e)
             \/ HandlerRaises(e) \/ SubagentBusy(e) \/ WriteFile(e) \/ Finish(e)
             \/ MockAnswers(e) \/ RequestFails(e) \/ SubagentAnswers(e) \/ ServerAnswers(e)
      PROVE  SlotsInv'
  <2>1. PICK c \in Calls : c = ep[e]
    BY DEF IInv, Typed
  <2>2. /\ UNCHANGED <<row, issued, raced, leaked>> /\ ep[e].pc # "idle"
    BY <1>1 DEF ReadForRecord, WriteFails, ReadForProjection, Retain, HandlerRaises, SubagentBusy,
                WriteFile, Finish, MockAnswers, RequestFails, SubagentAnswers, ServerAnswers,
                CallsSubagent, Answer
  <2>3. \A f \in Episodes : ep'[f] \in Calls
    <3>1. IInv'
      BY <1>1, Inductive DEF Next, EpisodeStep
    <3> QED BY <3>1 DEF IInv, Typed
  <2>4. PICK x : /\ ep' = [ep EXCEPT ![e] = x] /\ x.job = c.job /\ x.before = c.before
                 /\ \/ c.pc = "record" /\ x.pc = "start"
                    \/ c.pc \in Running /\ x.pc \in Running \cup {"read"}
                    \/ c.pc = "read" /\ x.pc = "project" /\ x.seen = row
                    \/ /\ c.pc = "project" /\ c.seen.status = "cancelled"
                       /\ x.pc = "decrement"
                    \/ c.pc = "project" /\ x.pc = "restore"
    <3>1. CASE ReadForRecord(e)
      <4> DEFINE x == [c EXCEPT !.pc = "start", !.seen = row]
      <4>1. ep' = [ep EXCEPT ![e] = x] /\ c.pc = "record"
        BY <2>1, <3>1 DEF ReadForRecord
      <4>2. x.pc = "start" /\ x.job = c.job /\ x.before = c.before
        BY <2>1 DEF Calls
      <4> QED BY <4>1, <4>2
    <3>2. CASE WriteFails(e)
      <4> DEFINE x == [c EXCEPT !.pc = "finish", !.verdict = "execution", !.left = <<>>]
      <4>1. ep' = [ep EXCEPT ![e] = x] /\ c.pc \in Running
        BY <2>1, <3>2 DEF WriteFails, Running
      <4>2. x.pc \in Running /\ x.job = c.job /\ x.before = c.before
        BY <2>1 DEF Calls, Running
      <4> QED BY <4>1, <4>2
    <3>3. CASE ReadForProjection(e)
      <4> DEFINE x == [c EXCEPT !.pc = "project", !.seen = row]
      <4>1. ep' = [ep EXCEPT ![e] = x] /\ c.pc = "read"
        BY <2>1, <3>3 DEF ReadForProjection
      <4>2. x.pc = "project" /\ x.seen = row /\ x.job = c.job /\ x.before = c.before
        BY <2>1 DEF Calls
      <4> QED BY <4>1, <4>2
    <3>4. CASE Retain(e)
      <4> DEFINE x == [c EXCEPT !.pc = "decrement", !.seen = row]
      <4>1. ep' = [ep EXCEPT ![e] = x] /\ c.pc = "project" /\ c.seen.status = "cancelled"
        BY <2>1, <3>4 DEF Retain
      <4>2. x.pc = "decrement" /\ x.job = c.job /\ x.before = c.before
        BY <2>1 DEF Calls
      <4> QED BY <4>1, <4>2
    <3>5. CASE HandlerRaises(e)
      <4> DEFINE x == [c EXCEPT !.pc = "restore", !.seen = row]
      <4>1. ep' = [ep EXCEPT ![e] = x] /\ c.pc = "project"
        BY <2>1, <3>5 DEF HandlerRaises
      <4>2. x.pc = "restore" /\ x.job = c.job /\ x.before = c.before
        BY <2>1 DEF Calls
      <4> QED BY <4>1, <4>2
    <3>6. CASE SubagentBusy(e)
      <4> DEFINE x == [c EXCEPT !.tries = @ + 1]
      <4>1. ep' = [ep EXCEPT ![e] = x] /\ c.pc \in Running
        BY <2>1, <3>6 DEF SubagentBusy, CallsSubagent, Running
      <4>2. x.pc = c.pc /\ x.job = c.job /\ x.before = c.before
        BY <2>1 DEF Calls
      <4> QED BY <4>1, <4>2
    <3>7. CASE WriteFile(e)
      <4> DEFINE x == [c EXCEPT !.left = Tail(@)]
      <4>1. ep' = [ep EXCEPT ![e] = x] /\ c.pc \in Running
        BY <2>1, <3>7 DEF WriteFile, Running
      <4>2. x.pc = c.pc /\ x.job = c.job /\ x.before = c.before
        BY <2>1 DEF Calls
      <4> QED BY <4>1, <4>2
    <3>8. CASE Finish(e)
      <4> DEFINE x == [c EXCEPT !.pc = "read"]
      <4>1. ep' = [ep EXCEPT ![e] = x] /\ c.pc \in Running
        BY <2>1, <3>8 DEF Finish, Running
      <4>2. x.pc = "read" /\ x.job = c.job /\ x.before = c.before
        BY <2>1 DEF Calls
      <4> QED BY <4>1, <4>2
    <3>9. CASE MockAnswers(e) \/ RequestFails(e) \/ SubagentAnswers(e) \/ ServerAnswers(e)
      <4>1. c.pc = "call" /\ \E d : Keep(e, d)
        BY <2>1, <3>9 DEF MockAnswers, RequestFails, SubagentAnswers, ServerAnswers,
                          CallsSubagent, Answer
      <4>2. PICK d : Keep(e, d)
        BY <4>1
      <4> DEFINE x == IF d.outcome \in Errors
                      THEN [c EXCEPT !.pc = "finish", !.verdict = d.outcome]
                      ELSE IF Route[c.worker] # "mock" /\ ~Acceptable(c.worker, d)
                           THEN [c EXCEPT !.pc = "finish", !.verdict = "schema"]
                           ELSE [c EXCEPT !.pc = "write", !.verdict = d.outcome,
                                          !.left = d.writes]
      <4>3. ep' = [ep EXCEPT ![e] = x]
        BY <2>1, <4>2 DEF Keep
      <4>4. x.pc \in Running /\ x.job = c.job /\ x.before = c.before
        BY <2>1 DEF Calls, Running
      <4> HIDE DEF x
      <4> QED BY <4>1, <4>3, <4>4 DEF Running
    <3> QED BY <1>1, <3>1, <3>2, <3>3, <3>4, <3>5, <3>6, <3>7, <3>8, <3>9
  <2>5. ep'[e] = x /\ x \in Calls
    BY <2>3, <2>4 DEF IInv, Typed
  <2>6. Holding(e) <=> Holding(e)'
    BY <2>1, <2>4, <2>5 DEF Holding, Running
  <2>7. (x.pc = "project" /\ x.seen.status = "cancelled") \/ x.pc = "decrement"
           => row.status = "cancelled" \/ raced
    <3>1. Running = {"call", "write", "finish"}
      BY DEF Running
    <3> QED BY <2>1, <2>4, <3>1 DEF SlotsInv, Settled
  <2>8. x.pc # "idle"
    BY <2>4 DEF Running
  <2> QED BY <2>1, <2>2, <2>4, <2>5, <2>6, <2>7, <2>8, MovesKeepSlots
<1>2. CASE Cancel
  <2>1. row'.status = "cancelled" /\ UNCHANGED <<ep, issued, raced, leaked>>
    BY <1>2 DEF Cancel, IInv, Typed, Rows
  <2> QED BY <2>1 DEF SlotsInv, Apart, Alone, Counted, Settled
<1>3. CASE UserAnswers
  <2>1. /\ row'.active = row.active /\ row'.parallel = row.parallel
        /\ row.status # "cancelled" /\ row'.status # "cancelled"
        /\ UNCHANGED <<ep, issued, raced, leaked>>
    BY <1>3 DEF UserAnswers, IInv, Typed, Rows
  <2> QED BY <2>1 DEF SlotsInv, Apart, Alone, Counted, Settled, InCall, Holding
<1>4. CASE UNCHANGED vars
  BY <1>4 DEF vars, SlotsInv, Apart, Alone, Counted, Settled, InCall, Holding
<1> QED BY <1>1, <1>2, <1>3, <1>4, StartsKeepSlots, CallsKeepSlots, ResultsKeepSlots,
           CrashesKeepSlots DEF Next, EpisodeStep

-----------------------------------------------------------------------------
(* Calls that failed.  A call that is on its way has been admitted, so at   *)
(* most one like it has failed in the same way; while nothing has raced no  *)
(* other call ends before it does.                                          *)

Failures(w, inputs, selected, t) ==
  {k \in Jobs : SameCall(k, w, inputs, selected) /\ t \in FailureType(k)}
Admitted(x) == \A w, i, s, t :
  w = x.worker /\ i = x.inputs /\ s = x.selected => Cardinality(Failures(w, i, s, t)) < 2
Recorded(x) ==
  LET r == jobs[x.job] IN
  r.worker = x.worker /\ r.inputs = x.inputs /\ r.selected = x.selected
RetryInv ==
  /\ \A e \in Episodes : ep[e].pc \in Running => Recorded(ep[e])
  /\ ~raced => /\ \A e \in Episodes : ep[e].pc \in Early \cup Running => Admitted(ep[e])
               /\ \A w, i, s, t : Cardinality(Failures(w, i, s, t)) <= 2

SameFailure(k) ==
  /\ jobs'[k].worker = jobs[k].worker /\ jobs'[k].inputs = jobs[k].inputs
  /\ jobs'[k].selected = jobs[k].selected /\ jobs'[k].verdict = jobs[k].verdict

LEMMA SetsOfJobs ==
  ASSUME NEW S \in SUBSET Jobs
  PROVE  /\ IsFiniteSet(S) /\ Cardinality(S) \in Nat
         /\ \A T \in SUBSET S : Cardinality(T) <= Cardinality(S)
         /\ \A j \in Jobs : Cardinality(S \cup {j}) <= Cardinality(S) + 1
<1>1. IsFiniteSet(S)
  <2>1. IsFiniteSet(1..MaxJobs)
    BY Limits, FS_Interval
  <2> QED BY <2>1, FS_Subset DEF Jobs
<1>2. Cardinality(S) \in Nat
  BY <1>1, FS_CardinalityType
<1>3. \A T \in SUBSET S : Cardinality(T) <= Cardinality(S)
  BY <1>1, FS_Subset
<1>4. \A j \in Jobs : Cardinality(S \cup {j}) <= Cardinality(S) + 1
  BY <1>1, <1>2, FS_AddElement
<1> QED BY <1>1, <1>2, <1>3, <1>4

(* Steps in which no call fails: each class of calls has the failures it had, *)
(* or lost those of a job that is new.                                       *)
LEMMA NoFailureKeepsRetries ==
  ASSUME RetryInv, raced => raced',
         \A w, i, s, t : Failures(w, i, s, t)' \in SUBSET Failures(w, i, s, t),
         \A f \in Episodes : ep'[f].pc \in Running => Recorded(ep[f])',
         \A f \in Episodes : ep'[f].pc \in Early \cup Running =>
           \/ Admitted(ep'[f]) \/ raced'
           \/ /\ ep[f].pc \in Early \cup Running /\ ep'[f].worker = ep[f].worker
              /\ ep'[f].inputs = ep[f].inputs /\ ep'[f].selected = ep[f].selected
  PROVE  RetryInv'
<1>1. ASSUME NEW w, NEW i, NEW s, NEW t
      PROVE  /\ Cardinality(Failures(w, i, s, t)') \in Nat
             /\ Cardinality(Failures(w, i, s, t)) \in Nat
             /\ Cardinality(Failures(w, i, s, t)') <= Cardinality(Failures(w, i, s, t))
  <2>1. Failures(w, i, s, t) \in SUBSET Jobs /\ Failures(w, i, s, t)' \in SUBSET Jobs
    BY DEF Failures, Jobs
  <2> QED BY <2>1, SetsOfJobs
<1>2. ASSUME ~raced', NEW f \in Episodes, ep'[f].pc \in Early \cup Running
      PROVE  Admitted(ep[f])'
  <2>1. \A w, i, s, t : w = ep'[f].worker /\ i = ep'[f].inputs /\ s = ep'[f].selected
                          => Cardinality(Failures(w, i, s, t)) < 2
    BY <1>2 DEF RetryInv, Admitted
  <2> SUFFICES ASSUME NEW w, NEW i, NEW s, NEW t,
                      w = ep'[f].worker, i = ep'[f].inputs, s = ep'[f].selected
               PROVE  Cardinality(Failures(w, i, s, t)') < 2
    BY DEF Admitted
  <2> DEFINE m == Cardinality(Failures(w, i, s, t)')
             n == Cardinality(Failures(w, i, s, t))
  <2>2. m \in Nat /\ n \in Nat /\ m <= n
    BY <1>1
  <2>3. n < 2
    BY <2>1
  <2> HIDE DEF m, n
  <2>4. m < 2
    BY <2>2, <2>3
  <2> QED BY <2>4 DEF m
<1>3. ASSUME ~raced', NEW w, NEW i, NEW s, NEW t
      PROVE  Cardinality(Failures(w, i, s, t)') <= 2
  <2> DEFINE m == Cardinality(Failures(w, i, s, t)')
             n == Cardinality(Failures(w, i, s, t))
  <2>1. m \in Nat /\ n \in Nat /\ m <= n /\ n <= 2
    BY <1>1, <1>3 DEF RetryInv
  <2> HIDE DEF m, n
  <2>2. m <= 2
    BY <2>1
  <2> QED BY <2>2 DEF m
<1> QED BY <1>2, <1>3 DEF RetryInv

LEMMA SameJobsFailed ==
  ASSUME \A k \in Jobs : SameFailure(k) \/ jobs'[k].verdict = "none"
  PROVE  \A w, i, s, t : Failures(w, i, s, t)' \in SUBSET Failures(w, i, s, t)
<1>1. \A k \in Jobs : \/ FailureType(k)' = FailureType(k) /\ SameFailure(k)
                      \/ FailureType(k)' = {}
  BY DEF SameFailure, FailureType, Errors
<1>2. \A k \in Jobs : \A w, i, s : SameFailure(k) /\ SameCall(k, w, i, s)' => SameCall(k, w, i, s)
  BY DEF SameFailure, SameCall
<1> QED BY <1>1, <1>2 DEF Failures, Jobs

(* Steps of one episode in which no job begins or ends. *)
LEMMA MovesKeepRetries ==
  ASSUME IInv, RetryInv, raced => raced', NEW e \in Episodes, NEW x, ep' = [ep EXCEPT ![e] = x],
         \A k \in Jobs : SameFailure(k),
         \/ x.pc \notin Early \cup Running
         \/ /\ ep[e].pc \in Early \cup Running
            /\ x.pc \in Running => ep[e].pc \in Running
            /\ x.job = ep[e].job /\ x.worker = ep[e].worker
            /\ x.inputs = ep[e].inputs /\ x.selected = ep[e].selected
  PROVE  RetryInv'
<1>1. \A f \in Episodes : ep'[f] = IF f = e THEN x ELSE ep[f]
  BY DEF IInv, Typed
<1>2. \A w, i, s, t : Failures(w, i, s, t)' \in SUBSET Failures(w, i, s, t)
  BY SameJobsFailed
<1>3. ASSUME NEW f \in Episodes, ep'[f].pc \in Running
      PROVE  Recorded(ep[f])'
  <2>1. ep[f].pc \in Running /\ Recorded(ep[f])
    BY <1>1, <1>3 DEF RetryInv
  <2>2. ep[f].job \in Jobs
    BY <2>1, RunningJob
  <2>3. /\ ep'[f].job = ep[f].job /\ ep'[f].worker = ep[f].worker
        /\ ep'[f].inputs = ep[f].inputs /\ ep'[f].selected = ep[f].selected
    BY <1>1, <1>3
  <2> QED BY <2>1, <2>2, <2>3 DEF Recorded, SameFailure
<1>4. \A f \in Episodes : ep'[f].pc \in Early \cup Running =>
           /\ ep[f].pc \in Early \cup Running /\ ep'[f].worker = ep[f].worker
           /\ ep'[f].inputs = ep[f].inputs /\ ep'[f].selected = ep[f].selected
  BY <1>1
<1> QED BY <1>2, <1>3, <1>4, NoFailureKeepsRetries

(* A new job has not failed yet. *)
LEMMA StartsKeepRetries ==
  ASSUME IInv, SlotsInv, RetryInv, NEW e \in Episodes, StartJob(e)
  PROVE  RetryInv'
<1>1. PICK c \in Calls : c = ep[e] /\ c.pc = "start" /\ c.job \in Jobs
  BY Limits DEF StartJob, IInv, Typed, Ordered, InStep, Jobs
<1>2. PICK x : /\ ep' = [ep EXCEPT ![e] = x] /\ x.pc = "call" /\ x.job = c.job
               /\ x.worker = c.worker /\ x.inputs = c.inputs /\ x.selected = c.selected
  <2> DEFINE x == [c EXCEPT !.pc = "call", !.before = c.seen, !.seen = NewRow]
  <2>1. ep' = [ep EXCEPT ![e] = x]
    BY <1>1 DEF StartJob
  <2>2. /\ x.pc = "call" /\ x.job = c.job
        /\ x.worker = c.worker /\ x.inputs = c.inputs /\ x.selected = c.selected
    BY <1>1 DEF Calls
  <2> QED BY <2>1, <2>2
<1>3. PICK r : /\ jobs' = [jobs EXCEPT ![c.job] = r] /\ r.verdict = "none"
               /\ r.worker = c.worker /\ r.inputs = c.inputs /\ r.selected = c.selected
  <2> DEFINE r == [NoRecord EXCEPT !.worker = c.worker, !.inputs = c.inputs,
                                   !.selected = c.selected, !.status = "running"]
  <2>1. jobs' = [jobs EXCEPT ![c.job] = r]
    BY <1>1 DEF StartJob
  <2>2. r.verdict = "none" /\ r.worker = c.worker /\ r.inputs = c.inputs
        /\ r.selected = c.selected
    BY DEF NoRecord
  <2> QED BY <2>1, <2>2
<1>4. /\ \A f \in Episodes : ep'[f] = IF f = e THEN x ELSE ep[f]
      /\ \A k \in Jobs : jobs'[k] = IF k = c.job THEN r ELSE jobs[k]
  BY <1>1, <1>2, <1>3 DEF IInv, Typed
<1>5. raced => raced'
  BY DEF StartJob
<1>6. \A w, i, s, t : Failures(w, i, s, t)' \in SUBSET Failures(w, i, s, t)
  BY <1>3, <1>4, SameJobsFailed DEF SameFailure
<1>7. ASSUME NEW f \in Episodes, ep'[f].pc \in Running
      PROVE  Recorded(ep[f])'
  <2>1. CASE f = e
    BY <1>1, <1>2, <1>3, <1>4, <2>1 DEF Recorded
  <2>2. CASE f # e
    <3>1. ep'[f] = ep[f] /\ ep[f].pc \in Running /\ Recorded(ep[f])
      BY <1>4, <1>7, <2>2 DEF RetryInv
    <3>2. ep[f].job \in Jobs /\ ep[f].job # c.job
      BY <1>1, <2>2, <3>1, RunningJob DEF IInv, Ordered, Running
    <3> QED BY <1>4, <3>1, <3>2 DEF Recorded
  <2> QED BY <2>1, <2>2
<1>8. \A f \in Episodes : ep'[f].pc \in Early \cup Running =>
           /\ ep[f].pc \in Early \cup Running /\ ep'[f].worker = ep[f].worker
           /\ ep'[f].inputs = ep[f].inputs /\ ep'[f].selected = ep[f].selected
  BY <1>1, <1>2, <1>4 DEF Early
<1> QED BY <1>5, <1>6, <1>7, <1>8, NoFailureKeepsRetries

(* A call that fails was admitted: it is the second of its kind at most.    *)
LEMMA FinishesKeepRetries ==
  ASSUME IInv, SlotsInv, RetryInv, NEW e \in Episodes, Finish(e)
  PROVE  RetryInv'
<1>1. PICK c \in Calls : c = ep[e] /\ c.pc \in Running /\ c.job \in Jobs /\ Recorded(c)
  BY RunningJob DEF Finish, IInv, Typed, RetryInv, Running
<1>2. PICK j \in Jobs : j = c.job
  BY <1>1
<1>3. \A f \in Episodes : /\ f # e => ep'[f] = ep[f]
                          /\ ep'[e].pc = "read"
  BY DEF Finish, IInv, Typed, Calls
<1>4. /\ jobs'[j].worker = jobs[j].worker /\ jobs'[j].inputs = jobs[j].inputs
      /\ jobs'[j].selected = jobs[j].selected
      /\ \A k \in Jobs : k # j => jobs'[k] = jobs[k]
  BY <1>1, <1>2 DEF Finish, IInv, Typed, JobRecords
<1>5. raced' = raced
  BY DEF Finish
<1>6. ASSUME NEW f \in Episodes, ep'[f].pc \in Running
      PROVE  Recorded(ep[f])'
  <2>1. f # e /\ ep'[f] = ep[f] /\ ep[f].pc \in Running /\ Recorded(ep[f])
    BY <1>3, <1>6 DEF RetryInv, Running
  <2>2. ep[f].job \in Jobs /\ ep[f].job # j
    BY <1>1, <1>2, <2>1, RunningJob DEF IInv, Ordered, Running
  <2> QED BY <1>4, <2>1, <2>2 DEF Recorded
<1>7. ASSUME ~raced, NEW f \in Episodes, ep'[f].pc \in Early \cup Running
      PROVE  FALSE
  <2>1. f # e /\ ep[f].pc # "idle" /\ ep[e].pc # "idle"
    BY <1>1, <1>3, <1>7 DEF Early, Running
  <2> QED BY <1>7, <2>1 DEF SlotsInv, Alone
<1>8. ASSUME ~raced, NEW w, NEW i, NEW s, NEW t
      PROVE  Cardinality(Failures(w, i, s, t)') <= 2
  <2> DEFINE F == Failures(w, i, s, t)
             G == Failures(w, i, s, t)'
  <2>1. F \in SUBSET Jobs /\ G \in SUBSET Jobs
    BY DEF Failures, Jobs
  <2>2. \A k \in Jobs : k # j => (k \in G <=> k \in F)
    BY <1>4 DEF Failures, SameCall, FailureType, Jobs
  <2>3. Cardinality(F) \in Nat /\ Cardinality(F) <= 2
    BY <1>8, <2>1, SetsOfJobs DEF RetryInv
  <2>4. CASE j \notin G
    <3>1. G \in SUBSET F
      BY <2>1, <2>2, <2>4
    <3> HIDE DEF F, G
    <3>2. Cardinality(G) \in Nat /\ Cardinality(G) <= Cardinality(F)
      BY <2>1, <3>1, SetsOfJobs
    <3>3. Cardinality(G) <= 2
      BY <2>3, <3>2
    <3> QED BY <3>3 DEF G
  <2>5. CASE j \in G
    <3>1. c.worker = w /\ c.inputs = i /\ (w = "repair" => c.selected = s)
      BY <1>1, <1>2, <1>4, <2>5 DEF Failures, SameCall, Recorded
    <3>2. F = Failures(c.worker, c.inputs, c.selected, t)
      BY <3>1 DEF Failures, SameCall
    <3>3. Cardinality(F) < 2
      BY <1>1, <1>8, <3>2 DEF RetryInv, Admitted
    <3> HIDE DEF F, G
    <3>4. F \cup {j} \in SUBSET Jobs /\ G \in SUBSET (F \cup {j})
      BY <2>1, <2>2
    <3>5. Cardinality(F \cup {j}) \in Nat /\ Cardinality(F \cup {j}) <= Cardinality(F) + 1
      BY <2>1, <3>4, SetsOfJobs
    <3>6. Cardinality(G) \in Nat /\ Cardinality(G) <= Cardinality(F \cup {j})
      BY <2>1, <3>4, SetsOfJobs
    <3>7. Cardinality(G) <= 2
      BY <2>3, <3>3, <3>5, <3>6
    <3> QED BY <3>7 DEF G
  <2> QED BY <2>4, <2>5
<1> QED BY <1>5, <1>6, <1>7, <1>8 DEF RetryInv

(* The guard of a call: at most one like it has failed in each way.         *)
LEMMA CallsKeepRetries ==
  ASSUME IInv, RetryInv, NEW e \in Episodes, CallWorkerTool(e)
  PROVE  RetryInv'
<1>1. PICK w \in Workers :
        /\ ~Debounced(row, w)
        /\ ep' = [ep EXCEPT ![e] = [Idle EXCEPT !.pc = "record", !.job = issued + 1,
                             !.worker = w, !.inputs = Inputs(row, w), !.selected = row.open]]
  BY DEF CallWorkerTool
<1>2. PICK x : /\ ep' = [ep EXCEPT ![e] = x] /\ x.pc = "record" /\ x.worker = w
               /\ x.inputs = Inputs(row, w) /\ x.selected = row.open
  <2> DEFINE x == [Idle EXCEPT !.pc = "record", !.job = issued + 1, !.worker = w,
                               !.inputs = Inputs(row, w), !.selected = row.open]
  <2>1. x.pc = "record" /\ x.worker = w /\ x.inputs = Inputs(row, w) /\ x.selected = row.open
    BY DEF Idle
  <2> QED BY <1>1, <2>1
<1>3. \A f \in Episodes : ep'[f] = IF f = e THEN x ELSE ep[f]
  BY <1>2 DEF IInv, Typed
<1>4. raced => raced'
  BY DEF CallWorkerTool
<1>5. jobs' = jobs
  BY DEF CallWorkerTool
<1>6. \A v, i, s, t : Failures(v, i, s, t)' \in SUBSET Failures(v, i, s, t)
  BY <1>5, SameJobsFailed DEF SameFailure
<1>7. Admitted(x)
  <2> SUFFICES ASSUME NEW t
               PROVE  Cardinality(Failures(w, Inputs(row, w), row.open, t)) < 2
    BY <1>2 DEF Admitted
  <2> DEFINE F == Failures(w, Inputs(row, w), row.open, t)
  <2>1. Cardinality(F) \in Nat
    <3>1. F \in SUBSET Jobs
      BY DEF Failures, Jobs
    <3> QED BY <3>1, SetsOfJobs
  <2>2. CASE t \in Workers \cup Errors
    <3>1. ~(Cardinality(F) >= 2)
      BY <1>1, <2>2 DEF Debounced, Failures
    <3> HIDE DEF F
    <3>2. Cardinality(F) < 2
      BY <2>1, <3>1
    <3> QED BY <3>2 DEF F
  <2>3. CASE t \notin Workers \cup Errors
    <3>1. F = {}
      BY <2>3 DEF Failures, SameCall, FailureType
    <3> QED BY <3>1, FS_EmptySet
  <2> QED BY <2>2, <2>3
<1>8. ASSUME NEW f \in Episodes, ep'[f].pc \in Running
      PROVE  Recorded(ep[f])'
  <2>1. f # e /\ ep'[f] = ep[f] /\ Recorded(ep[f])
    BY <1>2, <1>3, <1>8 DEF RetryInv, Running
  <2> QED BY <1>5, <2>1 DEF Recorded
<1>9. \A f \in Episodes : ep'[f].pc \in Early \cup Running =>
        \/ Admitted(ep'[f])
        \/ /\ ep[f].pc \in Early \cup Running /\ ep'[f].worker = ep[f].worker
           /\ ep'[f].inputs = ep[f].inputs /\ ep'[f].selected = ep[f].selected
  BY <1>3, <1>7
<1> QED BY <1>4, <1>6, <1>8, <1>9, NoFailureKeepsRetries

LEMMA CrashesKeepRetries ==
  ASSUME IInv, RetryInv, Crash
  PROVE  RetryInv'
<1>1. \A e \in Episodes : ep'[e].pc = "idle"
  BY DEF Crash, Idle
<1>2. \A k \in Jobs : SameFailure(k)
  <2>1. PICK orphaned : jobs' = [j \in Jobs |-> [jobs[j] EXCEPT !.files = @ \cup
                          {Head(ep[e].left) : e \in {e \in orphaned : ep[e].job = j}}]]
    BY DEF Crash
  <2> DEFINE extra(j) == {Head(ep[e].left) : e \in {e \in orphaned : ep[e].job = j}}
  <2>2. \A j \in Jobs : jobs'[j] = [jobs[j] EXCEPT !.files = @ \cup extra(j)]
    BY <2>1
  <2>3. \A j \in Jobs : jobs[j] \in JobRecords
    BY DEF IInv, Typed
  <2> HIDE DEF extra
  <2> QED BY <2>2, <2>3 DEF JobRecords, SameFailure
<1>3. \A w, i, s, t : Failures(w, i, s, t)' \in SUBSET Failures(w, i, s, t)
  BY <1>2, SameJobsFailed
<1>4. raced' = raced
  BY DEF Crash
<1> QED BY <1>1, <1>3, <1>4, NoFailureKeepsRetries DEF Early, Running

LEMMA StepsKeepRetries == IInv /\ SlotsInv /\ RetryInv /\ [Next]_vars => RetryInv'
<1> SUFFICES ASSUME IInv, SlotsInv, RetryInv, [Next]_vars
             PROVE  RetryInv'
  OBVIOUS
<1>1. ASSUME NEW e \in Episodes,
             \/ ReadForRecord(e) \/ WriteFails(e) \/ SubagentBusy(e) \/ WriteFile(e)
             \/ MockAnswers(e) \/ RequestFails(e) \/ SubagentAnswers(e) \/ ServerAnswers(e)
      PROVE  RetryInv'
  <2>1. PICK c \in Calls : c = ep[e]
    BY DEF IInv, Typed
  <2>2. raced' = raced
    BY <1>1 DEF ReadForRecord, WriteFails, SubagentBusy, WriteFile,
                MockAnswers, RequestFails, SubagentAnswers, ServerAnswers, CallsSubagent, Answer
  <2>3. \A k \in Jobs : SameFailure(k)
    <3>1. CASE WriteFile(e)
      <4>1. jobs' = [jobs EXCEPT ![ep[e].job].files = @ \cup {Head(ep[e].left)}]
        BY <3>1 DEF WriteFile
      <4>2. jobs \in [Jobs -> JobRecords]
        BY DEF IInv, Typed
      <4> QED BY <4>1, <4>2 DEF SameFailure, JobRecords
    <3>2. CASE ~WriteFile(e)
      <4>1. jobs' = jobs
        BY <1>1, <3>2 DEF ReadForRecord, WriteFails, SubagentBusy,
                MockAnswers, RequestFails, SubagentAnswers, ServerAnswers, CallsSubagent, Answer
      <4> QED BY <4>1 DEF SameFailure
    <3> QED BY <3>1, <3>2
  <2>4. PICK x : /\ ep' = [ep EXCEPT ![e] = x]
                 /\ \/ c.pc = "record" /\ x.pc = "start"
                    \/ c.pc \in Running /\ x.pc \in Running
                 /\ x.job = c.job /\ x.worker = c.worker
                 /\ x.inputs = c.inputs /\ x.selected = c.selected
    <3>1. CASE ReadForRecord(e)
      <4> DEFINE x == [c EXCEPT !.pc = "start", !.seen = row]
      <4>1. ep' = [ep EXCEPT ![e] = x] /\ c.pc = "record"
        BY <2>1, <3>1 DEF ReadForRecord
      <4>2. /\ x.pc = "start" /\ x.job = c.job /\ x.worker = c.worker
            /\ x.inputs = c.inputs /\ x.selected = c.selected
        BY <2>1 DEF Calls
      <4> QED BY <4>1, <4>2
    <3>2. CASE WriteFails(e)
      <4> DEFINE x == [c EXCEPT !.pc = "finish", !.verdict = "execution", !.left = <<>>]
      <4>1. ep' = [ep EXCEPT ![e] = x] /\ c.pc \in Running
        BY <2>1, <3>2 DEF WriteFails, Running
      <4>2. /\ x.pc \in Running /\ x.job = c.job /\ x.worker = c.worker
            /\ x.inputs = c.inputs /\ x.selected = c.selected
        BY <2>1 DEF Calls, Running
      <4> QED BY <4>1, <4>2
    <3>3. CASE SubagentBusy(e)
      <4> DEFINE x == [c EXCEPT !.tries = @ + 1]
      <4>1. ep' = [ep EXCEPT ![e] = x] /\ c.pc \in Running
        BY <2>1, <3>3 DEF SubagentBusy, CallsSubagent, Running
      <4>2. /\ x.pc = c.pc /\ x.job = c.job /\ x.worker = c.worker
            /\ x.inputs = c.inputs /\ x.selected = c.selected
        BY <2>1 DEF Calls
      <4> QED BY <4>1, <4>2
    <3>4. CASE WriteFile(e)
      <4> DEFINE x == [c EXCEPT !.left = Tail(@)]
      <4>1. ep' = [ep EXCEPT ![e] = x] /\ c.pc \in Running
        BY <2>1, <3>4 DEF WriteFile, Running
      <4>2. /\ x.pc = c.pc /\ x.job = c.job /\ x.worker = c.worker
            /\ x.inputs = c.inputs /\ x.selected = c.selected
        BY <2>1 DEF Calls
      <4> QED BY <4>1, <4>2
    <3>5. CASE MockAnswers(e) \/ RequestFails(e) \/ SubagentAnswers(e) \/ ServerAnswers(e)
      <4>1. c.pc = "call" /\ \E d : Keep(e, d)
        BY <2>1, <3>5 DEF MockAnswers, RequestFails, SubagentAnswers, ServerAnswers,
                          CallsSubagent, Answer
      <4>2. PICK d : Keep(e, d)
        BY <4>1
      <4> DEFINE x == IF d.outcome \in Errors
                      THEN [c EXCEPT !.pc = "finish", !.verdict = d.outcome]
                      ELSE IF Route[c.worker] # "mock" /\ ~Acceptable(c.worker, d)
                           THEN [c EXCEPT !.pc = "finish", !.verdict = "schema"]
                           ELSE [c EXCEPT !.pc = "write", !.verdict = d.outcome,
                                          !.left = d.writes]
      <4>3. ep' = [ep EXCEPT ![e] = x]
        BY <2>1, <4>2 DEF Keep
      <4>4. /\ x.pc \in Running /\ x.job = c.job /\ x.worker = c.worker
            /\ x.inputs = c.inputs /\ x.selected = c.selected
        BY <2>1 DEF Calls, Running
      <4> HIDE DEF x
      <4> QED BY <4>1, <4>3, <4>4 DEF Running
    <3> QED BY <1>1, <3>1, <3>2, <3>3, <3>4, <3>5
  <2>5. ep[e].pc \in Early \cup Running /\ (x.pc \in Running => ep[e].pc \in Running)
    BY <2>1, <2>4 DEF Early, Running
  <2> QED BY <2>1, <2>2, <2>3, <2>4, <2>5, MovesKeepRetries
<1>2. ASSUME NEW e \in Episodes,
             \/ ReadForProjection(e) \/ Retain(e) \/ HandlerRaises(e)
             \/ Project(e) \/ Decrement(e) \/ Restore(e)
      PROVE  RetryInv'
  <2>1. PICK c \in Calls : c = ep[e]
    BY DEF IInv, Typed
  <2>2. PICK x : ep' = [ep EXCEPT ![e] = x] /\ x.pc \notin Early \cup Running
    <3>1. CASE ReadForProjection(e) \/ Retain(e) \/ HandlerRaises(e)
      <4>1. PICK pc \in {"project", "decrement", "restore"} :
              ep' = [ep EXCEPT ![e] = [c EXCEPT !.pc = pc, !.seen = row]]
        BY <2>1, <3>1 DEF ReadForProjection, Retain, HandlerRaises
      <4> DEFINE x == [c EXCEPT !.pc = pc, !.seen = row]
      <4>2. x.pc \notin Early \cup Running
        BY <2>1 DEF Calls, Early, Running
      <4> QED BY <4>1, <4>2
    <3>2. CASE Project(e) \/ Decrement(e) \/ Restore(e)
      <4>1. ep' = [ep EXCEPT ![e] = Idle] /\ Idle.pc \notin Early \cup Running
        BY <3>2 DEF Project, Decrement, Restore, Idle, Early, Running
      <4> QED BY <4>1
    <3> QED BY <1>2, <3>1, <3>2
  <2>3. jobs' = jobs /\ (raced => raced')
    <3>1. CASE ReadForProjection(e) \/ Retain(e) \/ HandlerRaises(e)
      BY <3>1 DEF ReadForProjection, Retain, HandlerRaises
    <3>2. CASE Project(e) \/ Decrement(e) \/ Restore(e)
      BY <3>2 DEF Project, Decrement, Restore
    <3> QED BY <1>2, <3>1, <3>2
  <2>4. \A k \in Jobs : SameFailure(k)
    BY <2>3 DEF SameFailure
  <2> QED BY <2>2, <2>3, <2>4, MovesKeepRetries
<1>3. CASE Cancel \/ UserAnswers \/ UNCHANGED vars
  <2>1. UNCHANGED <<jobs, ep, raced>>
    BY <1>3 DEF Cancel, UserAnswers, vars
  <2>2. \A w, i, s, t : Failures(w, i, s, t)' \in SUBSET Failures(w, i, s, t)
    BY <2>1, SameJobsFailed DEF SameFailure
  <2>3. \A f \in Episodes : ep'[f].pc \in Running => Recorded(ep[f])'
    BY <2>1 DEF RetryInv, Recorded
  <2> QED BY <2>1, <2>2, <2>3, NoFailureKeepsRetries
<1> QED BY <1>1, <1>2, <1>3, StartsKeepRetries, FinishesKeepRetries, CallsKeepRetries,
           CrashesKeepRetries DEF Next, EpisodeStep

(* Slots are exact and no call is made a third time that failed twice, of    *)
(* one induction: both are about runs in which nothing raced.                *)
LEMMA SlotsAndRetries == Spec => [](SlotsInv /\ RetryInv)
<1>1. Init => SlotsInv /\ RetryInv
  <2> SUFFICES ASSUME Init
               PROVE  SlotsInv /\ RetryInv
    OBVIOUS
  <2>1. \A e \in Episodes : ep[e].pc = "idle" /\ ~Holding(e)
    BY DEF Init, Idle, Holding
  <2>2. InCall = {} /\ leaked = {} /\ row.active = {} /\ row.parallel = 0
    BY <2>1 DEF InCall, Init, NewRow
  <2>3. SlotsInv
    BY <2>1, <2>2, FS_EmptySet DEF SlotsInv, Apart, Alone, Counted, Settled
  <2>4. \A j \in Jobs : FailureType(j) = {}
    BY DEF Init, NoRecord, FailureType, Errors
  <2>5. \A w, i, s, t : Failures(w, i, s, t) = {}
    BY <2>4 DEF Failures
  <2> QED BY <2>1, <2>3, <2>5, FS_EmptySet DEF RetryInv, Early, Running
<1> QED BY <1>1, StepsKeepSlots, StepsKeepRetries, Invariance, PTL DEF Spec

(* While nothing raced, the counter of parallel workers and the references  *)
(* to them are the calls in progress and those that crashes cut off         *)
(* (_record_active_worker, _decrement_active_worker_counter,                *)
(* _restore_active_worker, cancel_task).                                    *)
THEOREM SlotsTruth == Spec => []SlotsAreExact
<1>1. SlotsInv => SlotsAreExact
  BY DEF SlotsInv, Counted, InCall, SlotsAreExact
<1> QED BY <1>1, SlotsAndRetries, PTL

(* While no two episodes ran beside each other, a call that failed twice in  *)
(* the same way is not made a third time (_debounced_worker_retry_result).   *)
THEOREM RetriesStop == Spec => []RetriesAreBounded
<1>1. RetryInv => RetriesAreBounded
  <2> SUFFICES ASSUME RetryInv, ~raced, NEW j \in Jobs, NEW t
               PROVE  Cardinality({k \in Jobs :
                        /\ SameCall(k, jobs[j].worker, jobs[j].inputs, jobs[j].selected)
                        /\ t \in FailureType(k)}) <= 2
    BY DEF RetriesAreBounded
  <2>1. Cardinality(Failures(jobs[j].worker, jobs[j].inputs, jobs[j].selected, t)) <= 2
    BY DEF RetryInv
  <2> QED BY <2>1 DEF Failures
<1> QED BY <1>1, SlotsAndRetries, PTL
=============================================================================
