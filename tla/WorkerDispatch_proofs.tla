------------------------ MODULE WorkerDispatch_proofs ------------------------
(***************************************************************************)
(* Proofs about WorkerDispatch for any number of episodes and jobs, every  *)
(* route, limit, stream and reply: types, the evidence behind the row's    *)
(* pointers, late results, and that the module implements JobLedger.  The  *)
(* invariant says for each episode how far the job of its call has come,   *)
(* and of the row and every copy of it that they name ended jobs only.     *)
(***************************************************************************)
EXTENDS WorkerDispatch, TLAPS

AllInputs == (Artifacts \cup {"raw_user_request"}) \X (0..(MaxJobs + 1))
Terminal == {"completed", "timeout", "error"}
JobRecords ==
  [worker : Workers \cup {"none"}, inputs : SUBSET AllInputs, selected : SUBSET Jobs,
   status : {"none", "running"} \cup Terminal, verdict : Verdicts \cup {"none"},
   files : SUBSET Artifacts]
Events == Artifacts \cup {"started"} \cup Terminal
Phases == {"idle", "record", "start", "call", "write", "finish", "read", "project",
           "decrement", "restore"}
Calls ==
  [pc : Phases, job : 0..MaxJobs, worker : Workers \cup {"none"}, inputs : SUBSET AllInputs,
   selected : SUBSET Jobs, seen : Rows, before : Rows, verdict : Verdicts \cup {"none"},
   left : Seq(Artifacts), tries : Nat]

Typed ==
  /\ row \in Rows
  /\ jobs \in [Jobs -> JobRecords]
  /\ log \in [Jobs -> Seq(Events)]
  /\ code \in CodeSizes \cup {0}
  /\ ep \in [Episodes -> Calls]
  /\ issued \in 0..MaxJobs /\ faults \in 0..MaxFaults /\ raced \in BOOLEAN
  /\ leaked \subseteq Jobs

(* How far a job has come. *)
Unborn(j) == log[j] = <<>> /\ jobs[j].status = "none"
Runs(j) == log[j] # <<>> /\ Last(log[j]) \notin Terminal /\ jobs[j].status = "running"
Over(j) == log[j] # <<>> /\ Last(log[j]) \in Terminal /\ jobs[j].verdict \in Verdicts

Early == {"record", "start"}
Running == {"call", "write", "finish"}
Late == {"read", "project", "decrement", "restore"}

(* The job of a call is as far as the call. *)
InStep(x) ==
  /\ x.pc # "idle" => x.job \in 1..issued /\ x.worker \in Workers
  /\ x.pc \in Early => Unborn(x.job)
  /\ x.pc \in Running => Runs(x.job)
  /\ x.pc \in Late => Over(x.job)
  /\ x.pc \in {"write", "finish"} => x.verdict \in Verdicts

Ordered ==
  /\ \A e \in Episodes : InStep(ep[e])
  /\ \A e, f \in Episodes : e # f /\ ep[e].pc # "idle" /\ ep[f].pc # "idle"
                              => ep[e].job # ep[f].job
  /\ \A j \in Jobs : j > issued => Unborn(j)

(* A pointer names a file of a completed job. *)
Backs(a, j) == j # NoJob => a \in jobs[j].files /\ jobs[j].status = "completed"
Backed(r) ==
  /\ Backs("requirements", r.requirements)
  /\ Backs("test_report", r.test) /\ Backs("failing_trace", r.trace)
  /\ Backs("formal_report", r.formal) /\ Backs("counterexample", r.counterexample)
  /\ r.code => code > 0
Known(r) == Backed(r) /\ \A j \in r.completed : Over(j)
Sourced ==
  /\ Known(row)
  /\ \A e \in Episodes : Known(ep[e].seen)
  /\ \A j \in Jobs : "plc_code" \in jobs[j].files => code > 0

(* The result of a call in progress is not in any row yet. *)
Without(r) == \A e \in Episodes : ep[e].pc # "idle" => ep[e].job \notin r.completed
Uncounted == Without(row) /\ \A f \in Episodes : Without(ep[f].seen)

IInv == Typed /\ Ordered /\ Sourced /\ Uncounted

LEMMA Limits ==
  /\ MaxJobs \in Nat /\ MaxFaults \in Nat
  /\ CodeSizes \subseteq Nat \ {0}
BY DispatchAssumption

LEMMA NewRowIsARow ==
  NewRow \in Rows /\ Idle \in Calls /\ NoRecord \in JobRecords
BY Limits DEF NewRow, Rows, NoJob, Idle, Calls, Phases, NoRecord, JobRecords, Jobs
-----------------------------------------------------------------------------
(* What workers answer. *)

Drafts == [outcome : Verdicts, writes : Seq(Artifacts), asks : BOOLEAN]

LEMMA DraftTypes ==
  ASSUME NEW writes \in Seq(Artifacts), NEW outcome \in Verdicts
  PROVE  /\ Draft(outcome, writes) \in Drafts
         /\ Passing(writes) \in Drafts
         /\ Failing(writes) \in Drafts
         /\ [Draft(outcome, writes) EXCEPT !.asks = TRUE] \in Drafts
BY DEF Draft, Passing, Failing, Drafts, Verdicts

LEMMA RaisedTypes ==
  ASSUME NEW class \in Errors
  PROVE  Raised(class) \in Drafts
BY DEF Raised, Drafts, Verdicts

LEMMA MockTypes ==
  ASSUME NEW w \in Workers, NEW scenario, NEW version
  PROVE  Mock(w, scenario, version) \in Drafts
<1>1. /\ <<>> \in Seq(Artifacts)
      /\ <<"requirements", "plc_code", "io_contract">> \in Seq(Artifacts)
      /\ <<"test_report">> \in Seq(Artifacts)
      /\ <<"test_report", "failing_trace">> \in Seq(Artifacts)
      /\ <<"formal_report">> \in Seq(Artifacts)
      /\ <<"formal_report", "counterexample">> \in Seq(Artifacts)
      /\ <<"patch", "plc_code", "repair_summary">> \in Seq(Artifacts)
  BY DEF Artifacts
<1>2. "need_clarification" \in Verdicts /\ "timeout" \in Errors
  BY DEF Verdicts, Errors
<1>3. MockDev \in Drafts /\ MockTestPassed \in Drafts /\ MockTestFailed \in Drafts
  BY <1>1, <1>2, DraftTypes DEF MockDev, MockTestPassed, MockTestFailed
<1>4. MockFormalPassed \in Drafts /\ MockFormalFailed \in Drafts /\ MockRepair \in Drafts
  BY <1>1, <1>2, DraftTypes DEF MockFormalPassed, MockFormalFailed, MockRepair
<1>5. MockClarification \in Drafts /\ Raised("timeout") \in Drafts
  BY <1>1, <1>2, DraftTypes, RaisedTypes DEF MockClarification
<1>6. MockTest(scenario, version) \in Drafts /\ MockFormal(scenario, version) \in Drafts
  BY <1>3, <1>4 DEF MockTest, MockFormal
<1> QED BY <1>3, <1>4, <1>5, <1>6 DEF Mock, Workers

LEMMA StreamTypes ==
  ASSUME NEW w \in Workers, NEW events
  PROVE  DraftFrom(w, events) \in Drafts
<1>1. /\ <<"requirements", "plc_code", "io_contract">> \in Seq(Artifacts)
      /\ <<"worker_log">> \in Seq(Artifacts)
      /\ <<"test_report">> \in Seq(Artifacts)
      /\ <<"formal_report">> \in Seq(Artifacts)
      /\ <<"formal_report", "counterexample">> \in Seq(Artifacts)
      /\ <<"repair_summary", "patch", "plc_code">> \in Seq(Artifacts)
      /\ <<"repair_summary">> \in Seq(Artifacts)
  BY DEF Artifacts
<1>2. "passed" \in Verdicts /\ "failed" \in Verdicts /\ {"schema", "execution"} \subseteq Errors
  BY DEF Verdicts, Errors
<1>3. \A report : TestStatus(report) \in {"passed", "failed"}
  BY DEF TestStatus
<1>4. \A report : FormalStatus(report) \in {"passed", "failed"}
  BY DEF FormalStatus
<1>5. DevDraft(events) \in Drafts
  BY <1>1, <1>2, DraftTypes DEF DevDraft, FallbackDraft
<1>6. TestDraft(events) \in Drafts
  BY <1>1, <1>2, <1>3, DraftTypes DEF TestDraft, FallbackDraft
<1>7. FormalDraft(events) \in Drafts
  <2> DEFINE status == FormalStatus(ReportOf(events))
             writes == IF FirstEvent(events, "report").counterexample
                       THEN <<"formal_report", "counterexample">> ELSE <<"formal_report">>
  <2>1. status \in Verdicts /\ writes \in Seq(Artifacts)
    BY <1>1, <1>2, <1>4
  <2>2. FormalDraft(events) = IF ~Occurs(events, "report") THEN Failing(<<"formal_report">>)
                              ELSE Draft(status, writes)
    BY DEF FormalDraft, FallbackDraft
  <2> HIDE DEF status, writes
  <2> QED BY <1>1, <2>1, <2>2, DraftTypes
<1>8. RepairDraft(events) \in Drafts
  BY <1>1, <1>2, DraftTypes DEF RepairDraft, FallbackDraft
<1>9. EventsDraft(w, events) \in Drafts
  BY <1>5, <1>6, <1>7, <1>8 DEF EventsDraft, Workers
<1> QED BY <1>2, <1>9, RaisedTypes DEF DraftFrom

LEMMA ReplyTypes ==
  ASSUME NEW w \in Workers, NEW reply \in Replies
  PROVE  LlmDraft(w, reply) \in Drafts
<1> DEFINE n == Normalized(reply)
<1>1. /\ reply.outcome \in Verdicts
      /\ reply.writes \in Seq({"type", "artifact_type"} \X Artifacts)
      /\ reply.asks \in BOOLEAN
  BY DispatchAssumption DEF Verdicts
<1>2. n.outcome = reply.outcome /\ n.asks = reply.asks
      /\ n.writes = [i \in DOMAIN reply.writes |->
                       IF reply.writes[i][1] = "type"
                       THEN <<"artifact_type", reply.writes[i][2]>> ELSE reply.writes[i]]
  BY DispatchAssumption DEF Normalized
<1>3. [i \in DOMAIN n.writes |-> n.writes[i][2]] \in Seq(Artifacts)
  <2>1. \A i \in 1..Len(reply.writes) :
          reply.writes[i] \in {"type", "artifact_type"} \X Artifacts
    BY <1>1
  <2>2. DOMAIN n.writes = 1..Len(reply.writes) /\ Len(reply.writes) \in Nat
    BY <1>1, <1>2
  <2>3. \A i \in 1..Len(reply.writes) : n.writes[i][2] \in Artifacts
    BY <1>1, <1>2, <2>1
  <2> HIDE DEF n
  <2> QED BY <2>2, <2>3
<1>4. ParsedDraft(n) \in Drafts
  <2> HIDE DEF n
  <2> QED BY <1>1, <1>2, <1>3 DEF ParsedDraft, Draft, Drafts
<1>5. LlmFallback(w) \in Drafts
  <2>1. /\ <<"requirements", "plc_code", "io_contract">> \in Seq(Artifacts)
        /\ <<"test_report">> \in Seq(Artifacts)
        /\ <<"formal_report">> \in Seq(Artifacts)
        /\ <<"patch", "plc_code", "repair_summary">> \in Seq(Artifacts)
    BY DEF Artifacts
  <2> QED BY <2>1, DraftTypes DEF LlmFallback, Workers, Verdicts
<1> QED BY <1>4, <1>5 DEF LlmDraft
-----------------------------------------------------------------------------
(* Steps that move one call and nothing else: its job is as far as the call
   is afterwards, and what it remembers of the row it has just read.        *)
LEMMA CallMoves ==
  ASSUME IInv, NEW e \in Episodes, NEW x \in Calls,
         ep[e].pc # "idle", x.pc # "idle", x.job = ep[e].job, InStep(x),
         x.seen \in {ep[e].seen, row},
         ep' = [ep EXCEPT ![e] = x],
         UNCHANGED <<row, jobs, log, code, issued, raced, leaked>>,
         faults' \in 0..MaxFaults
  PROVE  IInv'
<1> USE DEF IInv
<1>1. \A f \in Episodes : ep'[f] = IF f = e THEN x ELSE ep[f]
  BY DEF Typed
<1>2. Typed'
  BY <1>1 DEF Typed
<1>3. Ordered'
  <2>1. \A f \in Episodes : InStep(ep[f])'
    BY <1>1 DEF Ordered, InStep, Unborn, Runs, Over
  <2>2. \A f, g \in Episodes : (f # g /\ ep[f].pc # "idle" /\ ep[g].pc # "idle"
                                 => ep[f].job # ep[g].job)'
    BY <1>1 DEF Ordered
  <2>3. \A j \in Jobs : j > issued' => Unborn(j)'
    BY DEF Ordered, Unborn
  <2> QED BY <2>1, <2>2, <2>3 DEF Ordered
<1>4. Sourced'
  <2>1. \A r : Known(r) => Known(r)'
    BY DEF Known, Backed, Backs, Over
  <2>2. \A f \in Episodes : Known(ep[f].seen)'
    <3>1. \A f \in Episodes : Known(ep'[f].seen)
      BY <1>1 DEF Sourced
    <3> QED BY <3>1 DEF Known, Backed, Backs, Over
  <2> QED BY <2>1, <2>2 DEF Sourced
<1>5. Uncounted'
  BY <1>1 DEF Uncounted, Without
<1> QED BY <1>2, <1>3, <1>4, <1>5

(* Steps that end a call and write the row. *)
LEMMA RowWrites ==
  ASSUME IInv, NEW e \in Episodes, ep[e].pc # "idle",
         row' \in Rows, Known(row'),
         \A f \in Episodes : f # e /\ ep[f].pc # "idle" => ep[f].job \notin row'.completed,
         ep' = [ep EXCEPT ![e] = Idle],
         UNCHANGED <<jobs, log, code, issued, faults, leaked>>, raced' \in BOOLEAN
  PROVE  IInv'
<1> USE DEF IInv
<1>1. \A f \in Episodes : ep'[f] = IF f = e THEN Idle ELSE ep[f]
  BY DEF Typed
<1>2. Typed'
  BY <1>1, NewRowIsARow DEF Typed
<1>3. Idle.pc = "idle" /\ Idle.seen = NewRow
  BY DEF Idle
<1>4. Ordered'
  <2>1. \A f \in Episodes : InStep(ep[f])'
    BY <1>1, <1>3 DEF Ordered, InStep, Unborn, Runs, Over, Early, Running, Late
  <2>2. \A f, g \in Episodes : (f # g /\ ep[f].pc # "idle" /\ ep[g].pc # "idle"
                                 => ep[f].job # ep[g].job)'
    BY <1>1, <1>3 DEF Ordered
  <2>3. \A j \in Jobs : j > issued' => Unborn(j)'
    BY DEF Ordered, Unborn
  <2> QED BY <2>1, <2>2, <2>3 DEF Ordered
<1>5. Known(NewRow) /\ Without(NewRow)
  BY DEF Known, Backed, Backs, NewRow, Without, NoJob
<1>6. Sourced'
  <2>1. \A r : Known(r) => Known(r)'
    BY DEF Known, Backed, Backs, Over
  <2>2. \A f \in Episodes : Known(ep[f].seen)'
    <3>1. \A f \in Episodes : ep'[f].seen \in {ep[f].seen, NewRow}
      BY <1>1, <1>3
    <3>2. \A f \in Episodes : Known(ep'[f].seen)
      BY <1>5, <3>1 DEF Sourced
    <3> QED BY <3>2 DEF Known, Backed, Backs, Over
  <2> QED BY <2>1, <2>2 DEF Sourced
<1>7. Uncounted'
  <2>1. \A r : Without(r) => Without(r)'
    BY <1>1, <1>3 DEF Without
  <2>2. Without(row)'
    BY <1>1, <1>3 DEF Without
  <2>3. \A f \in Episodes : Without(ep[f].seen)'
    <3>1. \A f \in Episodes : ep'[f].seen \in {ep[f].seen, NewRow}
      BY <1>1, <1>3
    <3>2. \A f \in Episodes : Without(ep'[f].seen)
      BY <1>5, <3>1 DEF Uncounted
    <3> QED BY <1>1, <1>3, <3>2 DEF Without
  <2> QED BY <2>1, <2>2, <2>3 DEF Uncounted
<1> QED BY <1>2, <1>4, <1>6, <1>7

LEMMA Answers ==
  ASSUME IInv, NEW e \in Episodes, NEW d \in Drafts, ep[e].pc = "call", Answer(e, d)
  PROVE  IInv'
<1> DEFINE c == ep[e]
           x == IF d.outcome \in Errors THEN [c EXCEPT !.pc = "finish", !.verdict = d.outcome]
                ELSE IF Route[c.worker] # "mock" /\ ~Acceptable(c.worker, d)
                     THEN [c EXCEPT !.pc = "finish", !.verdict = "schema"]
                     ELSE [c EXCEPT !.pc = "write", !.verdict = d.outcome, !.left = d.writes]
<1>1. c \in Calls /\ InStep(c) /\ c.pc = "call"
  BY DEF IInv, Typed, Ordered
<1>2. d.outcome \in Verdicts /\ d.writes \in Seq(Artifacts) /\ "schema" \in Verdicts
  BY DEF Drafts, Verdicts, Errors
<1>3. ep' = [ep EXCEPT ![e] = x]
  BY DEF Answer, Keep
<1>4. x \in Calls /\ x.pc \in {"write", "finish"} /\ x.verdict \in Verdicts
      /\ x.job = c.job /\ x.worker = c.worker /\ x.seen = c.seen
  BY <1>1, <1>2 DEF Calls, Phases
<1> HIDE DEF c, x
<1>5. InStep(x)
  BY <1>1, <1>4 DEF InStep, Early, Running, Late
<1>6. UNCHANGED <<row, jobs, log, code, issued, raced, leaked>> /\ faults' \in 0..MaxFaults
  BY DEF Answer, IInv, Typed
<1> QED BY <1>1, <1>3, <1>4, <1>5, <1>6, CallMoves DEF c

(* What a call reads, retries, fails or waits for. *)
LEMMA Waits ==
  ASSUME IInv, NEW e \in Episodes,
         \/ ReadForRecord(e) \/ SubagentBusy(e) \/ WriteFails(e)
         \/ ReadForProjection(e) \/ Retain(e) \/ HandlerRaises(e)
  PROVE  IInv'
<1> DEFINE c == ep[e]
<1>1. c \in Calls /\ InStep(c) /\ row \in Rows /\ faults \in 0..MaxFaults /\ MaxFaults \in Nat
  BY Limits DEF IInv, Typed, Ordered
<1>2. ASSUME NEW x \in Calls, c.pc # "idle", x.pc # "idle", x.job = c.job, x.worker = c.worker,
             \/ c.pc \in Early /\ x.pc \in Early
             \/ c.pc = "call" /\ x.pc = "call"
             \/ c.pc \in Running /\ x.pc \in Running /\ x.verdict \in Verdicts
             \/ c.pc \in Late /\ x.pc \in Late,
             x.seen \in {c.seen, row}, ep' = [ep EXCEPT ![e] = x],
             UNCHANGED <<row, jobs, log, code, issued, raced, leaked>>, faults' \in 0..MaxFaults
      PROVE  IInv'
  <2>1. InStep(x)
    BY <1>1, <1>2 DEF InStep, Early, Running, Late
  <2> QED BY <1>2, <2>1, CallMoves
<1>3. CASE ReadForRecord(e)
  <2> DEFINE x == [c EXCEPT !.pc = "start", !.seen = row]
  <2>1. x \in Calls /\ c.pc \in Early /\ x.pc \in Early /\ x.job = c.job
        /\ x.worker = c.worker /\ x.seen = row /\ c.pc # "idle" /\ x.pc # "idle"
    BY <1>1, <1>3 DEF ReadForRecord, Calls, Phases, Early
  <2>2. ep' = [ep EXCEPT ![e] = x]
    BY <1>3 DEF ReadForRecord
  <2> QED BY <1>1, <1>2, <1>3, <2>1, <2>2 DEF ReadForRecord
<1>4. CASE SubagentBusy(e)
  <2> DEFINE x == [c EXCEPT !.tries = @ + 1]
  <2>1. x \in Calls /\ c.pc = "call" /\ x.pc = "call" /\ x.job = c.job
        /\ x.worker = c.worker /\ x.seen = c.seen
    BY <1>1, <1>4 DEF SubagentBusy, CallsSubagent, Calls
  <2>2. ep' = [ep EXCEPT ![e] = x]
    BY <1>4 DEF SubagentBusy
  <2> QED BY <1>1, <1>2, <1>4, <2>1, <2>2 DEF SubagentBusy
<1>5. CASE WriteFails(e)
  <2> DEFINE x == [c EXCEPT !.pc = "finish", !.verdict = "execution", !.left = <<>>]
  <2>1. x \in Calls
    <3>1. "execution" \in Verdicts /\ <<>> \in Seq(Artifacts) /\ "finish" \in Phases
      BY DEF Verdicts, Errors, Phases
    <3> QED BY <1>1, <3>1 DEF Calls
  <2>4. /\ c.pc \in Running /\ x.pc \in Running /\ x.job = c.job /\ x.worker = c.worker
        /\ x.seen = c.seen /\ x.verdict \in Verdicts /\ c.pc # "idle" /\ x.pc # "idle"
    BY <1>1, <1>5 DEF WriteFails, Calls, Running, Verdicts, Errors
  <2>2. ep' = [ep EXCEPT ![e] = x]
    BY <1>5 DEF WriteFails
  <2>3. faults' \in 0..MaxFaults
    BY <1>1, <1>5 DEF WriteFails
  <2> QED BY <1>1, <1>2, <1>5, <2>1, <2>2, <2>3, <2>4 DEF WriteFails
<1>6. CASE ReadForProjection(e)
  <2> DEFINE x == [c EXCEPT !.pc = "project", !.seen = row]
  <2>1. x \in Calls /\ c.pc \in Late /\ x.pc \in Late /\ x.job = c.job
        /\ x.worker = c.worker /\ x.seen = row /\ c.pc # "idle" /\ x.pc # "idle"
    BY <1>1, <1>6 DEF ReadForProjection, Calls, Phases, Late
  <2>2. ep' = [ep EXCEPT ![e] = x]
    BY <1>6 DEF ReadForProjection
  <2> QED BY <1>1, <1>2, <1>6, <2>1, <2>2 DEF ReadForProjection
<1>7. CASE Retain(e)
  <2> DEFINE x == [c EXCEPT !.pc = "decrement", !.seen = row]
  <2>1. x \in Calls /\ c.pc \in Late /\ x.pc \in Late /\ x.job = c.job
        /\ x.worker = c.worker /\ x.seen = row /\ c.pc # "idle" /\ x.pc # "idle"
    BY <1>1, <1>7 DEF Retain, Calls, Phases, Late
  <2>2. ep' = [ep EXCEPT ![e] = x]
    BY <1>7 DEF Retain
  <2> QED BY <1>1, <1>2, <1>7, <2>1, <2>2 DEF Retain
<1>8. CASE HandlerRaises(e)
  <2> DEFINE x == [c EXCEPT !.pc = "restore", !.seen = row]
  <2>1. x \in Calls /\ c.pc \in Late /\ x.pc \in Late /\ x.job = c.job
        /\ x.worker = c.worker /\ x.seen = row /\ c.pc # "idle" /\ x.pc # "idle"
    BY <1>1, <1>8 DEF HandlerRaises, Calls, Phases, Late
  <2>2. ep' = [ep EXCEPT ![e] = x]
    BY <1>8 DEF HandlerRaises
  <2>3. faults' \in 0..MaxFaults
    BY <1>1, <1>8 DEF HandlerRaises
  <2> QED BY <1>1, <1>2, <1>8, <2>1, <2>2, <2>3 DEF HandlerRaises
<1> QED BY <1>3, <1>4, <1>5, <1>6, <1>7, <1>8
-----------------------------------------------------------------------------
(* A result in a row: what its files back stays backed. *)
LEMMA PointedIsBacked ==
  ASSUME IInv, NEW r \in Rows, Known(r), NEW j \in Jobs, jobs[j].status = "completed"
  PROVE  /\ Pointed(r, j, jobs[j].files) \in Rows
         /\ Known(Pointed(r, j, jobs[j].files))
         /\ Pointed(r, j, jobs[j].files).completed = r.completed
         /\ Pointed(r, j, jobs[j].files).status = r.status
<1> DEFINE p == Pointed(r, j, jobs[j].files)
           At(artifact, old) == IF artifact \in jobs[j].files THEN j ELSE old
<1>1. MaxJobs \in Nat /\ j \in 0..MaxJobs /\ ("plc_code" \in jobs[j].files => code > 0)
  BY Limits DEF Jobs, IInv, Sourced
<1>2. /\ p.status = r.status /\ p.open = r.open /\ p.active = r.active
      /\ p.parallel = r.parallel /\ p.used = r.used /\ p.rounds = r.rounds
      /\ p.completed = r.completed
      /\ p.code = (r.code \/ "plc_code" \in jobs[j].files)
      /\ p.requirements = At("requirements", r.requirements)
      /\ p.test = At("test_report", r.test) /\ p.trace = At("failing_trace", r.trace)
      /\ p.formal = At("formal_report", r.formal)
      /\ p.counterexample = At("counterexample", r.counterexample)
  BY DEF Pointed, Rows
<1>3. p \in Rows
  BY <1>1 DEF Pointed, Rows
<1>4. \A a, old : Backs(a, old) => Backs(a, At(a, old))
  BY DEF Backs
<1>5. Known(p)
  <2> HIDE DEF p, At
  <2> QED BY <1>1, <1>2, <1>4 DEF Known, Backed
<1> QED BY <1>2, <1>3, <1>5

LEMMA AppliedIsKnown ==
  ASSUME IInv, NEW r \in Rows, Known(r), NEW j \in Jobs, Over(j)
  PROVE  /\ Applied(r, j) \in Rows
         /\ Known(Applied(r, j))
         /\ Applied(r, j).completed = r.completed \cup {j}
<1> DEFINE w == jobs[j].worker
           v == jobs[j].verdict
           filed == IF jobs[j].status = "completed" THEN Pointed(r, j, jobs[j].files) ELSE r
           ofKind == {k \in r.open : jobs[k].worker = w}
           status == IF v = "need_clarification" THEN "waiting_user" ELSE filed.status
           open == IF w \in {"test", "formal"} /\ v = "failed" THEN filed.open \cup {j}
                   ELSE IF w \in {"test", "formal"} /\ v = "passed" THEN filed.open \ ofKind
                   ELSE IF w = "repair" /\ v = "passed" THEN filed.open \ jobs[j].selected
                   ELSE filed.open
           rounds == IF w = "repair" /\ v = "passed" THEN filed.rounds + 1 ELSE filed.rounds
           y == [filed EXCEPT !.status = status, !.open = open, !.rounds = rounds,
                   !.active = @ \ {j}, !.completed = @ \cup {j}, !.parallel = Less(@)]
<1>1. filed \in Rows /\ Known(filed) /\ filed.completed = r.completed
  BY PointedIsBacked
<1>2. Applied(r, j) = y
  BY DEF Applied
<1> HIDE DEF filed
<1>3. status \in {"running", "waiting_user", "cancelled"} /\ open \in SUBSET Jobs
      /\ rounds \in Nat /\ Less(filed.parallel) \in Nat
  BY <1>1 DEF Rows, Less
<1> HIDE DEF status, open, rounds
<1>4. y \in Rows
  BY <1>1, <1>3 DEF Rows
<1>5. /\ y.requirements = filed.requirements /\ y.test = filed.test /\ y.trace = filed.trace
      /\ y.formal = filed.formal /\ y.counterexample = filed.counterexample
      /\ y.code = filed.code /\ y.completed = filed.completed \cup {j}
  BY <1>1 DEF Rows
<1> HIDE DEF y
<1>6. Known(y)
  BY <1>1, <1>5 DEF Known, Backed
<1> QED BY <1>1, <1>2, <1>4, <1>5, <1>6

(* The steps that write a result, or give a slot back, and end the call. *)
LEMMA Returns ==
  ASSUME IInv, NEW e \in Episodes, Project(e) \/ Decrement(e) \/ Restore(e)
  PROVE  IInv'
<1> DEFINE seen == ep[e].seen
           before == ep[e].before
           j == ep[e].job
<1>1. /\ seen \in Rows /\ Known(seen) /\ before \in Rows
      /\ ep[e].pc \in {"project", "decrement", "restore"}
  BY DEF IInv, Typed, Sourced, Calls, Project, Decrement, Restore
<1>2. j \in Jobs /\ Over(j)
  BY <1>1, Limits DEF IInv, Typed, Ordered, InStep, Late, Jobs
<1>3. \A f \in Episodes : ep[f].pc # "idle" => ep[f].job \notin seen.completed
  BY DEF IInv, Uncounted, Without
<1>4. ep' = [ep EXCEPT ![e] = Idle] /\ UNCHANGED <<jobs, log, code, issued, faults, leaked>>
      /\ raced' \in BOOLEAN
  BY DEF Project, Decrement, Restore, IInv, Typed
<1>5. CASE Project(e)
  <2>1. row' = Applied(seen, j)
    BY <1>5 DEF Project
  <2>2. row' \in Rows /\ Known(row') /\ row'.completed = seen.completed \cup {j}
    BY <1>1, <1>2, <2>1, AppliedIsKnown
  <2>3. \A f \in Episodes : f # e /\ ep[f].pc # "idle" => ep[f].job \notin row'.completed
    BY <1>1, <1>3, <2>2 DEF IInv, Ordered
  <2> QED BY <1>1, <1>4, <2>2, <2>3, RowWrites
<1>6. CASE Decrement(e)
  <2>1. row' = [seen EXCEPT !.parallel = Less(@)]
    BY <1>6 DEF Decrement
  <2>2. row' \in Rows /\ Known(row') /\ row'.completed = seen.completed
    BY <1>1, <2>1 DEF Rows, Less, Known, Backed
  <2> QED BY <1>1, <1>3, <1>4, <2>2, RowWrites
<1>7. CASE Restore(e)
  <2>1. row' = [seen EXCEPT !.active = before.active \ {j},
                           !.parallel = before.parallel, !.used = before.used]
    BY <1>7 DEF Restore
  <2>2. row' \in Rows /\ row'.completed = seen.completed
    BY <1>1, <2>1 DEF Rows
  <2>3. Known(row')
    BY <1>1, <2>1 DEF Rows, Known, Backed
  <2> QED BY <1>1, <1>3, <1>4, <2>2, <2>3, RowWrites
<1> QED BY <1>5, <1>6, <1>7
-----------------------------------------------------------------------------
(* Steps that move a job: nothing in any row refers to a job that has not ended. *)
LEMMA JobMoves ==
  ASSUME IInv, NEW e \in Episodes, NEW x \in Calls, NEW j \in Jobs,
         ep[e].pc # "idle", x.pc # "idle", j = ep[e].job, x.job = j,
         x.seen \in {ep[e].seen, NewRow}, ep' = [ep EXCEPT ![e] = x],
         ~Over(j), jobs[j].status # "completed",
         jobs' \in [Jobs -> JobRecords], log' \in [Jobs -> Seq(Events)],
         \A k \in Jobs \ {j} : jobs'[k] = jobs[k] /\ log'[k] = log[k],
         InStep(x)', j <= issued,
         code' \in CodeSizes \cup {0}, code > 0 => code' > 0,
         "plc_code" \in jobs'[j].files => code' > 0,
         row' \in Rows, Known(row'), Without(row'),
         UNCHANGED <<issued, faults, leaked>>, raced' \in BOOLEAN
  PROVE  IInv'
<1> USE DEF IInv
<1>1. \A f \in Episodes : ep'[f] = IF f = e THEN x ELSE ep[f]
  BY DEF Typed
<1>2. Typed'
  BY <1>1 DEF Typed
<1>3. Ordered'
  <2>1. \A f \in Episodes : InStep(ep[f])'
    <3> SUFFICES ASSUME NEW f \in Episodes
                 PROVE  InStep(ep[f])'
      OBVIOUS
    <3>1. CASE f = e
      BY <1>1, <3>1
    <3>2. CASE f # e
      <4>1. ep'[f] = ep[f] /\ InStep(ep[f])
        BY <1>1, <3>2 DEF Ordered
      <4>2. ep[f].pc # "idle" => ep[f].job \in Jobs \ {j}
        BY <3>2, <4>1, Limits DEF Ordered, InStep, Typed, Jobs
      <4> QED BY <4>1, <4>2 DEF InStep, Unborn, Runs, Over, Early, Running, Late
    <3> QED BY <3>1, <3>2
  <2>2. \A f, g \in Episodes : (f # g /\ ep[f].pc # "idle" /\ ep[g].pc # "idle"
                                 => ep[f].job # ep[g].job)'
    BY <1>1 DEF Ordered
  <2>3. ASSUME NEW k \in Jobs, k > issued'
        PROVE  Unborn(k)'
    <3>1. k # j
      BY <2>3 DEF Typed, Jobs
    <3> QED BY <2>3, <3>1 DEF Ordered, Unborn
  <2> QED BY <2>1, <2>2, <2>3 DEF Ordered
<1>4. Known(NewRow) /\ NewRow \in Rows /\ Without(NewRow)
  BY NewRowIsARow DEF Known, Backed, Backs, NewRow, Without, NoJob
<1>5. \A r \in Rows : Known(r) => /\ Backed(r)'
                                  /\ \A k \in r.completed : Over(k)'
  <2>1. ASSUME NEW k \in 0..MaxJobs, NEW a, Backs(a, k)
        PROVE  Backs(a, k)'
    <3>1. CASE k = NoJob
      BY <3>1 DEF Backs
    <3>2. CASE k # NoJob
      <4>1. k \in Jobs \ {j}
        BY <2>1, <3>2, Limits DEF Backs, NoJob, Jobs
      <4> QED BY <2>1, <4>1 DEF Backs
    <3> QED BY <3>1, <3>2
  <2>2. ASSUME NEW r \in Rows, Known(r)
        PROVE  Backed(r)'
    <3>1. /\ r.requirements \in 0..MaxJobs /\ r.test \in 0..MaxJobs /\ r.trace \in 0..MaxJobs
          /\ r.formal \in 0..MaxJobs /\ r.counterexample \in 0..MaxJobs
      BY DEF Rows
    <3> QED BY <2>1, <2>2, <3>1 DEF Known, Backed
  <2>3. ASSUME NEW r \in Rows, Known(r), NEW k \in r.completed
        PROVE  Over(k)'
    BY <2>3 DEF Known, Over, Rows
  <2> QED BY <2>2, <2>3
<1>6. Sourced'
  <2>1. \A f \in Episodes : ep'[f].seen \in Rows /\ Known(ep'[f].seen)
    BY <1>1, <1>4 DEF Sourced, Typed, Calls
  <2>2. \A f \in Episodes : Known(ep[f].seen)'
    BY <1>5, <2>1 DEF Known, Backed, Backs
  <2>3. Known(row)'
    BY <1>5 DEF Known, Backed, Backs
  <2>4. \A k \in Jobs : "plc_code" \in jobs'[k].files => code' > 0
    BY DEF Sourced
  <2> QED BY <2>2, <2>3, <2>4 DEF Sourced
<1>7. Uncounted'
  <2>1. \A f \in Episodes : Without(ep'[f].seen)
    BY <1>1, <1>4 DEF Uncounted
  <2> QED BY <1>1, <2>1 DEF Uncounted, Without
<1> QED BY <1>2, <1>3, <1>6, <1>7

LEMMA AppendLast ==
  ASSUME NEW s \in Seq(Events), NEW a \in Events
  PROVE  Append(s, a) \in Seq(Events) /\ Append(s, a) # <<>> /\ Last(Append(s, a)) = a
BY DEF Last

LEMMA Starts ==
  ASSUME IInv, NEW e \in Episodes, StartJob(e)
  PROVE  IInv'
<1>1. PICK c \in Calls : c = ep[e]
  BY DEF IInv, Typed
<1>2. PICK seen \in Rows : seen = c.seen
  BY DEF Calls
<1>3. c.pc = "start" /\ Known(seen) /\ Without(seen)
  BY <1>1, <1>2 DEF StartJob, IInv, Sourced, Uncounted
<1>4. PICK j \in Jobs : j = c.job /\ j <= issued /\ Unborn(j) /\ c.worker \in Workers
  BY <1>1, <1>3, Limits DEF IInv, Typed, Ordered, InStep, Early, Jobs
<1>5. ~Over(j) /\ jobs[j].status # "completed" /\ log[j] \in Seq(Events) /\ "started" \in Events
  BY <1>4 DEF Unborn, Over, IInv, Typed, Events
<1>6. PICK record \in JobRecords :
        /\ record = [NoRecord EXCEPT !.worker = c.worker, !.inputs = c.inputs,
                                     !.selected = c.selected, !.status = "running"]
        /\ record.files = {} /\ record.status = "running"
  <2> DEFINE started == [NoRecord EXCEPT !.worker = c.worker, !.inputs = c.inputs,
                                       !.selected = c.selected, !.status = "running"]
  <2>1. started \in JobRecords /\ started.files = {} /\ started.status = "running"
    BY <1>1, NewRowIsARow DEF NoRecord, JobRecords, Calls
  <2> QED BY <2>1
<1>7. PICK x \in Calls :
        /\ x = [c EXCEPT !.pc = "call", !.before = seen, !.seen = NewRow]
        /\ x.pc = "call" /\ x.job = j /\ x.worker = c.worker /\ x.seen = NewRow
  <2> DEFINE called == [c EXCEPT !.pc = "call", !.before = seen, !.seen = NewRow]
  <2>1. called \in Calls
    BY <1>1, <1>2, NewRowIsARow DEF Calls, Phases
  <2>2. called.pc = "call" /\ called.job = j /\ called.worker = c.worker /\ called.seen = NewRow
    BY <1>4 DEF Calls
  <2> QED BY <2>1, <2>2
<1>8. jobs' = [jobs EXCEPT ![j] = record] /\ ep' = [ep EXCEPT ![e] = x]
      /\ log' = [log EXCEPT ![j] = Append(log[j], "started")]
  BY <1>1, <1>2, <1>4, <1>6, <1>7 DEF StartJob
<1>9. jobs' \in [Jobs -> JobRecords] /\ log' \in [Jobs -> Seq(Events)]
      /\ \A k \in Jobs \ {j} : jobs'[k] = jobs[k] /\ log'[k] = log[k]
  BY <1>5, <1>8, AppendLast DEF IInv, Typed
<1>10. jobs'[j] = record /\ log'[j] = Append(log[j], "started")
  BY <1>8 DEF IInv, Typed
<1>11. UNCHANGED <<code, issued, faults, leaked>> /\ raced' \in BOOLEAN
  BY DEF StartJob, IInv, Typed
<1>12. InStep(x)'
  <2>1. Runs(j)'
    BY <1>5, <1>6, <1>10, AppendLast DEF Runs, Terminal
  <2>2. x.job \in 1..issued'
    BY <1>4, <1>7, <1>11, Limits DEF Jobs, IInv, Typed
  <2> QED BY <1>4, <1>7, <2>1, <2>2 DEF InStep, Early, Running, Late
<1>13. row' = [seen EXCEPT !.active = @ \cup {j}, !.parallel = @ + 1, !.used = @ + 1]
  BY <1>1, <1>2, <1>4 DEF StartJob
<1>14. row' \in Rows
  <2>1. /\ seen.active \cup {j} \in SUBSET Jobs
        /\ seen.parallel + 1 \in Nat /\ seen.used + 1 \in Nat
    BY <1>2, <1>4 DEF Rows
  <2> DEFINE active == seen.active \cup {j}
             parallel == seen.parallel + 1
             used == seen.used + 1
  <2>2. row' = [seen EXCEPT !.active = active, !.parallel = parallel, !.used = used]
    BY <1>13
  <2> HIDE DEF active, parallel, used
  <2>3. active \in SUBSET Jobs /\ parallel \in Nat /\ used \in Nat
    BY <2>1 DEF active, parallel, used
  <2> QED BY <1>2, <2>2, <2>3 DEF Rows
<1>15. Known(row') /\ Without(row')
  BY <1>2, <1>3, <1>4, <1>13 DEF Rows, Known, Backed, Without
<1>16. code \in CodeSizes \cup {0}
  BY DEF IInv, Typed
<1> QED BY <1>1, <1>2, <1>3, <1>4, <1>5, <1>6, <1>7, <1>8, <1>9, <1>10, <1>11, <1>12, <1>14,
           <1>15, <1>16, JobMoves

(* What a running call knows of its job. *)
LEMMA RunningJob ==
  ASSUME IInv, NEW e \in Episodes, ep[e].pc \in Running
  PROVE  /\ ep[e].job \in Jobs /\ ep[e].job <= issued /\ ep[e].job \in 1..issued
         /\ Runs(ep[e].job) /\ ~Over(ep[e].job) /\ jobs[ep[e].job].status # "completed"
         /\ log[ep[e].job] \in Seq(Events) /\ jobs[ep[e].job] \in JobRecords
         /\ ep[e].worker \in Workers
<1>1. ep[e].job \in 1..issued /\ Runs(ep[e].job) /\ ep[e].worker \in Workers
  BY DEF IInv, Ordered, InStep, Running
<1>2. ep[e].job \in Jobs /\ ep[e].job <= issued
  BY <1>1, Limits DEF IInv, Typed, Jobs
<1> QED BY <1>1, <1>2 DEF Runs, Over, IInv, Typed

LEMMA Writes ==
  ASSUME IInv, NEW e \in Episodes, WriteFile(e)
  PROVE  IInv'
<1>1. PICK c \in Calls : c = ep[e]
  BY DEF IInv, Typed
<1>2. c.pc = "write" /\ c.left # <<>> /\ c.left \in Seq(Artifacts)
      /\ c.verdict \in Verdicts /\ c.worker \in Workers
  BY <1>1 DEF WriteFile, Calls, IInv, Ordered, InStep
<1>3. PICK j \in Jobs : j = c.job
  BY <1>1, <1>2, RunningJob DEF Running
<1>4. /\ j <= issued /\ j \in 1..issued /\ Runs(j) /\ ~Over(j) /\ jobs[j].status # "completed"
      /\ log[j] \in Seq(Events) /\ jobs[j] \in JobRecords
  BY <1>1, <1>2, <1>3, RunningJob DEF Running
<1>5. PICK a \in Artifacts : a = Head(c.left)
  BY <1>2
<1>6. a \in Events /\ a \notin Terminal
  BY <1>5 DEF Events, Artifacts, Terminal
<1>7. PICK record \in JobRecords :
        record = [jobs[j] EXCEPT !.files = @ \cup {a}] /\ record.status = jobs[j].status
        /\ record.files = jobs[j].files \cup {a}
  <2> DEFINE written == [jobs[j] EXCEPT !.files = @ \cup {a}]
  <2>1. written \in JobRecords /\ written.status = jobs[j].status
        /\ written.files = jobs[j].files \cup {a}
    BY <1>4, <1>5 DEF JobRecords
  <2> QED BY <2>1
<1>8. PICK x \in Calls :
        /\ x = [c EXCEPT !.left = Tail(@)]
        /\ x.pc = c.pc /\ x.job = c.job /\ x.worker = c.worker
        /\ x.seen = c.seen /\ x.verdict = c.verdict
  <2> DEFINE shorter == [c EXCEPT !.left = Tail(@)]
  <2>1. Tail(c.left) \in Seq(Artifacts)
    BY <1>2
  <2>2. shorter \in Calls /\ shorter.pc = c.pc /\ shorter.job = c.job
        /\ shorter.worker = c.worker /\ shorter.seen = c.seen /\ shorter.verdict = c.verdict
    BY <1>1, <2>1 DEF Calls
  <2> QED BY <2>2
<1>9. jobs' = [jobs EXCEPT ![j] = record] /\ ep' = [ep EXCEPT ![e] = x]
      /\ log' = [log EXCEPT ![j] = Append(log[j], a)]
  <2>1. jobs' = [jobs EXCEPT ![j].files = @ \cup {a}]
        /\ log' = [log EXCEPT ![j] = Append(@, a)]
        /\ ep' = [ep EXCEPT ![e].left = Tail(@)]
    BY <1>1, <1>3, <1>5 DEF WriteFile
  <2> QED BY <1>1, <1>7, <1>8, <2>1
<1>10. jobs' \in [Jobs -> JobRecords] /\ log' \in [Jobs -> Seq(Events)]
       /\ \A k \in Jobs \ {j} : jobs'[k] = jobs[k] /\ log'[k] = log[k]
  BY <1>4, <1>6, <1>7, <1>9, AppendLast DEF IInv, Typed
<1>11. jobs'[j] = record /\ log'[j] = Append(log[j], a)
  BY <1>3, <1>9 DEF IInv, Typed
<1>12. UNCHANGED <<row, issued, faults, leaked, raced>>
  BY DEF WriteFile
<1>13. InStep(x)'
  <2>1. Runs(j)'
    BY <1>4, <1>6, <1>7, <1>11, AppendLast DEF Runs
  <2> QED BY <1>2, <1>3, <1>4, <1>8, <1>12, <2>1 DEF InStep, Early, Running, Late
<1>14. /\ code' \in CodeSizes \cup {0} /\ (code > 0 => code' > 0)
       /\ ("plc_code" \in jobs'[j].files => code' > 0)
  <2>1. code \in CodeSizes \cup {0} /\ ("plc_code" \in jobs[j].files => code > 0)
        /\ CodeSizes \subseteq Nat \ {0}
    BY <1>3, Limits DEF IInv, Typed, Sourced
  <2>2. IF a = "plc_code" THEN code' \in CodeSizes ELSE code' = code
    BY <1>1, <1>5 DEF WriteFile
  <2> QED BY <1>7, <1>11, <2>1, <2>2
<1>15. row' \in Rows /\ Known(row') /\ Without(row') /\ raced' \in BOOLEAN
  BY <1>12 DEF IInv, Typed, Sourced, Uncounted
<1> QED BY <1>1, <1>2, <1>3, <1>4, <1>8, <1>9, <1>10, <1>12, <1>13, <1>14, <1>15, JobMoves

LEMMA Finishes ==
  ASSUME IInv, NEW e \in Episodes, Finish(e)
  PROVE  IInv'
<1>1. PICK c \in Calls : c = ep[e]
  BY DEF IInv, Typed
<1>2. c.pc \in {"write", "finish"} /\ c.verdict \in Verdicts /\ c.worker \in Workers
  BY <1>1 DEF Finish, IInv, Ordered, InStep
<1>3. PICK j \in Jobs : j = c.job
  BY <1>1, <1>2, RunningJob DEF Running
<1>4. /\ j <= issued /\ j \in 1..issued /\ Runs(j) /\ ~Over(j) /\ jobs[j].status # "completed"
      /\ log[j] \in Seq(Events) /\ jobs[j] \in JobRecords
  BY <1>1, <1>2, <1>3, RunningJob DEF Running
<1>5. PICK end \in Terminal : end = JobStatus(c.verdict)
  <2>1. JobStatus(c.verdict) \in Terminal
    BY DEF JobStatus, Terminal
  <2> QED BY <2>1
<1>6. end \in Events
  BY <1>5 DEF Events
<1>7. PICK record \in JobRecords :
        /\ record = [jobs[j] EXCEPT !.status = end, !.verdict = c.verdict]
        /\ record.verdict = c.verdict /\ record.files = jobs[j].files
  <2> DEFINE ended == [jobs[j] EXCEPT !.status = end, !.verdict = c.verdict]
  <2>1. ended \in JobRecords /\ ended.verdict = c.verdict /\ ended.files = jobs[j].files
    BY <1>2, <1>4, <1>5 DEF JobRecords
  <2> QED BY <2>1
<1>8. PICK x \in Calls :
        /\ x = [c EXCEPT !.pc = "read"]
        /\ x.pc = "read" /\ x.job = c.job /\ x.worker = c.worker /\ x.seen = c.seen
  <2> DEFINE answered == [c EXCEPT !.pc = "read"]
  <2>1. answered \in Calls /\ answered.pc = "read" /\ answered.job = c.job
        /\ answered.worker = c.worker /\ answered.seen = c.seen
    BY <1>1 DEF Calls, Phases
  <2> QED BY <2>1
<1>9. jobs' = [jobs EXCEPT ![j] = record] /\ ep' = [ep EXCEPT ![e] = x]
      /\ log' = [log EXCEPT ![j] = Append(log[j], end)]
  <2>1. jobs' = [jobs EXCEPT ![j].status = end, ![j].verdict = c.verdict]
        /\ log' = [log EXCEPT ![j] = Append(@, end)]
        /\ ep' = [ep EXCEPT ![e].pc = "read"]
    BY <1>1, <1>3, <1>5 DEF Finish
  <2> QED BY <1>1, <1>7, <1>8, <2>1 DEF IInv, Typed
<1>10. jobs' \in [Jobs -> JobRecords] /\ log' \in [Jobs -> Seq(Events)]
       /\ \A k \in Jobs \ {j} : jobs'[k] = jobs[k] /\ log'[k] = log[k]
  BY <1>4, <1>6, <1>7, <1>9, AppendLast DEF IInv, Typed
<1>11. jobs'[j] = record /\ log'[j] = Append(log[j], end)
  BY <1>3, <1>9 DEF IInv, Typed
<1>12. UNCHANGED <<row, code, issued, faults, leaked, raced>>
  BY DEF Finish
<1>13. InStep(x)'
  <2>1. Over(j)'
    BY <1>2, <1>4, <1>5, <1>6, <1>7, <1>11, AppendLast DEF Over
  <2> QED BY <1>2, <1>3, <1>4, <1>8, <1>12, <2>1 DEF InStep, Early, Running, Late
<1>14. /\ code' \in CodeSizes \cup {0} /\ (code > 0 => code' > 0)
       /\ ("plc_code" \in jobs'[j].files => code' > 0)
  BY <1>3, <1>7, <1>11, <1>12 DEF IInv, Typed, Sourced
<1>15. row' \in Rows /\ Known(row') /\ Without(row') /\ raced' \in BOOLEAN
  BY <1>12 DEF IInv, Typed, Sourced, Uncounted
<1> QED BY <1>1, <1>2, <1>3, <1>4, <1>8, <1>9, <1>10, <1>12, <1>13, <1>14, <1>15, JobMoves
-----------------------------------------------------------------------------
(* The start of a call, the user and the process. *)
LEMMA InputsAreTyped ==
  ASSUME NEW r \in Rows, NEW w \in Workers
  PROVE  Inputs(r, w) \in SUBSET AllInputs
<1>1. MaxJobs \in Nat /\ MaxJobs + 1 \in 0..(MaxJobs + 1)
      /\ \A n \in 0..MaxJobs : n \in 0..(MaxJobs + 1)
  BY Limits
<1>2. r.test \in 0..MaxJobs /\ r.trace \in 0..MaxJobs /\ r.formal \in 0..MaxJobs
      /\ r.counterexample \in 0..MaxJobs /\ r.requirements \in 0..MaxJobs
  BY DEF Rows
<1>3. Evidence(r) \subseteq AllInputs
  BY <1>1, <1>2 DEF Evidence, AllInputs, Artifacts
<1>4. <<"raw_user_request", MaxJobs + 1>> \in AllInputs
      /\ <<"requirements", r.requirements>> \in AllInputs
  BY <1>1, <1>2 DEF AllInputs, Artifacts
<1> QED BY <1>3, <1>4 DEF Inputs, Workers

LEMMA CallBegins ==
  ASSUME IInv, NEW e \in Episodes, CallWorkerTool(e)
  PROVE  IInv'
<1>1. PICK w \in Workers :
        ep' = [ep EXCEPT ![e] = [Idle EXCEPT !.pc = "record", !.job = issued + 1,
                                  !.worker = w, !.inputs = Inputs(row, w), !.selected = row.open]]
  BY DEF CallWorkerTool
<1>2. /\ issued' = issued + 1 /\ issued \in Nat /\ issued < MaxJobs /\ MaxJobs \in Nat
      /\ UNCHANGED <<row, jobs, log, code, faults, leaked>>
  BY Limits DEF CallWorkerTool, IInv, Typed
<1>3. raced' \in BOOLEAN
  BY DEF CallWorkerTool, IInv, Typed
<1>4. PICK j \in Jobs : j = issued + 1
  BY <1>2 DEF Jobs
<1>5. j \in 0..MaxJobs /\ issued' \in 0..MaxJobs /\ j > issued /\ j \in 1..issued'
  BY <1>2, <1>4 DEF Jobs
<1>6. PICK x \in Calls :
        /\ x = [Idle EXCEPT !.pc = "record", !.job = j, !.worker = w,
                            !.inputs = Inputs(row, w), !.selected = row.open]
        /\ x.pc = "record" /\ x.job = j /\ x.worker = w /\ x.seen = NewRow
  <2> DEFINE new == [Idle EXCEPT !.pc = "record", !.job = j, !.worker = w,
                            !.inputs = Inputs(row, w), !.selected = row.open]
  <2>1. Inputs(row, w) \in SUBSET AllInputs /\ row.open \in SUBSET Jobs
    BY <1>1, InputsAreTyped DEF IInv, Typed, Rows
  <2>2. new \in Calls
    BY <1>1, <1>5, <2>1, NewRowIsARow DEF Calls, Phases
  <2>3. new.pc = "record" /\ new.job = j /\ new.worker = w /\ new.seen = NewRow
    BY DEF Idle
  <2> QED BY <2>2, <2>3
<1>7. ep' = [ep EXCEPT ![e] = x]
  BY <1>1, <1>4, <1>6
<1>8. \A f \in Episodes : ep'[f] = IF f = e THEN x ELSE ep[f]
  BY <1>7 DEF IInv, Typed
<1>9. Unborn(j) /\ ~Over(j)
  BY <1>5 DEF IInv, Ordered, Unborn, Over
<1>10. \A f \in Episodes \ {e} : ep[f].pc # "idle" => ep[f].job # j
  BY <1>2, <1>4 DEF IInv, Ordered, InStep
<1>11. Typed'
  BY <1>2, <1>3, <1>5, <1>7 DEF IInv, Typed
<1>12. Ordered'
  <2>1. \A f \in Episodes : InStep(ep[f])'
    <3> SUFFICES ASSUME NEW f \in Episodes
                 PROVE  InStep(ep[f])'
      OBVIOUS
    <3>1. CASE f = e
      <4>1. Unborn(j)'
        BY <1>2, <1>9 DEF Unborn
      <4>2. ep'[f].pc = "record" /\ ep'[f].job = j /\ ep'[f].worker \in Workers
        BY <1>1, <1>6, <1>8, <3>1
      <4> QED BY <1>5, <4>1, <4>2 DEF InStep, Early, Running, Late
    <3>2. CASE f # e
      <4>1. ep'[f] = ep[f] /\ InStep(ep[f])
        BY <1>8, <3>2 DEF IInv, Ordered
      <4>2. \A n \in 1..issued : n \in 1..issued'
        BY <1>2
      <4> QED BY <1>2, <4>1, <4>2 DEF InStep, Unborn, Runs, Over
    <3> QED BY <3>1, <3>2
  <2>2. \A f, g \in Episodes : (f # g /\ ep[f].pc # "idle" /\ ep[g].pc # "idle"
                                 => ep[f].job # ep[g].job)'
    <3> SUFFICES ASSUME NEW f \in Episodes, NEW g \in Episodes, f # g,
                        ep'[f].pc # "idle", ep'[g].pc # "idle"
                 PROVE  ep'[f].job # ep'[g].job
      OBVIOUS
    <3>1. CASE f = e
      <4>1. ep'[f].job = j /\ g \in Episodes \ {e} /\ ep'[g] = ep[g]
        BY <1>6, <1>8, <3>1
      <4> QED BY <1>10, <4>1
    <3>2. CASE g = e
      <4>1. ep'[g].job = j /\ f \in Episodes \ {e} /\ ep'[f] = ep[f]
        BY <1>6, <1>8, <3>2
      <4> QED BY <1>10, <4>1
    <3>3. CASE f # e /\ g # e
      BY <1>8, <3>3 DEF IInv, Ordered
    <3> QED BY <3>1, <3>2, <3>3
  <2>3. \A k \in Jobs : k > issued' => k > issued
    BY <1>2 DEF Jobs
  <2>4. \A k \in Jobs : (k > issued => Unborn(k))'
    BY <1>2, <2>3 DEF IInv, Ordered, Unborn
  <2> QED BY <2>1, <2>2, <2>4 DEF Ordered
<1>13. Known(NewRow) /\ NewRow.completed = {}
  BY DEF Known, Backed, Backs, NewRow, NoJob
<1>14. Sourced'
  <2>1. \A f \in Episodes : Known(ep'[f].seen)
    BY <1>6, <1>8, <1>13 DEF IInv, Sourced
  <2>2. \A f \in Episodes : Known(ep[f].seen)'
    BY <1>2, <2>1 DEF Known, Backed, Backs, Over
  <2>3. Known(row)'
    BY <1>2 DEF IInv, Sourced, Known, Backed, Backs, Over
  <2> QED BY <1>2, <2>2, <2>3 DEF IInv, Sourced
<1>15. Uncounted'
  <2>1. ASSUME NEW r \in Rows, Known(r), Without(r)
        PROVE  Without(r)'
    <3>1. j \notin r.completed
      BY <1>9, <2>1 DEF Known
    <3>2. ASSUME NEW f \in Episodes, ep'[f].pc # "idle"
          PROVE  ep'[f].job \notin r.completed
      <4>1. CASE f = e
        <5>1. ep'[f].job = j
          BY <1>6, <1>8, <4>1
        <5> QED BY <3>1, <5>1
      <4>2. CASE f # e
        BY <1>8, <2>1, <3>2, <4>2 DEF Without
      <4> QED BY <4>1, <4>2
    <3> QED BY <3>2 DEF Without
  <2>2. row' = row /\ Without(row)'
    BY <1>2, <2>1 DEF IInv, Typed, Sourced, Uncounted, Without
  <2>3. \A f \in Episodes : /\ ep'[f].seen \in Rows /\ Known(ep'[f].seen)
                            /\ Without(ep'[f].seen)
    BY <1>6, <1>8, <1>13, NewRowIsARow DEF IInv, Typed, Calls, Sourced, Uncounted, Without
  <2>4. \A f \in Episodes : Without(ep[f].seen)'
    BY <2>1, <2>3 DEF Without
  <2> QED BY <2>2, <2>4 DEF Uncounted
<1> QED BY <1>11, <1>12, <1>14, <1>15 DEF IInv

LEMMA UserActs ==
  ASSUME IInv, Cancel \/ UserAnswers
  PROVE  IInv'
<1>1. row \in Rows /\ Known(row) /\ Without(row)
  BY DEF IInv, Typed, Sourced, Uncounted
<1>2. UNCHANGED <<jobs, log, code, ep, issued, faults, raced, leaked>>
  BY DEF Cancel, UserAnswers
<1>3. row' \in Rows
  <2>1. CASE Cancel
    BY <1>1, <2>1 DEF Cancel, Rows
  <2>2. CASE UserAnswers
    BY <1>1, <2>2 DEF UserAnswers, Rows
  <2> QED BY <2>1, <2>2
<1>4. Known(row') /\ Without(row')
  BY <1>1 DEF Cancel, UserAnswers, Rows, Known, Backed, Without
<1>5. Typed' /\ Ordered'
  BY <1>2, <1>3 DEF IInv, Typed, Ordered, InStep, Unborn, Runs, Over
<1>6. Sourced' /\ Uncounted'
  BY <1>2, <1>4 DEF IInv, Sourced, Known, Backed, Backs, Over, Uncounted, Without
<1> QED BY <1>5, <1>6 DEF IInv

LEMMA Crashes ==
  ASSUME IInv, Crash
  PROVE  IInv'
<1>1. PICK orphaned \in SUBSET {e \in Episodes : ep[e].pc = "write" /\ ep[e].left # <<>>} :
        /\ jobs' = [j \in Jobs |-> [jobs[j] EXCEPT !.files = @ \cup
                      {Head(ep[e].left) : e \in {e \in orphaned : ep[e].job = j}}]]
        /\ IF \E e \in orphaned : Head(ep[e].left) = "plc_code"
           THEN code' \in CodeSizes ELSE code' = code
  BY DEF Crash
<1> DEFINE extra(j) == {Head(ep[e].left) : e \in {e \in orphaned : ep[e].job = j}}
<1>2. ep' = [e \in Episodes |-> Idle] /\ UNCHANGED <<row, log, issued, raced>>
  BY DEF Crash
<1>3. faults' \in 0..MaxFaults
  BY Limits DEF Crash, IInv, Typed
<1>4. leaked' \subseteq Jobs
  <2>1. \A e \in Episodes : Holding(e) => ep[e].job \in Jobs
    <3> SUFFICES ASSUME NEW e \in Episodes, Holding(e)
                 PROVE  ep[e].job \in Jobs
      OBVIOUS
    <3>1. ep[e].job \in 1..issued
      BY DEF Holding, IInv, Ordered, InStep
    <3> QED BY <3>1, Limits DEF IInv, Typed, Jobs
  <2>2. leaked' = leaked \cup {ep[e].job : e \in {e \in Episodes : Holding(e)}}
    BY DEF Crash
  <2> QED BY <2>1, <2>2 DEF IInv, Typed
<1>5. \A j \in Jobs : extra(j) \subseteq Artifacts
  BY DEF IInv, Typed, Calls
<1>6. \A j \in Jobs : /\ jobs'[j] \in JobRecords /\ jobs'[j].status = jobs[j].status
                       /\ jobs'[j].verdict = jobs[j].verdict
                       /\ jobs'[j].files = jobs[j].files \cup extra(j)
  <2> SUFFICES ASSUME NEW j \in Jobs
               PROVE  /\ jobs'[j] \in JobRecords /\ jobs'[j].status = jobs[j].status
                      /\ jobs'[j].verdict = jobs[j].verdict
                      /\ jobs'[j].files = jobs[j].files \cup extra(j)
    OBVIOUS
  <2>1. jobs'[j] = [jobs[j] EXCEPT !.files = @ \cup extra(j)]
    BY <1>1
  <2>2. jobs[j] \in JobRecords /\ extra(j) \subseteq Artifacts
    BY <1>5 DEF IInv, Typed
  <2> HIDE DEF extra
  <2> QED BY <2>1, <2>2 DEF JobRecords
<1>7. jobs' \in [Jobs -> JobRecords]
  BY <1>1, <1>6
<1>8. /\ code' \in CodeSizes \cup {0} /\ (code > 0 => code' > 0)
      /\ \A j \in Jobs : "plc_code" \in jobs'[j].files => code' > 0
  <2>1. \A j \in Jobs : "plc_code" \in extra(j) =>
                            \E e \in orphaned : Head(ep[e].left) = "plc_code"
    OBVIOUS
  <2> HIDE DEF extra
  <2>2. code \in CodeSizes \cup {0} /\ CodeSizes \subseteq Nat \ {0}
        /\ \A j \in Jobs : "plc_code" \in jobs[j].files => code > 0
    BY Limits DEF IInv, Typed, Sourced
  <2> QED BY <1>1, <1>6, <2>1, <2>2
<1> HIDE DEF extra
<1>9. Idle \in Calls /\ Idle.pc = "idle" /\ Idle.seen = NewRow /\ NewRow \in Rows
  BY NewRowIsARow DEF Idle
<1>10. \A e \in Episodes : ep'[e] = Idle
  BY <1>2
<1>11. Typed'
  BY <1>2, <1>3, <1>4, <1>7, <1>8, <1>9 DEF IInv, Typed
<1>12. Ordered'
  <2>1. \A j \in Jobs : j > issued' => Unborn(j)'
    BY <1>2, <1>6 DEF IInv, Ordered, Unborn
  <2>2. \A e \in Episodes : InStep(ep[e])'
    BY <1>9, <1>10 DEF InStep, Early, Running, Late
  <2> QED BY <1>9, <1>10, <2>1, <2>2 DEF Ordered
<1>13. \A r \in Rows : Known(r) => Known(r)'
  <2>1. ASSUME NEW k \in 0..MaxJobs, NEW a, Backs(a, k)
        PROVE  Backs(a, k)'
    <3>1. CASE k = NoJob
      BY <3>1 DEF Backs
    <3>2. CASE k # NoJob
      <4>1. k \in Jobs
        BY <3>2, Limits DEF NoJob, Jobs
      <4> QED BY <1>6, <2>1, <4>1 DEF Backs
    <3> QED BY <3>1, <3>2
  <2>2. ASSUME NEW r \in Rows, Known(r)
        PROVE  Backed(r)'
    <3>1. /\ r.requirements \in 0..MaxJobs /\ r.test \in 0..MaxJobs /\ r.trace \in 0..MaxJobs
          /\ r.formal \in 0..MaxJobs /\ r.counterexample \in 0..MaxJobs
      BY DEF Rows
    <3> QED BY <1>8, <2>1, <2>2, <3>1 DEF Known, Backed
  <2>3. ASSUME NEW r \in Rows, Known(r), NEW k \in r.completed
        PROVE  Over(k)'
    <3>1. k \in Jobs /\ Over(k)
      BY <2>3 DEF Known, Rows
    <3> QED BY <1>2, <1>6, <3>1 DEF Over
  <2> QED BY <2>2, <2>3 DEF Known
<1>14. Known(NewRow) /\ NewRow.completed = {}
  BY DEF Known, Backed, Backs, NewRow, NoJob
<1>15. Sourced'
  <2>1. Known(NewRow)' /\ \A e \in Episodes : ep'[e].seen = NewRow
    BY <1>9, <1>10, <1>13, <1>14
  <2>2. \A e \in Episodes : Known(ep[e].seen)'
    BY <2>1
  <2>3. Known(row)'
    BY <1>2, <1>13 DEF IInv, Typed, Sourced, Known, Backed, Backs, Over
  <2> QED BY <1>8, <2>2, <2>3 DEF Sourced
<1>16. Uncounted'
  BY <1>9, <1>10 DEF Uncounted, Without
<1> QED BY <1>11, <1>12, <1>15, <1>16 DEF IInv

(* The initial states satisfy the invariant. *)
THEOREM Initial == Init => IInv
<1> SUFFICES ASSUME Init
             PROVE  IInv
  OBVIOUS
<1>1. \A e \in Episodes : ep[e] = Idle
  BY DEF Init
<1>2. Idle.pc = "idle" /\ Idle.seen = NewRow /\ NewRow.completed = {} /\ Known(NewRow)
  BY DEF Idle, Known, Backed, Backs, NewRow, NoJob
<1>3. Typed
  <2>1. jobs \in [Jobs -> JobRecords] /\ ep \in [Episodes -> Calls] /\ row \in Rows
    BY NewRowIsARow DEF Init
  <2>2. log \in [Jobs -> Seq(Events)]
    BY DEF Init
  <2>3. code \in CodeSizes \cup {0} /\ leaked \subseteq Jobs /\ raced \in BOOLEAN
    BY DEF Init
  <2>4. issued \in 0..MaxJobs /\ faults \in 0..MaxFaults
    BY Limits DEF Init
  <2> QED BY <2>1, <2>2, <2>3, <2>4 DEF Typed
<1>4. Ordered
  <2>1. \A j \in Jobs : Unborn(j)
    BY DEF Init, Unborn, NoRecord
  <2> QED BY <1>1, <1>2, <2>1 DEF Ordered, InStep, Early, Running, Late
<1>5. Sourced
  BY <1>1, <1>2 DEF Init, Sourced, NoRecord
<1>6. Uncounted
  BY <1>1, <1>2 DEF Init, Uncounted, Without
<1> QED BY <1>3, <1>4, <1>5, <1>6 DEF IInv

(* Every step keeps the invariant. *)
THEOREM Inductive == IInv /\ [Next]_vars => IInv'
<1> SUFFICES ASSUME IInv, [Next]_vars
             PROVE  IInv'
  OBVIOUS
<1>1. ASSUME NEW e \in Episodes, CallWorkerTool(e)
      PROVE  IInv'
  BY <1>1, CallBegins
<1>2. ASSUME NEW e \in Episodes, EpisodeStep(e)
      PROVE  IInv'
  <2>1. CASE \/ ReadForRecord(e) \/ SubagentBusy(e) \/ WriteFails(e)
             \/ ReadForProjection(e) \/ Retain(e) \/ HandlerRaises(e)
    BY <2>1, Waits
  <2>2. CASE StartJob(e)
    BY <2>2, Starts
  <2>3. CASE MockAnswers(e)
    <3>1. ep[e].pc = "call" /\ ep[e].worker \in Workers
      BY <2>3, RunningJob DEF MockAnswers, Running
    <3>2. Mock(ep[e].worker, Scenario, PathVersion({})) \in Drafts
      BY <3>1, MockTypes
    <3> QED BY <2>3, <3>1, <3>2, Answers DEF MockAnswers
  <2>4. CASE RequestFails(e)
    <3>1. Raised("schema") \in Drafts
      BY RaisedTypes DEF Errors
    <3> QED BY <2>4, <3>1, Answers DEF RequestFails, CallsSubagent
  <2>5. CASE SubagentAnswers(e)
    <3>1. ep[e].pc = "call" /\ ep[e].worker \in Workers
      BY <2>5, RunningJob DEF SubagentAnswers, CallsSubagent, Running
    <3>2. \A class \in Outages \ ServerFaults : class \in Errors
      BY DispatchAssumption DEF Errors
    <3>3. \E d \in Drafts : Answer(e, d)
      BY <2>5, <3>1, <3>2, StreamTypes, RaisedTypes DEF SubagentAnswers
    <3> QED BY <3>1, <3>3, Answers
  <2>6. CASE ServerAnswers(e)
    <3>1. ep[e].pc = "call" /\ ep[e].worker \in Workers
      BY <2>6, RunningJob DEF ServerAnswers, Running
    <3>2. \A fault \in ServerFaults : FaultClass(fault) \in Errors
      BY DEF ServerFaults, FaultClass, Errors
    <3>3. \E d \in Drafts : Answer(e, d)
      BY <2>6, <3>1, <3>2, ReplyTypes, RaisedTypes DEF ServerAnswers
    <3> QED BY <3>1, <3>3, Answers
  <2>7. CASE WriteFile(e)
    BY <2>7, Writes
  <2>8. CASE Finish(e)
    BY <2>8, Finishes
  <2>9. CASE Project(e) \/ Decrement(e) \/ Restore(e)
    BY <2>9, Returns
  <2> QED BY <1>2, <2>1, <2>2, <2>3, <2>4, <2>5, <2>6, <2>7, <2>8, <2>9 DEF EpisodeStep
<1>3. CASE Cancel \/ UserAnswers
  BY <1>3, UserActs
<1>4. CASE Crash
  BY <1>4, Crashes
<1>5. CASE UNCHANGED vars
  BY <1>5 DEF vars, IInv, Typed, Ordered, InStep, Unborn, Runs, Over, Sourced, Known, Backed,
              Backs, Uncounted, Without
<1> QED BY <1>1, <1>2, <1>3, <1>4, <1>5 DEF Next

(* The invariant holds in every reachable state. *)
THEOREM Invariance == Spec => []IInv
BY Initial, Inductive, PTL DEF Spec
-----------------------------------------------------------------------------
(* In every reachable state the row, the records of jobs and the calls have   *)
(* their types: what is built from stale rows and drafts is still a row.      *)
THEOREM TypeCorrect == Spec => []TypeOK
<1>1. IInv => TypeOK
  <2> SUFFICES ASSUME IInv
               PROVE  TypeOK
    OBVIOUS
  <2>1. ASSUME NEW j \in Jobs
        PROVE  /\ jobs[j].worker \in Workers \union {"none"}
               /\ jobs[j].selected \subseteq Jobs
               /\ jobs[j].status \in {"none", "running", "completed", "timeout", "error"}
               /\ jobs[j].verdict \in Verdicts \union {"none"}
               /\ jobs[j].files \subseteq Artifacts
    BY DEF IInv, Typed, JobRecords, Terminal
  <2>2. ASSUME NEW j \in Jobs
        PROVE  ToSet(log[j]) \subseteq Artifacts \union {"started", "completed", "timeout", "error"}
    BY DEF IInv, Typed, Events, Terminal, ToSet
  <2>3. \A e \in Episodes : /\ ep[e].job \in 0..MaxJobs
                            /\ ep[e].seen \in Rows /\ ep[e].before \in Rows
    BY DEF IInv, Typed, Calls
  <2> QED BY <2>1, <2>2, <2>3 DEF IInv, Typed, TypeOK
<1> QED BY <1>1, Invariance, PTL

(* Every pointer of the row names a completed job that wrote the file, for any *)
(* number of episodes that overwrite each other's rows, crashes and failed     *)
(* writes (_project_files, _persist_file_writes).                              *)
THEOREM EvidenceOnDisk == Spec => []EvidenceIsOnDisk
<1>1. IInv => EvidenceIsOnDisk
  BY DEF IInv, Sourced, Known, Backed, Backs, EvidenceIsOnDisk, Evidence
<1> QED BY <1>1, Invariance, PTL

(* Once the task is cancelled a step that does not race leaves the status, the *)
(* files, the failures and the counted results of the row as they are          *)
(* (handle_worker_result).                                                     *)
THEOREM LateResults == Spec => LateResultsChangeNothing
<1> DEFINE Kept == row' = [row EXCEPT !.parallel = row'.parallel, !.used = row'.used,
                                      !.active = row'.active]
<1>1. ASSUME IInv, [Next]_vars, row.status = "cancelled", ~raced'
      PROVE  Kept
  <2>1. row \in Rows
    BY <1>1 DEF IInv, Typed
  <2>2. ASSUME row' = row
        PROVE  Kept
    BY <2>1, <2>2 DEF Rows
  <2>3. ASSUME NEW e \in Episodes, StartJob(e)
        PROVE  Kept
    BY <1>1, <2>1, <2>3 DEF StartJob, Rows
  <2>4. ASSUME NEW e \in Episodes, Decrement(e) \/ Restore(e)
        PROVE  Kept
    BY <1>1, <2>1, <2>4 DEF Decrement, Restore, Rows
  <2>5. ASSUME NEW e \in Episodes, Project(e)
        PROVE  FALSE
    BY <1>1, <2>5 DEF Project
  <2>6. ~Cancel /\ ~UserAnswers
    BY <1>1 DEF Cancel, UserAnswers
  <2>7. ASSUME NEW e \in Episodes,
               \/ CallWorkerTool(e) \/ ReadForRecord(e) \/ MockAnswers(e) \/ RequestFails(e)
               \/ SubagentAnswers(e) \/ SubagentBusy(e) \/ ServerAnswers(e) \/ WriteFile(e)
               \/ WriteFails(e) \/ Finish(e) \/ ReadForProjection(e) \/ Retain(e)
               \/ HandlerRaises(e)
        PROVE  row' = row
    BY <2>7 DEF CallWorkerTool, ReadForRecord, MockAnswers, RequestFails, SubagentAnswers,
                SubagentBusy, ServerAnswers, WriteFile, WriteFails, Finish, ReadForProjection,
                Retain, HandlerRaises, Answer
  <2>8. Crash \/ UNCHANGED vars => row' = row
    BY DEF Crash, vars
  <2> HIDE DEF Kept
  <2> QED BY <1>1, <2>2, <2>3, <2>4, <2>5, <2>6, <2>7, <2>8 DEF Next, EpisodeStep
<1>2. IInv /\ [Next]_vars =>
        [(row.status = "cancelled" /\ ~raced') => Kept]_vars
  BY <1>1
<1> QED BY <1>2, Invariance, PTL DEF Spec, LateResultsChangeNothing
-----------------------------------------------------------------------------
(* The refinement of JobLedger. *)
Lives == [j \in Jobs |-> Life(j)]

LEMMA Stages ==
  ASSUME NEW j \in Jobs
  PROVE  /\ Unborn(j) => Life(j) = "none"
         /\ Runs(j) => Life(j) = "running"
         /\ Over(j) => Life(j) = jobs[j].verdict /\ Life(j) \in Verdicts
BY DEF Unborn, Runs, Over, Life, Terminal

(* Jobs whose events and verdicts stay lead the same life. *)
LEMMA SameLives ==
  ASSUME \A j \in Jobs : log'[j] = log[j] /\ jobs'[j].verdict = jobs[j].verdict
  PROVE  Lives' = Lives
BY DEF Lives, Life

(* Every result a row counts is that of a job that has ended. *)
LEMMA CountedHasEnded ==
  ASSUME IInv
  PROVE  /\ row.completed \subseteq {j \in Jobs : Lives[j] \in Verdicts}
         /\ \A e \in Episodes : ep[e].seen.completed \subseteq {j \in Jobs : Lives[j] \in Verdicts}
<1>1. ASSUME NEW r \in Rows, Known(r)
      PROVE  r.completed \subseteq {j \in Jobs : Lives[j] \in Verdicts}
  <2> SUFFICES ASSUME NEW j \in r.completed
               PROVE  j \in Jobs /\ Lives[j] \in Verdicts
    OBVIOUS
  <2>1. j \in Jobs /\ Over(j)
    BY <1>1 DEF Known, Rows
  <2> QED BY <2>1, Stages DEF Lives
<1> QED BY <1>1 DEF IInv, Typed, Calls, Sourced

(* One job moves from one stage to the next, the others stay where they are. *)
LEMMA OneLife ==
  ASSUME NEW j \in Jobs, NEW stage, Life(j)' = stage,
         \A k \in Jobs \ {j} : log'[k] = log[k] /\ jobs'[k].verdict = jobs[k].verdict
  PROVE  Lives' = [Lives EXCEPT ![j] = stage]
<1>1. \A k \in Jobs : Life(k)' = IF k = j THEN stage ELSE Life(k)
  <2> SUFFICES ASSUME NEW k \in Jobs
               PROVE  Life(k)' = IF k = j THEN stage ELSE Life(k)
    OBVIOUS
  <2>1. CASE k = j
    BY <2>1
  <2>2. CASE k # j
    BY <2>2 DEF Life
  <2> QED BY <2>1, <2>2
<1>2. Lives' = [k \in Jobs |-> Life(k)']
  BY DEF Lives
<1> QED BY <1>1, <1>2 DEF Lives

Closed == row.status = "cancelled"

LEMMA Stutter ==
  ASSUME Lives' = Lives, row'.completed = row.completed, Closed' = Closed, raced' = raced
  PROVE  UNCHANGED Ledger!vars
BY DEF Ledger!vars, Lives, Closed

LEMMA RowsRace ==
  ASSUME Lives' = Lives, raced' = TRUE,
         row'.completed \subseteq {j \in Jobs : Lives[j] \in Verdicts}
  PROVE  Ledger!Next
BY DEF Ledger!Next, Ledger!Race, Ledger!Ended, Lives

LEMMA StartIsStart ==
  ASSUME IInv, NEW e \in Episodes, StartJob(e)
  PROVE  Ledger!Next
<1>1. PICK j \in Jobs : j = ep[e].job /\ Unborn(j)
  BY Limits DEF StartJob, IInv, Typed, Ordered, InStep, Early, Jobs
<1>2. log[j] = <<>> /\ Lives[j] = "none" /\ "started" \in Events
  BY <1>1, Stages DEF Unborn, Lives, Events
<1>3. /\ \A k \in Jobs \ {j} : log'[k] = log[k] /\ jobs'[k].verdict = jobs[k].verdict
      /\ log'[j] = Append(log[j], "started") /\ jobs'[j].status = "running"
  BY <1>1, NewRowIsARow DEF StartJob, IInv, Typed, JobRecords
<1>4. Life(j)' = "running"
  <2>1. Runs(j)'
    BY <1>2, <1>3, AppendLast DEF Runs, Terminal, IInv, Typed
  <2> QED BY <2>1 DEF Runs, Life, Terminal
<1>5. Lives' = [Lives EXCEPT ![j] = "running"]
  BY <1>3, <1>4, OneLife
<1>6. /\ row'.completed = ep[e].seen.completed /\ row'.status = ep[e].seen.status
      /\ raced' = (raced \/ row # ep[e].seen)
  BY DEF StartJob, IInv, Typed, Calls, Rows
<1>7. row'.completed \subseteq {k \in Jobs : Lives[k] \in Verdicts}
  BY <1>6, CountedHasEnded
<1>8. raced' \/ (row'.completed = row.completed /\ Closed' = Closed)
  BY <1>6 DEF Closed
<1>9. raced => raced'
  BY <1>6
<1>10. Ledger!Start(j)
  BY <1>2, <1>5, <1>7, <1>8, <1>9 DEF Ledger!Start, Ledger!Ended, Lives, Closed
<1> QED BY <1>10 DEF Ledger!Next

LEMMA FinishIsEnd ==
  ASSUME IInv, NEW e \in Episodes, Finish(e)
  PROVE  Ledger!Next
<1>1. PICK j \in Jobs : j = ep[e].job /\ Runs(j) /\ log[j] \in Seq(Events) /\ jobs[j] \in JobRecords
  BY RunningJob DEF Finish, Running
<1>2. PICK v \in Verdicts : v = ep[e].verdict
  BY DEF Finish, IInv, Ordered, InStep
<1>3. JobStatus(v) \in Terminal /\ JobStatus(v) \in Events
  BY DEF JobStatus, Terminal, Events
<1>4. /\ jobs' = [jobs EXCEPT ![j].status = JobStatus(v), ![j].verdict = v]
      /\ log' = [log EXCEPT ![j] = Append(@, JobStatus(v))]
      /\ UNCHANGED <<row, raced>>
  BY <1>1, <1>2 DEF Finish
<1>5. /\ \A k \in Jobs \ {j} : log'[k] = log[k] /\ jobs'[k].verdict = jobs[k].verdict
      /\ log'[j] = Append(log[j], JobStatus(v)) /\ jobs'[j].verdict = v
  BY <1>1, <1>4 DEF IInv, Typed, JobRecords
<1>6. Life(j)' = v
  <2>1. Over(j)'
    BY <1>1, <1>3, <1>5, AppendLast DEF Over
  <2> QED BY <1>5, <2>1 DEF Over, Life, Terminal
<1>7. Lives' = [Lives EXCEPT ![j] = v] /\ Lives[j] = "running"
  BY <1>1, <1>5, <1>6, OneLife, Stages DEF Lives
<1>8. Ledger!End(j, v)
  BY <1>4, <1>7 DEF Ledger!End, Lives
<1> QED BY <1>2, <1>8 DEF Ledger!Next

LEMMA ProjectIsCount ==
  ASSUME IInv, NEW e \in Episodes, Project(e)
  PROVE  Ledger!Next
<1>1. PICK j \in Jobs : j = ep[e].job /\ Over(j)
  BY Limits DEF Project, IInv, Typed, Ordered, InStep, Late, Jobs
<1>2. PICK seen \in Rows : seen = ep[e].seen /\ Known(seen) /\ seen.status # "cancelled"
  BY DEF Project, IInv, Typed, Calls, Sourced
<1>3. row' = Applied(seen, j) /\ raced' = (raced \/ row # seen) /\ UNCHANGED <<jobs, log>>
  BY <1>1, <1>2 DEF Project
<1>4. Lives' = Lives /\ j \in {k \in Jobs : Lives[k] \in Verdicts}
  <2>1. Lives' = Lives
    BY <1>3, SameLives
  <2> QED BY <1>1, <2>1, Stages DEF Lives
<1>5. row'.completed = seen.completed \cup {j}
  BY <1>1, <1>2, <1>3, AppliedIsKnown
<1>6. CASE raced'
  <2>1. seen.completed \subseteq {k \in Jobs : Lives[k] \in Verdicts}
    BY <1>2, CountedHasEnded
  <2>2. raced' = TRUE
    BY <1>6, <1>3 DEF IInv, Typed
  <2> QED BY <1>4, <1>5, <2>1, <2>2, RowsRace
<1>7. CASE ~raced'
  <2>1. row = seen /\ raced' = raced
    BY <1>3, <1>7 DEF IInv, Typed
  <2>2. row'.status # "cancelled"
    <3> DEFINE r == IF jobs[j].status = "completed" THEN Pointed(seen, j, jobs[j].files) ELSE seen
    <3>1. r \in Rows /\ r.status # "cancelled"
      BY <1>2, PointedIsBacked
    <3>2. row'.status = IF jobs[j].verdict = "need_clarification" THEN "waiting_user" ELSE r.status
      BY <1>3, <3>1 DEF Applied, Rows
    <3> QED BY <3>1, <3>2
  <2>3. j \notin row.completed
    BY <1>1 DEF Project, IInv, Uncounted, Without
  <2>4. ~Closed /\ ~Closed'
    BY <1>2, <2>1, <2>2 DEF Closed
  <2>5. Ledger!Count(j)
    BY <1>4, <1>5, <2>1, <2>3, <2>4 DEF Ledger!Count, Ledger!Ended, Lives, Closed
  <2> QED BY <2>5 DEF Ledger!Next
<1> QED BY <1>6, <1>7

(* Every step of the dispatch is one step of the ledger or leaves it as it is. *)
THEOREM LedgerStep == IInv /\ [Next]_vars => [Ledger!Next]_(Ledger!vars)
<1> SUFFICES ASSUME IInv, [Next]_vars
             PROVE  Ledger!Next \/ UNCHANGED Ledger!vars
  OBVIOUS
<1>1. ASSUME NEW e \in Episodes, CallWorkerTool(e)
      PROVE  Ledger!Next \/ UNCHANGED Ledger!vars
  <2>1. Lives' = Lives /\ row' = row /\ Closed' = Closed
    BY <1>1, SameLives DEF CallWorkerTool, Closed
  <2>2. raced' = raced \/ raced' = TRUE
    BY <1>1 DEF CallWorkerTool, IInv, Typed
  <2>3. row'.completed \subseteq {j \in Jobs : Lives[j] \in Verdicts}
    BY <2>1, CountedHasEnded
  <2> QED BY <2>1, <2>2, <2>3, Stutter, RowsRace
<1>2. ASSUME NEW e \in Episodes,
             \/ ReadForRecord(e) \/ MockAnswers(e) \/ RequestFails(e) \/ SubagentAnswers(e)
             \/ SubagentBusy(e) \/ ServerAnswers(e) \/ WriteFails(e) \/ ReadForProjection(e)
             \/ Retain(e) \/ HandlerRaises(e)
      PROVE  UNCHANGED Ledger!vars
  <2>1. UNCHANGED <<row, jobs, log, raced>>
    BY <1>2 DEF ReadForRecord, MockAnswers, RequestFails, SubagentAnswers, SubagentBusy,
                ServerAnswers, WriteFails, ReadForProjection, Retain, HandlerRaises, Answer
  <2> QED BY <2>1, SameLives, Stutter DEF Closed
<1>3. ASSUME NEW e \in Episodes, WriteFile(e)
      PROVE  UNCHANGED Ledger!vars
  <2>1. PICK j \in Jobs : j = ep[e].job /\ Runs(j) /\ log[j] \in Seq(Events)
                         /\ jobs[j] \in JobRecords
    BY <1>3, RunningJob DEF WriteFile, Running
  <2>2. PICK a \in Artifacts : a = Head(ep[e].left)
    BY <1>3 DEF WriteFile, IInv, Typed, Calls
  <2>3. a \in Events /\ a \notin Terminal
    BY <2>2 DEF Events, Artifacts, Terminal
  <2>4. /\ jobs' = [jobs EXCEPT ![j].files = @ \cup {a}]
        /\ log' = [log EXCEPT ![j] = Append(@, a)] /\ UNCHANGED <<row, raced>>
    BY <1>3, <2>1, <2>2 DEF WriteFile
  <2>5. /\ \A k \in Jobs \ {j} : log'[k] = log[k] /\ jobs'[k].verdict = jobs[k].verdict
        /\ log'[j] = Append(log[j], a)
    BY <2>1, <2>4 DEF IInv, Typed
  <2>6. Life(j)' = "running" /\ Lives[j] = "running"
    <3>1. log'[j] # <<>> /\ Last(log'[j]) = a
      BY <2>1, <2>3, <2>5, AppendLast
    <3> QED BY <2>1, <2>3, <3>1, Stages DEF Life, Terminal, Lives
  <2>7. Lives' = Lives
    <3>1. Lives' = [Lives EXCEPT ![j] = "running"]
      BY <2>5, <2>6, OneLife
    <3> QED BY <2>6, <3>1 DEF Lives
  <2> QED BY <2>4, <2>7, Stutter DEF Closed
<1>4. ASSUME NEW e \in Episodes, Decrement(e) \/ Restore(e)
      PROVE  Ledger!Next \/ UNCHANGED Ledger!vars
  <2>1. /\ row'.completed = ep[e].seen.completed /\ row'.status = ep[e].seen.status
        /\ raced' = (raced \/ row # ep[e].seen) /\ UNCHANGED <<jobs, log>>
    BY <1>4 DEF Decrement, Restore, IInv, Typed, Calls, Rows
  <2>2. Lives' = Lives
    BY <2>1, SameLives
  <2>3. row'.completed \subseteq {j \in Jobs : Lives[j] \in Verdicts}
    BY <2>1, CountedHasEnded
  <2>4. CASE raced'
    <3>1. raced' = TRUE
      BY <2>1, <2>4 DEF IInv, Typed
    <3> QED BY <2>2, <2>3, <3>1, RowsRace
  <2>5. CASE ~raced'
    <3>1. row = ep[e].seen /\ raced' = raced
      BY <2>1, <2>5 DEF IInv, Typed
    <3> QED BY <2>1, <2>2, <3>1, Stutter DEF Closed
  <2> QED BY <2>4, <2>5
<1>5. CASE Cancel
  <2>1. /\ ~Closed /\ Closed' = TRUE /\ row'.completed = row.completed
        /\ UNCHANGED <<jobs, log, raced>>
    BY <1>5 DEF Cancel, Closed, IInv, Typed, Rows
  <2>2. Lives' = Lives
    BY <2>1, SameLives
  <2>3. Ledger!Close
    BY <2>1, <2>2 DEF Ledger!Close, Lives, Closed
  <2> QED BY <2>3 DEF Ledger!Next
<1>6. CASE UserAnswers
  <2>1. /\ Closed' = Closed /\ row'.completed = row.completed /\ UNCHANGED <<jobs, log, raced>>
    BY <1>6 DEF UserAnswers, Closed, IInv, Typed, Rows
  <2> QED BY <2>1, SameLives, Stutter
<1>7. CASE Crash
  <2>1. \A j \in Jobs : jobs[j] \in JobRecords
    BY DEF IInv, Typed
  <2>2. \A j \in Jobs : jobs'[j].verdict = jobs[j].verdict
    BY <1>7, <2>1 DEF Crash, JobRecords
  <2>3. UNCHANGED <<row, log, raced>>
    BY <1>7 DEF Crash
  <2> QED BY <2>2, <2>3, SameLives, Stutter DEF Closed
<1>8. CASE UNCHANGED vars
  BY <1>8, SameLives, Stutter DEF vars, Closed
<1> QED BY <1>1, <1>2, <1>3, <1>4, <1>5, <1>6, <1>7, <1>8, StartIsStart, FinishIsEnd,
           ProjectIsCount DEF Next, EpisodeStep

(* WorkerDispatch implements JobLedger: every job starts once, ends once with a *)
(* verdict that stands, and is counted once, after it ended and not in a        *)
(* cancelled task (call_worker, handle_worker_result).                          *)
THEOREM Refinement == Spec => LedgerSpec
<1>1. Init => Ledger!Init
  <2> SUFFICES ASSUME Init
               PROVE  Ledger!Init
    OBVIOUS
  <2>1. \A j \in Jobs : Life(j) = "none"
    BY DEF Init, Life
  <2>2. row.completed = {} /\ row.status # "cancelled" /\ raced = FALSE
    BY DEF Init, NewRow
  <2> QED BY <2>1, <2>2 DEF Ledger!Init
<1> QED BY <1>1, LedgerStep, Invariance, PTL DEF Spec, LedgerSpec, Ledger!Spec
=============================================================================
