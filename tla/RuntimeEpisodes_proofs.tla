----------------------- MODULE RuntimeEpisodes_proofs ------------------------
(* Proofs about RuntimeEpisodes, for any messages, turns and faults. *)
EXTENDS RuntimeEpisodes, TLAPS

-----------------------------------------------------------------------------
(* Type correctness *)

\* The field updates the actions make keep a document a document.
LEMMA RowUpdates ==
    ASSUME NEW r \in Rows
    PROVE  /\ r.status \in Statuses /\ r.typed \in BOOLEAN /\ r.asked \in BOOLEAN
           /\ \A s \in Statuses : [r EXCEPT !.status = s] \in Rows
           /\ \A s \in Statuses, b \in BOOLEAN :
                 /\ [r EXCEPT !.status = s, !.asked = b] \in Rows
                 /\ [r EXCEPT !.status = s, !.asked = @ \/ b] \in Rows
                 /\ [r EXCEPT !.status = s, !.typed = b] \in Rows
           /\ \A m \in Messages : [r EXCEPT !.msgs = @ \cup {m}] \in Rows
           /\ \A i \in Invocations :
                 [r EXCEPT !.lease = [st |-> "running", ep |-> i]] \in Rows
           /\ \A st \in {"idle", "error"} : [r EXCEPT !.lease.st = st] \in Rows
  BY DEF Rows, Leases

LEMMA StatusNames ==
    {"created", "running", "waiting_user", "succeeded", "partial_failed",
     "failed", "cancelled"} \subseteq Statuses
  BY DEF Statuses, Terminal

LEMMA PhaseNames ==
    /\ EpisodePhases \subseteq Phases
    /\ ToolPhases \subseteq EpisodePhases
    /\ {"unsent", "record", "start", "resume", "followup", "followAnswer",
        "done", "lost"} \subseteq Phases
    /\ {"answer", "recheck", "enter", "turn", "observe", "report", "replay",
        "finalize", "release", "call", "plan", "clarify", "prepare", "guard",
        "callWorker", "dispatch", "project", "result"} \subseteq EpisodePhases
  BY DEF Phases, EpisodePhases, ToolPhases

LEMMA GoToTypes ==
    ASSUME TypeOK, NEW i, NEW phase \in Phases, GoTo(i, phase)
    PROVE  pc' \in [Invocations -> Phases]
  BY DEF TypeOK, GoTo

LEMMA ForgetTypes ==
    ASSUME TypeOK, NEW i, Forget(i)
    PROVE  verdict' \in [Invocations -> Verdicts]
  BY DEF TypeOK, Forget, Verdicts

LEMMA LeaveLoopTypes ==
    ASSUME TypeOK, NEW i, LeaveLoop(i)
    PROVE  /\ turns' \in [Invocations -> 0..MaxTurns]
           /\ stopBlocks' \in [Invocations -> 0..(MAX_STOP_BLOCKS - 1)]
<1>1. 0 \in 0..MaxTurns /\ 0 \in 0..(MAX_STOP_BLOCKS - 1)
  BY ConstantsAssumption DEF MAX_STOP_BLOCKS
<1> QED
  BY <1>1 DEF TypeOK, LeaveLoop

LEMMA WriteTypes ==
    ASSUME TypeOK, NEW r \in Rows, LockedWrite(r) \/ StaleWrite(r) \/ NoWrite
    PROVE  row' \in Rows /\ staleLease' \in BOOLEAN
  BY DEF TypeOK, LockedWrite, StaleWrite, NoWrite

LEMMA UseTurnTypes ==
    ASSUME TypeOK, NEW i \in Invocations, UseTurn(i)
    PROVE  turns' \in [Invocations -> 0..MaxTurns]
<1>1. turns[i] + 1 \in 0..MaxTurns
  BY ConstantsAssumption DEF TypeOK, UseTurn
<1> QED
  BY <1>1 DEF TypeOK, UseTurn

LEMMA CopyTypes ==
    ASSUME TypeOK, NEW i, NEW r \in Rows \cup {NoCopy},
           copy' = [copy EXCEPT ![i] = r]
    PROVE  copy' \in [Invocations -> Rows \cup {NoCopy}]
  BY DEF TypeOK

LEMMA VerdictTypes ==
    ASSUME TypeOK, NEW i, NEW v \in Verdicts, verdict' = [verdict EXCEPT ![i] = v]
    PROVE  verdict' \in [Invocations -> Verdicts]
  BY DEF TypeOK

LEMMA CommitTypes ==
    ASSUME TypeOK, NEW i \in Invocations, NEW from, NEW to \in Phases,
           CommitFrom(i, from, to)
    PROVE  /\ copy[i] \in Rows
           /\ pc' \in [Invocations -> Phases]
           /\ copy' \in [Invocations -> Rows \cup {NoCopy}]
           /\ turns' \in [Invocations -> 0..MaxTurns]
           /\ stopBlocks' \in [Invocations -> 0..(MAX_STOP_BLOCKS - 1)]
           /\ expired' \subseteq Invocations
           /\ faults' \in 0..MaxFaults
  BY GoToTypes DEF TypeOK, CommitFrom

LEMMA StepTypes ==
    ASSUME TypeOK, NEW i \in Invocations, Step(i)
    PROVE  TypeOK'
<1> USE DEF TypeOK
<1>1. CASE ReadRow(i)
  BY <1>1, CopyTypes DEF ReadRow
<1>2. CASE ClaimEpisode(i)
  BY <1>2, GoToTypes, PhaseNames, WriteTypes, RowUpdates DEF ClaimEpisode
<1>3. CASE SkipEpisode(i)
  BY <1>3, GoToTypes, PhaseNames, WriteTypes DEF SkipEpisode
<1>4. CASE ReleaseEpisode(i)
  BY <1>4, GoToTypes, PhaseNames, WriteTypes, RowUpdates, CopyTypes,
     ForgetTypes, LeaveLoopTypes DEF ReleaseEpisode, EndInvocation,
     LeaseEndedBy
<1>5. CASE ReadForAnswer(i)
  BY <1>5, GoToTypes, PhaseNames, CopyTypes DEF ReadForAnswer
<1>6. CASE ApplyUserMessage(i)
  BY <1>6, CommitTypes, PhaseNames, WriteTypes, RowUpdates, StatusNames DEF
     ApplyUserMessage
<1>7. CASE RecheckRunnable(i)
  BY <1>7, GoToTypes, PhaseNames DEF RecheckRunnable
<1>8. CASE StartMainAgentRun(i)
  BY <1>8, GoToTypes, PhaseNames, WriteTypes DEF StartMainAgentRun
<1>9. CASE CallTool(i)
  BY <1>9, GoToTypes, PhaseNames, UseTurnTypes, CopyTypes DEF CallTool
<1>10. CASE EmptyTurn(i)
  <2>1. stopBlocks[i] + 1 \in 0..(MAX_STOP_BLOCKS - 1)
    BY <1>10 DEF EmptyTurn, MAX_STOP_BLOCKS
  <2> QED
    BY <1>10, <2>1, UseTurnTypes DEF EmptyTurn
<1>11. CASE StopTurn(i)
  BY <1>11, GoToTypes, PhaseNames, VerdictTypes, LeaveLoopTypes DEF
     StopTurn, Verdicts
<1>12. CASE ProviderError(i)
  BY <1>12, GoToTypes, PhaseNames, LeaveLoopTypes DEF ProviderError
<1>13. CASE ExceedTurns(i)
  BY <1>13, GoToTypes, PhaseNames, VerdictTypes, LeaveLoopTypes DEF
     ExceedTurns, Verdicts
<1>14. CASE RecordToolCall(i)
  BY <1>14, CommitTypes, PhaseNames, WriteTypes, ForgetTypes DEF
     RecordToolCall, MaybeRewrite
<1>15. CASE RecordToolResult(i)
  BY <1>15, CommitTypes, PhaseNames, WriteTypes DEF RecordToolResult,
     MaybeRewrite
<1>16. CASE UpdatePlan(i)
  BY <1>16, CommitTypes, PhaseNames, WriteTypes, RowUpdates, StatusNames DEF
     UpdatePlan
<1>17. CASE RequestClarification(i)
  BY <1>17, CommitTypes, PhaseNames, WriteTypes, RowUpdates, StatusNames DEF
     RequestClarification
<1>18. CASE PrepareWorkerTask(i)
  BY <1>18, CommitTypes, PhaseNames, WriteTypes, RowUpdates, StatusNames DEF
     PrepareWorkerTask, MaybeRewrite
<1>19. CASE ReadForGuard(i)
  BY <1>19, GoToTypes, PhaseNames, VerdictTypes DEF ReadForGuard, Verdicts
<1>20. CASE DispatchWorker(i)
  BY <1>20, CommitTypes, PhaseNames, WriteTypes DEF DispatchWorker
<1>21. CASE ProjectWorkerResult(i)
  BY <1>21, CommitTypes, PhaseNames, WriteTypes, RowUpdates, StatusNames DEF
     ProjectWorkerResult
<1>22. CASE ObserveTask(i)
  BY <1>22, GoToTypes, PhaseNames, LeaveLoopTypes DEF ObserveTask
<1>23. CASE WriteRunFiles(i)
  BY <1>23, CommitTypes, PhaseNames, WriteTypes DEF WriteRunFiles
<1>24. CASE Finalize(i)
  BY <1>24, GoToTypes, PhaseNames, WriteTypes, RowUpdates, StatusNames,
     ForgetTypes DEF Finalize
<1> QED
  BY <1>1, <1>2, <1>3, <1>4, <1>5, <1>6, <1>7, <1>8, <1>9, <1>10, <1>11,
     <1>12, <1>13, <1>14, <1>15, <1>16, <1>17, <1>18, <1>19, <1>20, <1>21,
     <1>22, <1>23, <1>24 DEF Step

LEMMA MessageTypes ==
    ASSUME TypeOK, NEW m \in Messages, MessageStep(m) \/ PostMessage(m)
    PROVE  TypeOK'
<1> USE DEF TypeOK
<1>a. m \in Invocations
  BY DEF Invocations
<1>1. CASE RecordMessage(m)
  BY <1>1, <1>a, CommitTypes, PhaseNames, WriteTypes, RowUpdates DEF
     RecordMessage
<1>2. CASE RecordFollowupTrace(m)
  BY <1>2, <1>a, GoToTypes, PhaseNames, WriteTypes DEF RecordFollowupTrace
<1>3. CASE RecordFollowupAnswer(m)
  BY <1>3, <1>a, CommitTypes, PhaseNames, WriteTypes DEF
     RecordFollowupAnswer
<1>4. CASE PostMessage(m)
  BY <1>4, <1>a, GoToTypes, PhaseNames, CopyTypes DEF PostMessage
<1> QED
  BY <1>1, <1>2, <1>3, <1>4 DEF MessageStep

LEMMA FaultTypes ==
    ASSUME TypeOK, NEW i \in Invocations,
           LeaseExpires(i) \/ InvocationFails(i) \/ ToolFails(i)
    PROVE  TypeOK'
<1> USE DEF TypeOK
<1>1. CASE LeaseExpires(i)
  BY <1>1 DEF LeaseExpires
<1>2. CASE InvocationFails(i)
  <2>1. LeaseEndedBy(i, "error") \in Rows
    BY RowUpdates DEF LeaseEndedBy
  <2>2. row' \in Rows /\ staleLease' \in BOOLEAN
    BY <1>2, <2>1, WriteTypes DEF InvocationFails
  <2>3. faults' \in 0..MaxFaults
    BY <1>2, ConstantsAssumption DEF InvocationFails, CountFault
  <2> QED
    BY <1>2, <2>2, <2>3, GoToTypes, PhaseNames, CopyTypes, ForgetTypes,
       LeaveLoopTypes DEF InvocationFails, EndInvocation
<1>3. CASE ToolFails(i)
  <2>1. faults' \in 0..MaxFaults
    BY <1>3, ConstantsAssumption DEF ToolFails, CountFault
  <2> QED
    BY <1>3, <2>1, GoToTypes, PhaseNames, CopyTypes, ForgetTypes DEF ToolFails
<1> QED
  BY <1>1, <1>2, <1>3

\* The state of the model always has the types of the code's data.
THEOREM TypeCorrect == Spec => []TypeOK
<1>1. Init => TypeOK
  <2> SUFFICES ASSUME Init
               PROVE  TypeOK
    OBVIOUS
  <2>1. row \in Rows
    BY StatusNames DEF Init, Rows, Leases
  <2>2. pc \in [Invocations -> Phases]
    BY PhaseNames DEF Init
  <2>3. /\ turns \in [Invocations -> 0..MaxTurns]
        /\ stopBlocks \in [Invocations -> 0..(MAX_STOP_BLOCKS - 1)]
        /\ faults \in 0..MaxFaults
    BY ConstantsAssumption DEF Init, MAX_STOP_BLOCKS
  <2> QED
    BY <2>1, <2>2, <2>3 DEF Init, TypeOK, Verdicts
<1>2. TypeOK /\ [Next]_vars => TypeOK'
  <2> SUFFICES ASSUME TypeOK, [Next]_vars
               PROVE  TypeOK'
    OBVIOUS
  <2>1. CASE \E i \in Invocations :
                Step(i) \/ LeaseExpires(i) \/ InvocationFails(i) \/ ToolFails(i)
    BY <2>1, StepTypes, FaultTypes
  <2>2. CASE \E m \in Messages : MessageStep(m) \/ PostMessage(m)
    BY <2>2, MessageTypes
  <2>3. CASE CancelTask
    BY <2>3, WriteTypes, RowUpdates, StatusNames DEF CancelTask, TypeOK
  <2>4. CASE ProcessCrashes
    <3>1. pc' \in [Invocations -> Phases]
      BY <2>4, PhaseNames DEF ProcessCrashes, TypeOK
    <3>2. /\ turns' \in [Invocations -> 0..MaxTurns]
          /\ stopBlocks' \in [Invocations -> 0..(MAX_STOP_BLOCKS - 1)]
      BY <2>4, ConstantsAssumption DEF ProcessCrashes, MAX_STOP_BLOCKS
    <3>3. faults' \in 0..MaxFaults
      BY <2>4, ConstantsAssumption DEF ProcessCrashes, CountFault, TypeOK
    <3> QED
      BY <2>4, <3>1, <3>2, <3>3 DEF ProcessCrashes, TypeOK, Verdicts
  <2>5. CASE UNCHANGED vars
    BY <2>5 DEF vars, TypeOK
  <2> QED
    BY <2>1, <2>2, <2>3, <2>4, <2>5 DEF Next
<1> QED
  BY <1>1, <1>2, PTL DEF Spec

-----------------------------------------------------------------------------
(* What every step but a claim and the end of an episode leaves alone *)

LEMMA OutsidePhases ==
    \A phase \in {"unsent", "record", "start", "resume", "followup",
                  "followAnswer", "done", "lost"} : phase \notin EpisodePhases
  BY DEF EpisodePhases, ToolPhases

\* The lease changes only by a write of an old document, which is noticed.
RowFrame ==
    /\ \/ row'.lease = row.lease
       \/ /\ staleLease'
          /\ \E j \in Invocations : copy[j] # NoCopy /\ row'.lease = copy[j].lease
    /\ staleLease => staleLease'

\* Documents held are copies of the committed row.
CopyFrame ==
    \A j \in Invocations :
        copy'[j] # NoCopy => copy'[j] = row \/ copy'[j] = copy[j]

\* No episode begins, nothing that is done goes on.
PcFrame ==
    \A j \in Invocations :
        /\ pc'[j] \in EpisodePhases => pc[j] \in EpisodePhases
        /\ pc[j] = "done" => pc'[j] = "done"

Frame == RowFrame /\ CopyFrame /\ PcFrame /\ expired \subseteq expired'

LEMMA UpdatesKeepLease ==
    ASSUME NEW r \in Rows
    PROVE  /\ \A s \in Statuses : [r EXCEPT !.status = s].lease = r.lease
           /\ \A s \in Statuses, b \in BOOLEAN :
                 /\ [r EXCEPT !.status = s, !.asked = b].lease = r.lease
                 /\ [r EXCEPT !.status = s, !.asked = @ \/ b].lease = r.lease
                 /\ [r EXCEPT !.status = s, !.typed = b].lease = r.lease
           /\ \A m \in Messages : [r EXCEPT !.msgs = @ \cup {m}].lease = r.lease
  BY DEF Rows

LEMMA StaleWriteFrame ==
    ASSUME NEW j \in Invocations, copy[j] # NoCopy,
           NEW r, r.lease = copy[j].lease, StaleWrite(r)
    PROVE  RowFrame
  BY DEF RowFrame, StaleWrite

LEMMA StaleUpdateFrame ==
    ASSUME NEW j \in Invocations, copy[j] # NoCopy, copy[j] \in Rows,
           \/ \E s \in Statuses, b \in BOOLEAN :
                 \/ StaleWrite([copy[j] EXCEPT !.status = s, !.asked = b])
                 \/ StaleWrite([copy[j] EXCEPT !.status = s, !.asked = @ \/ b])
                 \/ StaleWrite([copy[j] EXCEPT !.status = s, !.typed = b])
           \/ \E m \in Messages : StaleWrite([copy[j] EXCEPT !.msgs = @ \cup {m}])
    PROVE  RowFrame
<1>1. ASSUME NEW s \in Statuses, NEW b \in BOOLEAN,
             StaleWrite([copy[j] EXCEPT !.status = s, !.asked = b])
      PROVE  RowFrame
  <2>1. [copy[j] EXCEPT !.status = s, !.asked = b].lease = copy[j].lease
    BY UpdatesKeepLease
  <2> QED
    BY <1>1, <2>1, StaleWriteFrame
<1>2. ASSUME NEW s \in Statuses, NEW b \in BOOLEAN,
             StaleWrite([copy[j] EXCEPT !.status = s, !.asked = @ \/ b])
      PROVE  RowFrame
  <2>1. [copy[j] EXCEPT !.status = s, !.asked = @ \/ b].lease = copy[j].lease
    BY UpdatesKeepLease
  <2> QED
    BY <1>2, <2>1, StaleWriteFrame
<1>3. ASSUME NEW s \in Statuses, NEW b \in BOOLEAN,
             StaleWrite([copy[j] EXCEPT !.status = s, !.typed = b])
      PROVE  RowFrame
  <2>1. [copy[j] EXCEPT !.status = s, !.typed = b].lease = copy[j].lease
    BY UpdatesKeepLease
  <2> QED
    BY <1>3, <2>1, StaleWriteFrame
<1>4. ASSUME NEW m \in Messages,
             StaleWrite([copy[j] EXCEPT !.msgs = @ \cup {m}])
      PROVE  RowFrame
  <2>1. [copy[j] EXCEPT !.msgs = @ \cup {m}].lease = copy[j].lease
    BY UpdatesKeepLease
  <2> QED
    BY <1>4, <2>1, StaleWriteFrame
<1> QED
  BY <1>1, <1>2, <1>3, <1>4

LEMMA OtherWriteFrame ==
    ASSUME NoWrite \/ (\E r \in Rows : r.lease = row.lease /\ LockedWrite(r))
    PROVE  RowFrame
  BY DEF RowFrame, NoWrite, LockedWrite

LEMMA GoToFrame ==
    ASSUME TypeOK, NEW i \in Invocations, NEW phase, GoTo(i, phase),
           pc[i] # "done", phase \in EpisodePhases => pc[i] \in EpisodePhases
    PROVE  PcFrame
  BY DEF TypeOK, GoTo, PcFrame

LEMMA CopyFrameUpdate ==
    ASSUME TypeOK, NEW i \in Invocations,
           \/ copy' = [copy EXCEPT ![i] = row]
           \/ copy' = [copy EXCEPT ![i] = NoCopy]
           \/ UNCHANGED copy
    PROVE  CopyFrame
  BY DEF TypeOK, CopyFrame

LEMMA CommitFrame ==
    ASSUME TypeOK, NEW i \in Invocations, NEW from, NEW to,
           CommitFrom(i, from, to), from # "done",
           to \in EpisodePhases => from \in EpisodePhases
    PROVE  /\ CopyFrame /\ PcFrame /\ expired \subseteq expired'
           /\ copy[i] # NoCopy /\ copy[i] \in Rows
  BY GoToFrame, CopyFrameUpdate DEF CommitFrom, TypeOK

\* The steps of an invocation that do not touch the lease themselves.
LEMMA StepFrame ==
    ASSUME TypeOK, NEW i \in Invocations, Step(i),
           ~ClaimEpisode(i), ~ReleaseEpisode(i)
    PROVE  Frame
<1> USE DEF Frame
<1>1. CASE ReadRow(i)
  BY <1>1, CopyFrameUpdate DEF ReadRow, RowFrame, PcFrame
<1>2. CASE SkipEpisode(i)
  BY <1>2, GoToFrame, PhaseNames, OutsidePhases, OtherWriteFrame,
     CopyFrameUpdate DEF SkipEpisode
<1>3. CASE ReadForAnswer(i)
  BY <1>3, GoToFrame, PhaseNames, OutsidePhases, CopyFrameUpdate,
     OtherWriteFrame DEF ReadForAnswer, NoWrite, PcFrame
<1>4. CASE ApplyUserMessage(i)
  <2>1. /\ CopyFrame /\ PcFrame /\ expired \subseteq expired'
        /\ copy[i] # NoCopy /\ copy[i] \in Rows
    BY <1>4, CommitFrame, PhaseNames, OutsidePhases DEF ApplyUserMessage
  <2>2. RowFrame
    BY <1>4, <2>1, StaleUpdateFrame, StatusNames
       DEF ApplyUserMessage
  <2> QED
    BY <2>1, <2>2
<1>5. CASE RecheckRunnable(i)
  BY <1>5, GoToFrame, PhaseNames, OutsidePhases, OtherWriteFrame,
     CopyFrameUpdate DEF RecheckRunnable, NoWrite
<1>6. CASE StartMainAgentRun(i)
  BY <1>6, GoToFrame, PhaseNames, OutsidePhases, OtherWriteFrame,
     CopyFrameUpdate DEF StartMainAgentRun
<1>7. CASE CallTool(i)
  BY <1>7, GoToFrame, PhaseNames, OutsidePhases, OtherWriteFrame,
     CopyFrameUpdate DEF CallTool, NoWrite, UseTurn
<1>8. CASE EmptyTurn(i)
  BY <1>8, OtherWriteFrame, CopyFrameUpdate DEF EmptyTurn, NoWrite, UseTurn,
     PcFrame
<1>9. CASE StopTurn(i)
  BY <1>9, GoToFrame, PhaseNames, OutsidePhases, OtherWriteFrame,
     CopyFrameUpdate DEF StopTurn, NoWrite
<1>10. CASE ProviderError(i)
  BY <1>10, GoToFrame, PhaseNames, OutsidePhases, OtherWriteFrame,
     CopyFrameUpdate DEF ProviderError, NoWrite
<1>11. CASE ExceedTurns(i)
  BY <1>11, GoToFrame, PhaseNames, OutsidePhases, OtherWriteFrame,
     CopyFrameUpdate DEF ExceedTurns, NoWrite
<1>12. CASE RecordToolCall(i)
  BY <1>12, CommitFrame, StaleWriteFrame, PhaseNames, OutsidePhases,
     OtherWriteFrame DEF RecordToolCall, MaybeRewrite
<1>13. CASE RecordToolResult(i)
  BY <1>13, CommitFrame, StaleWriteFrame, PhaseNames, OutsidePhases,
     OtherWriteFrame DEF RecordToolResult, MaybeRewrite
<1>14. CASE UpdatePlan(i)
  <2>1. /\ CopyFrame /\ PcFrame /\ expired \subseteq expired'
        /\ copy[i] # NoCopy /\ copy[i] \in Rows
    BY <1>14, CommitFrame, PhaseNames, OutsidePhases DEF UpdatePlan
  <2>2. RowFrame
    BY <1>14, <2>1, StaleUpdateFrame, OtherWriteFrame, RowUpdates, StatusNames
       DEF UpdatePlan
  <2> QED
    BY <2>1, <2>2
<1>15. CASE RequestClarification(i)
  <2>1. /\ CopyFrame /\ PcFrame /\ expired \subseteq expired'
        /\ copy[i] # NoCopy /\ copy[i] \in Rows
    BY <1>15, CommitFrame, PhaseNames, OutsidePhases DEF RequestClarification
  <2>2. RowFrame
    BY <1>15, <2>1, StaleUpdateFrame, StatusNames
       DEF RequestClarification
  <2> QED
    BY <2>1, <2>2
<1>16. CASE PrepareWorkerTask(i)
  <2>1. /\ CopyFrame /\ PcFrame /\ expired \subseteq expired'
        /\ copy[i] # NoCopy /\ copy[i] \in Rows
    BY <1>16, CommitFrame, PhaseNames, OutsidePhases DEF PrepareWorkerTask
  <2>2. RowFrame
    BY <1>16, <2>1, StaleUpdateFrame, StaleWriteFrame, OtherWriteFrame,
       StatusNames
       DEF PrepareWorkerTask, MaybeRewrite
  <2> QED
    BY <2>1, <2>2
<1>17. CASE ReadForGuard(i)
  BY <1>17, GoToFrame, PhaseNames, OutsidePhases, OtherWriteFrame,
     CopyFrameUpdate DEF ReadForGuard, NoWrite
<1>18. CASE DispatchWorker(i)
  BY <1>18, CommitFrame, StaleWriteFrame, PhaseNames, OutsidePhases DEF
     DispatchWorker
<1>19. CASE ProjectWorkerResult(i)
  <2>1. /\ CopyFrame /\ PcFrame /\ expired \subseteq expired'
        /\ copy[i] # NoCopy /\ copy[i] \in Rows
    BY <1>19, CommitFrame, PhaseNames, OutsidePhases DEF ProjectWorkerResult
  <2>2. RowFrame
    BY <1>19, <2>1, StaleUpdateFrame, StaleWriteFrame, OtherWriteFrame,
       StatusNames
       DEF ProjectWorkerResult
  <2> QED
    BY <2>1, <2>2
<1>20. CASE ObserveTask(i)
  BY <1>20, GoToFrame, PhaseNames, OutsidePhases, OtherWriteFrame,
     CopyFrameUpdate DEF ObserveTask, NoWrite
<1>21. CASE WriteRunFiles(i)
  BY <1>21, CommitFrame, StaleWriteFrame, PhaseNames, OutsidePhases DEF
     WriteRunFiles
<1>22. CASE Finalize(i)
  <2>1. NoWrite \/ \E s \in Statuses : LockedWrite([row EXCEPT !.status = s])
    BY <1>22, StatusNames DEF Finalize
  <2>2. RowFrame
    BY <2>1, OtherWriteFrame, RowUpdates, UpdatesKeepLease DEF TypeOK
  <2> QED
    BY <1>22, <2>2, GoToFrame, PhaseNames, CopyFrameUpdate DEF Finalize
<1> QED
  BY <1>1, <1>2, <1>3, <1>4, <1>5, <1>6, <1>7, <1>8, <1>9, <1>10, <1>11,
     <1>12, <1>13, <1>14, <1>15, <1>16, <1>17, <1>18, <1>19, <1>20, <1>21,
     <1>22 DEF Step

LEMMA MessageFrame ==
    ASSUME TypeOK, NEW m \in Messages, MessageStep(m) \/ PostMessage(m)
    PROVE  Frame
<1> USE DEF Frame
<1>a. m \in Invocations
  BY DEF Invocations
<1>1. CASE RecordMessage(m)
  <2>1. /\ CopyFrame /\ PcFrame /\ expired \subseteq expired'
        /\ copy[m] # NoCopy /\ copy[m] \in Rows
    BY <1>1, <1>a, CommitFrame, PhaseNames, OutsidePhases DEF RecordMessage
  <2>2. RowFrame
    BY <1>1, <2>1, <1>a, StaleUpdateFrame
       DEF RecordMessage
  <2> QED
    BY <2>1, <2>2
<1>2. CASE RecordFollowupTrace(m)
  BY <1>2, <1>a, GoToFrame, PhaseNames, OutsidePhases, StaleWriteFrame,
     CopyFrameUpdate DEF RecordFollowupTrace
<1>3. CASE RecordFollowupAnswer(m)
  BY <1>3, <1>a, CommitFrame, StaleWriteFrame, PhaseNames, OutsidePhases DEF
     RecordFollowupAnswer
<1>4. CASE PostMessage(m)
  BY <1>4, <1>a, GoToFrame, PhaseNames, OutsidePhases, OtherWriteFrame,
     CopyFrameUpdate DEF PostMessage, NoWrite
<1> QED
  BY <1>1, <1>2, <1>3, <1>4 DEF MessageStep

LEMMA EnvironmentFrame ==
    ASSUME TypeOK,
           \/ CancelTask
           \/ ProcessCrashes
           \/ \E i \in Invocations : LeaseExpires(i) \/ ToolFails(i)
    PROVE  Frame
<1> USE DEF Frame
<1>1. CASE CancelTask
  BY <1>1, OtherWriteFrame, RowUpdates, UpdatesKeepLease, StatusNames
     DEF CancelTask, CopyFrame, PcFrame, TypeOK
<1>2. CASE ProcessCrashes
  BY <1>2, OtherWriteFrame, OutsidePhases
     DEF ProcessCrashes, CopyFrame, PcFrame, NoWrite
<1>3. ASSUME NEW i \in Invocations, LeaseExpires(i)
      PROVE  Frame
  BY <1>3, OtherWriteFrame DEF LeaseExpires, CopyFrame, PcFrame, NoWrite
<1>4. ASSUME NEW i \in Invocations, ToolFails(i)
      PROVE  Frame
  BY <1>4, OtherWriteFrame, CopyFrameUpdate, GoToFrame, PhaseNames, OutsidePhases
     DEF ToolFails, NoWrite
<1> QED
  BY <1>1, <1>2, <1>3, <1>4

-----------------------------------------------------------------------------
(* Exclusive episodes *)

\* What the lease is for, in the inductive form: a live episode finds its own
\* lease in the row.
OwnLeaseWhileLive ==
    ~staleLease => \A i \in Invocations : Live(i) => row.lease = [st |-> "running", ep |-> i]

LEMMA FrameKeepsExclusion ==
    ASSUME OwnLeaseWhileLive, Frame
    PROVE  OwnLeaseWhileLive'
  BY DEF OwnLeaseWhileLive, Live, Frame, RowFrame, PcFrame

\* A claim needs the lease to be free or lapsed: nobody else is live then.
LEMMA ClaimKeepsExclusion ==
    ASSUME TypeOK, OwnLeaseWhileLive, NEW i \in Invocations, ClaimEpisode(i)
    PROVE  OwnLeaseWhileLive'
<1> SUFFICES ASSUME ~staleLease', NEW j \in Invocations, Live(j)'
             PROVE  row'.lease = [st |-> "running", ep |-> j]
  BY DEF OwnLeaseWhileLive
<1>1. ~staleLease
  BY DEF ClaimEpisode, LockedWrite
<1>2. \A k \in Invocations : ~Live(k)
  <2> SUFFICES ASSUME NEW k \in Invocations, Live(k)
               PROVE  FALSE
    OBVIOUS
  <2>1. row.lease = [st |-> "running", ep |-> k]
    BY <1>1, Zenon DEF OwnLeaseWhileLive
  <2>2. row.lease.st = "running" /\ row.lease.ep = k
    BY <2>1
  <2> QED
    BY <2>2 DEF ClaimEpisode, MayClaim, LeaseActive, Live
<1>3. j = i
  BY <1>2 DEF ClaimEpisode, GoTo, Live, TypeOK
<1> QED
  BY <1>3 DEF ClaimEpisode, LockedWrite, TypeOK, Rows

\* The end of an episode gives up its own lease only, and it is not live then.
LEMMA EndKeepsExclusion ==
    ASSUME TypeOK, OwnLeaseWhileLive, NEW i \in Invocations,
           NEW st \in {"idle", "error"},
           LockedWrite(LeaseEndedBy(i, st)), EndInvocation(i), UNCHANGED expired
    PROVE  OwnLeaseWhileLive'
<1> SUFFICES ASSUME ~staleLease', NEW j \in Invocations, Live(j)'
             PROVE  row'.lease = [st |-> "running", ep |-> j]
  BY DEF OwnLeaseWhileLive
<1>1. j # i /\ Live(j)
  BY OutsidePhases DEF EndInvocation, GoTo, Live, TypeOK
<1>2. row.lease = [st |-> "running", ep |-> j]
  BY <1>1 DEF LockedWrite, OwnLeaseWhileLive
<1>3. row' = row
  BY <1>1, <1>2 DEF LockedWrite, LeaseEndedBy, OwnsLease
<1> QED
  BY <1>2, <1>3

\* As long as no unlocked write has put an old lease back, the episodes of a
\* task exclude each other, however many messages and faults there are.
THEOREM Exclusion == Spec => []ExclusiveUnlessStaleWrite
<1>1. Init => OwnLeaseWhileLive
  BY OutsidePhases DEF Init, OwnLeaseWhileLive, Live
<1>2. TypeOK /\ OwnLeaseWhileLive /\ [Next]_vars => OwnLeaseWhileLive'
  <2> SUFFICES ASSUME TypeOK, OwnLeaseWhileLive, [Next]_vars
               PROVE  OwnLeaseWhileLive'
    OBVIOUS
  <2>1. ASSUME NEW i \in Invocations, Step(i)
        PROVE  OwnLeaseWhileLive'
    <3>1. CASE ClaimEpisode(i)
      BY <3>1, ClaimKeepsExclusion
    <3>2. CASE ReleaseEpisode(i)
      BY <3>2, EndKeepsExclusion DEF ReleaseEpisode
    <3>3. CASE ~ClaimEpisode(i) /\ ~ReleaseEpisode(i)
      BY <2>1, <3>3, StepFrame, FrameKeepsExclusion
    <3> QED
      BY <3>1, <3>2, <3>3
  <2>2. ASSUME NEW i \in Invocations, InvocationFails(i)
        PROVE  OwnLeaseWhileLive'
    BY <2>2, EndKeepsExclusion DEF InvocationFails
  <2>3. ASSUME NEW m \in Messages, MessageStep(m) \/ PostMessage(m)
        PROVE  OwnLeaseWhileLive'
    BY <2>3, MessageFrame, FrameKeepsExclusion
  <2>4. CASE \/ CancelTask
             \/ ProcessCrashes
             \/ \E i \in Invocations : LeaseExpires(i) \/ ToolFails(i)
    BY <2>4, EnvironmentFrame, FrameKeepsExclusion
  <2>5. CASE UNCHANGED vars
    BY <2>5 DEF vars, OwnLeaseWhileLive, Live
  <2> QED
    BY <2>1, <2>2, <2>3, <2>4, <2>5 DEF Next
<1>3. OwnLeaseWhileLive => ExclusiveUnlessStaleWrite
  <2> SUFFICES ASSUME OwnLeaseWhileLive, ~staleLease,
                      NEW i \in Invocations, NEW j \in Invocations,
                      Live(i), Live(j)
               PROVE  i = j
    BY DEF OwnLeaseWhileLive, ExclusiveUnlessStaleWrite
  <2>1. /\ row.lease = [st |-> "running", ep |-> i]
        /\ row.lease = [st |-> "running", ep |-> j]
    BY Zenon DEF OwnLeaseWhileLive
  <2> QED
    BY <2>1
<1> QED
  BY <1>1, <1>2, <1>3, TypeCorrect, PTL DEF Spec

-----------------------------------------------------------------------------
(* Who ends a lease *)

\* A lease that is shown as ended is one of an episode that is over.
Truthful(lease) ==
    lease.st \in {"idle", "error"} =>
        lease.ep \in Invocations /\ pc[lease.ep] = "done"

LEMMA TruthfulRows ==
    LeaseRecordTruthful <=>
        /\ Truthful(row.lease)
        /\ \A j \in Invocations : copy[j] # NoCopy => Truthful(copy[j].lease)
  BY DEF LeaseRecordTruthful, Truthful

LEMMA FrameKeepsTruthful ==
    ASSUME TypeOK, LeaseRecordTruthful, Frame
    PROVE  LeaseRecordTruthful'
<1>1. ASSUME NEW lease, Truthful(lease)
      PROVE  lease.st \in {"idle", "error"} =>
                 lease.ep \in Invocations /\ pc'[lease.ep] = "done"
  BY <1>1 DEF Truthful, Frame, PcFrame
<1>2. Truthful(row.lease)'
  BY <1>1, TruthfulRows DEF Truthful, Frame, RowFrame
<1>3. ASSUME NEW j \in Invocations, copy'[j] # NoCopy
      PROVE  Truthful(copy[j].lease)'
  BY <1>1, <1>3, TruthfulRows DEF Truthful, Frame, CopyFrame
<1>4. (/\ Truthful(row.lease)
       /\ \A j \in Invocations : copy[j] # NoCopy => Truthful(copy[j].lease))'
  BY <1>2, <1>3
<1>5. (LeaseRecordTruthful <=>
        /\ Truthful(row.lease)
        /\ \A j \in Invocations : copy[j] # NoCopy => Truthful(copy[j].lease))'
  BY TruthfulRows, PTL
<1> QED
  BY <1>4, <1>5

LEMMA ClaimKeepsTruthful ==
    ASSUME TypeOK, LeaseRecordTruthful, NEW i \in Invocations, ClaimEpisode(i)
    PROVE  LeaseRecordTruthful'
<1>1. row'.lease.st = "running"
  BY DEF ClaimEpisode, LockedWrite, TypeOK, Rows
<1>2. \A j \in Invocations : pc[j] = "done" => pc'[j] = "done"
  BY DEF ClaimEpisode, GoTo, TypeOK
<1> QED
  BY <1>1, <1>2 DEF ClaimEpisode, LeaseRecordTruthful

LEMMA EndKeepsTruthful ==
    ASSUME TypeOK, LeaseRecordTruthful, NEW i \in Invocations,
           NEW st \in {"idle", "error"},
           LockedWrite(LeaseEndedBy(i, st)), EndInvocation(i)
    PROVE  LeaseRecordTruthful'
<1>1. \A j \in Invocations : pc[j] = "done" \/ j = i => pc'[j] = "done"
  BY DEF EndInvocation, GoTo, TypeOK
<1>2. row'.lease = row.lease \/ row'.lease.ep = i
  BY DEF LockedWrite, LeaseEndedBy, OwnsLease, TypeOK, Rows, Leases
<1>3. \A j \in Invocations : copy'[j] # NoCopy => copy'[j] = copy[j]
  BY DEF EndInvocation, TypeOK
<1> QED
  BY <1>1, <1>2, <1>3 DEF LeaseRecordTruthful

\* No document, in the database or about to be written back, ever shows a
\* lease as ended whose episode still runs.
THEOREM LeaseTruth == Spec => []LeaseRecordTruthful
<1>1. Init => LeaseRecordTruthful
  BY DEF Init, LeaseRecordTruthful
<1>2. TypeOK /\ LeaseRecordTruthful /\ [Next]_vars => LeaseRecordTruthful'
  <2> SUFFICES ASSUME TypeOK, LeaseRecordTruthful, [Next]_vars
               PROVE  LeaseRecordTruthful'
    OBVIOUS
  <2>1. ASSUME NEW i \in Invocations, Step(i)
        PROVE  LeaseRecordTruthful'
    <3>1. CASE ClaimEpisode(i)
      BY <3>1, ClaimKeepsTruthful
    <3>2. CASE ReleaseEpisode(i)
      BY <3>2, EndKeepsTruthful DEF ReleaseEpisode
    <3>3. CASE ~ClaimEpisode(i) /\ ~ReleaseEpisode(i)
      BY <2>1, <3>3, StepFrame, FrameKeepsTruthful
    <3> QED
      BY <3>1, <3>2, <3>3
  <2>2. ASSUME NEW i \in Invocations, InvocationFails(i)
        PROVE  LeaseRecordTruthful'
    BY <2>2, EndKeepsTruthful DEF InvocationFails
  <2>3. ASSUME NEW m \in Messages, MessageStep(m) \/ PostMessage(m)
        PROVE  LeaseRecordTruthful'
    BY <2>3, MessageFrame, FrameKeepsTruthful
  <2>4. CASE \/ CancelTask
             \/ ProcessCrashes
             \/ \E i \in Invocations : LeaseExpires(i) \/ ToolFails(i)
    BY <2>4, EnvironmentFrame, FrameKeepsTruthful
  <2>5. CASE UNCHANGED vars
    BY <2>5 DEF vars, LeaseRecordTruthful
  <2> QED
    BY <2>1, <2>2, <2>3, <2>4, <2>5 DEF Next
<1> QED
  BY <1>1, <1>2, TypeCorrect, PTL DEF Spec

-----------------------------------------------------------------------------
(* A settled task stays as it is *)

LEMMA SettledFrame ==
    ASSUME TypeOK, Settled, CopyFrame, PcFrame, row'.status = row.status
    PROVE  Settled'
  BY DEF Settled, CopyFrame, PcFrame, IsTerminal

\* Of the steps of an invocation without an episode, none changes the row.
LEMMA SettledStep ==
    ASSUME TypeOK, Settled, NEW i \in Invocations, Step(i)
    PROVE  Settled' /\ row'.status = row.status
<1>1. pc[i] \notin EpisodePhases
  BY DEF Settled
<1>2. ~ClaimEpisode(i)
  BY DEF ClaimEpisode, MayClaim, Settled
<1>3. ~ReleaseEpisode(i)
  BY <1>1, PhaseNames DEF ReleaseEpisode
<1>4. ReadRow(i) \/ SkipEpisode(i)
  BY <1>1, <1>2, <1>3, PhaseNames
     DEF Step, ReadForAnswer, ApplyUserMessage, RecheckRunnable, StartMainAgentRun,
         CallTool, EmptyTurn, UseTurn, StopTurn, ProviderError, ExceedTurns,
         RecordToolCall, RecordToolResult, UpdatePlan, RequestClarification,
         PrepareWorkerTask, ReadForGuard, DispatchWorker, ProjectWorkerResult,
         ObserveTask, WriteRunFiles, Finalize, CommitFrom
<1>5. row' = row
  BY <1>4 DEF ReadRow, SkipEpisode, NoWrite
<1> QED
  BY <1>2, <1>3, <1>5, StepFrame, SettledFrame DEF Frame

\* A message writes back a document that has the settled status.
LEMMA SettledMessage ==
    ASSUME TypeOK, Settled, NEW m \in Messages, MessageStep(m) \/ PostMessage(m)
    PROVE  Settled' /\ row'.status = row.status
<1>a. m \in Invocations
  BY DEF Invocations
<1>b. copy[m] # NoCopy => copy[m] \in Rows /\ copy[m].status = row.status
  BY <1>a DEF Settled, TypeOK
<1>1. ASSUME RecordMessage(m)
      PROVE  row'.status = row.status
  <2>1. copy[m] \in Rows /\ copy[m].status = row.status
    BY <1>1, <1>b DEF RecordMessage, CommitFrom
  <2>2. row' = [copy[m] EXCEPT !.msgs = @ \cup {m}]
    BY <1>1 DEF RecordMessage, StaleWrite
  <2> QED
    BY <2>1, <2>2 DEF Rows
<1>2. ASSUME RecordFollowupTrace(m) \/ RecordFollowupAnswer(m)
      PROVE  row'.status = row.status
  BY <1>2, <1>b DEF RecordFollowupTrace, RecordFollowupAnswer, CommitFrom, StaleWrite
<1>3. ASSUME PostMessage(m)
      PROVE  row'.status = row.status
  BY <1>3 DEF PostMessage
<1>4. row'.status = row.status
  BY <1>1, <1>2, <1>3 DEF MessageStep
<1> QED
  BY <1>4, MessageFrame, SettledFrame DEF Frame

LEMMA SettledEnvironment ==
    ASSUME TypeOK, Settled,
           \/ CancelTask
           \/ ProcessCrashes
           \/ \E i \in Invocations :
                 LeaseExpires(i) \/ ToolFails(i) \/ InvocationFails(i)
    PROVE  Settled' /\ row'.status = row.status
<1>1. ~CancelTask
  BY DEF CancelTask, CancelAccepted, Cancellable, Settled, IsTerminal, Terminal
<1>2. CASE ProcessCrashes
  BY <1>2, EnvironmentFrame, SettledFrame DEF ProcessCrashes, Frame
<1>3. ASSUME NEW i \in Invocations, LeaseExpires(i) \/ ToolFails(i)
      PROVE  Settled' /\ row'.status = row.status
  BY <1>3, EnvironmentFrame, SettledFrame DEF LeaseExpires, ToolFails, Frame
<1>4. ASSUME NEW i \in Invocations, InvocationFails(i)
      PROVE  Settled' /\ row'.status = row.status
  <2>1. row'.status = row.status
    BY <1>4 DEF InvocationFails, LockedWrite, LeaseEndedBy, TypeOK, Rows
  <2>2. CopyFrame
    BY <1>4, CopyFrameUpdate DEF InvocationFails, EndInvocation
  <2>3. PcFrame
    BY <1>4, OutsidePhases
       DEF InvocationFails, EndInvocation, GoTo, PcFrame, TypeOK
  <2> QED
    BY <2>1, <2>2, <2>3, SettledFrame
<1> QED
  BY <1>1, <1>2, <1>3, <1>4

\* Nothing reopens a task once it is terminal, no episode runs and no old
\* document of it with another status is about to be written.
THEOREM Finality == Spec => TerminalIsFinal
<1>1. TypeOK /\ [Next]_vars => (Settled => Settled' /\ row'.status = row.status)
  <2> SUFFICES ASSUME TypeOK, [Next]_vars, Settled
               PROVE  Settled' /\ row'.status = row.status
    OBVIOUS
  <2>1. CASE \E i \in Invocations : Step(i)
    BY <2>1, SettledStep
  <2>2. CASE \E m \in Messages : MessageStep(m) \/ PostMessage(m)
    BY <2>2, SettledMessage
  <2>3. CASE \/ CancelTask
             \/ ProcessCrashes
             \/ \E i \in Invocations :
                   LeaseExpires(i) \/ ToolFails(i) \/ InvocationFails(i)
    BY <2>3, SettledEnvironment
  <2>4. CASE UNCHANGED vars
    BY <2>4 DEF vars, Settled, IsTerminal
  <2> QED
    BY <2>1, <2>2, <2>3, <2>4 DEF Next
<1> QED
  BY <1>1, TypeCorrect, PTL DEF Spec, TerminalIsFinal

=============================================================================
