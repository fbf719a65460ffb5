------------------------ MODULE SubagentReports_proofs ------------------------
(***************************************************************************)
(* Proofs about the subagent client: for every stream a truthful author    *)
(* may send, however its report names and orders the facts and wherever    *)
(* the connection is cut, what the client calls a pass is one.             *)
(***************************************************************************)
EXTENDS SubagentReports, Rankings

-----------------------------------------------------------------------------
(* The draft is the one of the events received. *)

Heard == SubSeq(stream.events, 1, received)

IInv ==
    /\ worker \in Workers
    /\ stream \in Streams[worker]
    /\ received \in 0..Len(stream.events)
    /\ draft \in {NoDraft, DraftFrom(worker, Heard)}

LEMMA StreamFacts ==
  ASSUME NEW w \in Workers, NEW s \in Streams[w]
  PROVE  /\ s.events \in Seq(ToSet(s.events)) /\ Len(s.events) \in Nat
         /\ s.truth.failed \in Nat /\ s.truth.unchecked \in Nat
         /\ \A i \in 1..Len(s.events) :
              /\ s.events[i].report.entries \in Seq(ToSet(s.events[i].report.entries))
              /\ w \in {"test", "formal"} /\ s.events[i].type = "report"
                   => Truthful(w, s.events[i].report, s.truth)
<1>1. s.events \in Seq(ToSet(s.events)) /\ s.truth \in [failed : Nat, unchecked : Nat]
  BY StreamsAssumption
<1>2. Len(s.events) \in Nat /\ \A i \in 1..Len(s.events) : s.events[i] \in ToSet(s.events)
  BY <1>1 DEF ToSet
<1> QED BY <1>1, <1>2, StreamsAssumption

(* The invariant holds in every reachable state. *)
THEOREM Invariance == Spec => []IInv
<1>1. Init => IInv
  BY StreamFacts DEF Init, IInv
<1>2. IInv /\ [Next]_vars => IInv'
  <2> SUFFICES ASSUME IInv, [Next]_vars
               PROVE  IInv'
    OBVIOUS
  <2>0. Len(stream.events) \in Nat
    BY StreamFacts DEF IInv
  <2>1. CASE ReceiveEvent
    BY <2>0, <2>1 DEF IInv, ReceiveEvent
  <2>2. CASE StreamEnds
    BY <2>2 DEF IInv, StreamEnds, Heard
  <2>3. CASE UNCHANGED vars
    BY <2>3 DEF IInv, vars, Heard
  <2> QED BY <2>1, <2>2, <2>3 DEF Next
<1> QED BY <1>1, <1>2, PTL DEF Spec

-----------------------------------------------------------------------------
(* What a draft may be. *)

LEMMA Outcomes ==
  ASSUME NEW w \in Workers, NEW events
  PROVE  DraftFrom(w, events).outcome \in {"passed", "failed"} \cup Errors
<1>1. {"schema", "execution"} \subseteq Errors
  BY DEF Errors
<1>2. \A report : TestStatus(report) \in {"passed", "failed"}
  BY DEF TestStatus
<1>3. \A report : FormalStatus(report) \in {"passed", "failed"}
  BY DEF FormalStatus
<1>4. \A outcome, writes : Draft(outcome, writes).outcome = outcome
  BY DEF Draft
<1>5. \A class : Raised(class).outcome = class
  BY DEF Raised
<1>6. DevDraft(events).outcome \in {"passed", "failed"}
  BY <1>4 DEF DevDraft, FallbackDraft, Passing, Failing
<1>7. TestDraft(events).outcome \in {"passed", "failed"}
  BY <1>2, <1>4 DEF TestDraft, FallbackDraft, Failing
<1>8. FormalDraft(events).outcome \in {"passed", "failed"}
  <2> DEFINE writes == IF FirstEvent(events, "report").counterexample
                       THEN <<"formal_report", "counterexample">> ELSE <<"formal_report">>
  <2>1. FormalDraft(events) = IF ~Occurs(events, "report") THEN Failing(<<"formal_report">>)
                              ELSE Draft(FormalStatus(ReportOf(events)), writes)
    BY DEF FormalDraft, FallbackDraft
  <2> HIDE DEF writes
  <2> QED BY <1>3, <1>4, <2>1 DEF Failing
<1>9. RepairDraft(events).outcome \in {"passed", "failed"}
  <2> DEFINE verdict == IF RepairPassed(ReportOf(events)) THEN "passed" ELSE "failed"
             writes == IF HasCode(events) THEN <<"repair_summary", "patch", "plc_code">>
                       ELSE <<"repair_summary">>
  <2>1. RepairDraft(events) = IF ReportOf(events) = NoReport THEN Failing(<<"repair_summary">>)
                              ELSE Draft(verdict, writes)
    BY DEF RepairDraft, FallbackDraft
  <2>2. verdict \in {"passed", "failed"}
    OBVIOUS
  <2> HIDE DEF verdict, writes
  <2> QED BY <1>4, <2>1, <2>2 DEF Failing
<1>10. EventsDraft(w, events).outcome \in {"passed", "failed"}
  BY <1>6, <1>7, <1>8, <1>9 DEF EventsDraft, Workers
<1> QED BY <1>1, <1>5, <1>10 DEF DraftFrom

(* In every reachable state the worker, its stream and the draft are what    *)
(* call_worker may have in hand: a verdict or a class of exception.          *)
THEOREM TypesHold == Spec => []TypeOK
<1>1. IInv => TypeOK
  <2> SUFFICES ASSUME IInv
               PROVE  draft.outcome \in {"none", "passed", "failed"} \cup Errors
    BY DEF IInv, TypeOK
  <2>1. NoDraft.outcome = "none"
    BY DEF NoDraft, Raised
  <2> QED BY <2>1, Outcomes DEF IInv
<1> QED BY <1>1, Invariance, PTL

(* No event after an error, or after data that is no JSON, makes a pass of   *)
(* it, and none before it (_first_error_event reads the whole stream).       *)
THEOREM ErrorsAreFinal == Spec => []ErrorsDecide
<1>1. IInv => ErrorsDecide
  <2> SUFFICES ASSUME IInv, NEW i \in 1..received,
                      stream.events[i].type \in {"error", "garbled"}
               PROVE  draft.outcome # "passed"
    BY DEF ErrorsDecide
  <2>1. stream.events \in Seq(ToSet(stream.events)) /\ Len(stream.events) \in Nat
    BY StreamFacts DEF IInv
  <2>2. i \in DOMAIN Heard /\ Heard[i] = stream.events[i]
    BY <2>1 DEF IInv, Heard
  <2>3. Occurs(Heard, "garbled") \/ Occurs(Heard, "error")
    BY <2>2 DEF Occurs
  <2>4. DraftFrom(worker, Heard) \in {Raised("schema"), Raised("execution")}
    BY <2>3 DEF DraftFrom
  <2> QED BY <2>4 DEF IInv, NoDraft, Raised
<1> QED BY <1>1, Invariance, PTL

-----------------------------------------------------------------------------
(* A pass has its files. *)

LEMMA WrittenSets ==
  /\ ToSet(<<"requirements", "plc_code", "io_contract">>)
       = {"requirements", "plc_code", "io_contract"}
  /\ ToSet(<<"test_report">>) = {"test_report"}
  /\ ToSet(<<"formal_report">>) = {"formal_report"}
  /\ ToSet(<<"formal_report", "counterexample">>) = {"formal_report", "counterexample"}
  /\ ToSet(<<"repair_summary">>) = {"repair_summary"}
  /\ ToSet(<<"repair_summary", "patch", "plc_code">>)
       = {"repair_summary", "patch", "plc_code"}
<1>1. \A a, b, c : ToSet(<<a, b, c>>) = {a, b, c}
  <2> SUFFICES ASSUME NEW a, NEW b, NEW c
               PROVE  ToSet(<<a, b, c>>) = {a, b, c}
    OBVIOUS
  <2>1. DOMAIN <<a, b, c>> = {1, 2, 3}
    OBVIOUS
  <2> QED BY <2>1 DEF ToSet
<1>2. \A a, b : ToSet(<<a, b>>) = {a, b}
  <2> SUFFICES ASSUME NEW a, NEW b
               PROVE  ToSet(<<a, b>>) = {a, b}
    OBVIOUS
  <2>1. DOMAIN <<a, b>> = {1, 2}
    OBVIOUS
  <2> QED BY <2>1 DEF ToSet
<1>3. \A a : ToSet(<<a>>) = {a}
  BY DEF ToSet
<1> QED BY <1>1, <1>2, <1>3

(* A draft that is a pass, of any worker and of any events. *)
LEMMA PassesDeliver ==
  ASSUME NEW w \in Workers, NEW events, DraftFrom(w, events).outcome = "passed"
  PROVE  /\ Required(w) \subseteq ToSet(DraftFrom(w, events).writes)
         /\ w = "test" => Occurs(events, "report") /\ TestStatus(ReportOf(events)) = "passed"
         /\ w = "formal" => Occurs(events, "report") /\ FormalStatus(ReportOf(events)) = "passed"
<1> DEFINE d == EventsDraft(w, events)
<1>1. DraftFrom(w, events) = d
  BY DEF DraftFrom, Raised
<1> HIDE DEF d
<1>2. d.outcome = "passed"
  BY <1>1
<1>3. \A outcome, writes : /\ Draft(outcome, writes).outcome = outcome
                           /\ Draft(outcome, writes).writes = writes
  BY DEF Draft
<1>4. \A writes : Failing(writes).outcome = "failed"
  BY <1>3 DEF Failing
<1>5. CASE w = "dev"
  <2>1. d = DevDraft(events)
    BY <1>5 DEF d, EventsDraft
  <2>2. d.writes = <<"requirements", "plc_code", "io_contract">>
    BY <1>2, <1>3, <1>4, <2>1 DEF DevDraft, FallbackDraft, Passing
  <2>3. Required(w) = {"requirements", "plc_code", "io_contract"}
    BY <1>5 DEF Required
  <2> QED BY <1>1, <1>5, <2>2, <2>3, WrittenSets
<1>6. CASE w = "test"
  <2>1. d = TestDraft(events)
    BY <1>6 DEF d, EventsDraft
  <2>2. /\ d.writes = <<"test_report">>
        /\ Occurs(events, "report") /\ TestStatus(ReportOf(events)) = "passed"
    BY <1>2, <1>3, <1>4, <2>1 DEF TestDraft, FallbackDraft
  <2>3. Required(w) = {"test_report"}
    BY <1>6 DEF Required
  <2> QED BY <1>1, <1>6, <2>2, <2>3, WrittenSets
<1>7. CASE w = "formal"
  <2> DEFINE writes == IF FirstEvent(events, "report").counterexample
                       THEN <<"formal_report", "counterexample">> ELSE <<"formal_report">>
  <2>1. d = IF ~Occurs(events, "report") THEN Failing(<<"formal_report">>)
            ELSE Draft(FormalStatus(ReportOf(events)), writes)
    BY <1>7 DEF d, EventsDraft, FormalDraft, FallbackDraft
  <2>2. "formal_report" \in ToSet(writes)
    BY WrittenSets
  <2> HIDE DEF writes
  <2>3. /\ d.writes = writes
        /\ Occurs(events, "report") /\ FormalStatus(ReportOf(events)) = "passed"
    BY <1>2, <1>3, <1>4, <2>1
  <2>4. Required(w) = {"formal_report"}
    BY <1>7 DEF Required
  <2> QED BY <1>1, <1>7, <2>2, <2>3, <2>4
<1>8. CASE w = "repair"
  <2> DEFINE verdict == IF RepairPassed(ReportOf(events)) THEN "passed" ELSE "failed"
             writes == IF HasCode(events) THEN <<"repair_summary", "patch", "plc_code">>
                       ELSE <<"repair_summary">>
  <2>1. d = IF ReportOf(events) = NoReport THEN Failing(<<"repair_summary">>)
            ELSE Draft(verdict, writes)
    BY <1>8 DEF d, EventsDraft, RepairDraft, FallbackDraft
  <2>2. "repair_summary" \in ToSet(writes)
    BY WrittenSets
  <2> HIDE DEF verdict, writes
  <2>3. d.writes = writes
    BY <1>2, <1>3, <1>4, <2>1
  <2>4. Required(w) = {"repair_summary"}
    BY <1>8 DEF Required
  <2> QED BY <1>1, <1>8, <2>2, <2>3, <2>4
<1> QED BY <1>5, <1>6, <1>7, <1>8 DEF Workers

(* A pass has every file that validate_worker_draft_output asks for, so that *)
(* no stream makes the adapter refuse what the client accepted.              *)
THEOREM PassesAreAccepted == Spec => []PassIsAcceptable
<1>1. IInv => PassIsAcceptable
  <2> SUFFICES ASSUME IInv, draft.outcome = "passed"
               PROVE  Required(worker) \subseteq ToSet(draft.writes)
    BY DEF PassIsAcceptable, Acceptable
  <2>1. draft = DraftFrom(worker, Heard)
    BY DEF IInv, NoDraft, Raised
  <2> QED BY <2>1, PassesDeliver DEF IInv
<1> QED BY <1>1, Invariance, PTL

-----------------------------------------------------------------------------
(* Reading a truthful report. *)

(* What is found was said, and under one of the keys looked for. *)
LEMMA FoundWasSaid ==
  ASSUME NEW report, NEW keys, NEW v \in Find(report, keys)
  PROVE  \E e \in Entries(report) : e[1] \in keys /\ e[2] = v[1] /\ e[3] = v[2]
<1> DEFINE at == report.entries
<1>1. PICK i \in DOMAIN at : at[i][1] \in keys /\ v = <<at[i][2], at[i][3]>>
  BY DEF Find
<1>2. at[i] \in Entries(report)
  BY <1>1 DEF Entries, ToSet
<1> QED BY <1>1, <1>2

(* A key that the report has is found: the first of its entries under one of *)
(* the keys, whatever their order.                                           *)
LEMMA SaidIsFound ==
  ASSUME NEW report, NEW keys, report.entries \in Seq(ToSet(report.entries)),
         NEW e \in Entries(report), e[1] \in keys
  PROVE  Find(report, keys) # {}
<1> DEFINE at == report.entries
           T == {i \in DOMAIN at : at[i][1] \in keys}
<1>1. DOMAIN at = 1..Len(at) /\ Len(at) \in Nat
  OBVIOUS
<1>2. T \in SUBSET Nat /\ T # {}
  BY <1>1 DEF Entries, ToSet
<1>3. PICK i \in T : \A k \in T : i <= k
  BY <1>2, Least
<1>4. i \in Nat /\ i <= Len(at)
  BY <1>1, <1>3
<1>5. \A k \in 1..(i - 1) : k \in DOMAIN at /\ ~(i <= k)
  BY <1>1, <1>4
<1>6. \A k \in 1..(i - 1) : at[k][1] \notin keys
  BY <1>3, <1>5
<1> QED BY <1>3, <1>6 DEF Find

(* A number that is found is one of those said; yes is found where it was said. *)
LEMMA SignalsWereSaid ==
  ASSUME NEW report, NEW keys
  PROVE  /\ \A n \in IntSignal(report, keys) : n \in Numbers(report, keys)
         /\ TRUE \in BoolSignal(report, keys) => Affirmed(report, keys)
<1>1. ASSUME NEW n \in IntSignal(report, keys)
      PROVE  n \in Numbers(report, keys)
  <2>1. PICK v \in Find(report, keys) : v[1] \in {"int", "numeral"} /\ v[2] = n
    BY DEF IntSignal
  <2>2. PICK e \in Entries(report) : e[1] \in keys /\ e[2] \in {"int", "numeral"} /\ e[3] = n
    BY <2>1, FoundWasSaid
  <2> QED BY <2>2 DEF Numbers
<1>2. ASSUME TRUE \in BoolSignal(report, keys)
      PROVE  Affirmed(report, keys)
  <2>1. PICK v \in Find(report, keys) : Yes(v[1], v[2])
    BY <1>2 DEF BoolSignal, Yes
  <2>2. PICK e \in Entries(report) : e[1] \in keys /\ e[2] = v[1] /\ e[3] = v[2]
    BY <2>1, FoundWasSaid
  <2> QED BY <2>1, <2>2 DEF Affirmed
<1> QED BY <1>1, <1>2

LEMMA MoreKeys ==
  ASSUME NEW report, NEW keys, NEW more, keys \subseteq more
  PROVE  /\ Numbers(report, keys) \subseteq Numbers(report, more)
         /\ Affirmed(report, keys) => Affirmed(report, more)
BY DEF Numbers, Affirmed

(* A property that is documented as a flaw is a problem to the client. *)
LEMMA FlawsAreProblems ==
  ASSUME NEW property, property.status \in FlawStatuses
  PROVE  Problem(property)
BY DEF FlawStatuses, Problem, FineWords, ProblemWords

(* Three ways to tell a pass from what a truthful report says. *)
LEMMA TruthOfSignals ==
  ASSUME NEW w, NEW report, NEW truth \in [failed : Nat, unchecked : Nat],
         Truthful(w, report, truth), NEW keys
  PROVE  /\ keys \subseteq SuccessKeys /\ TRUE \in BoolSignal(report, keys) => Clean(truth)
         /\ keys \subseteq FailedKeys /\ 0 \in IntSignal(report, keys) => truth.failed = 0
         /\ \A others :
              (/\ keys \subseteq TotalKeys /\ others \subseteq PassedKeys
               /\ Positive(IntSignal(report, keys))
               /\ IntSignal(report, others) = IntSignal(report, keys)) => Clean(truth)
<1>1. ASSUME keys \subseteq SuccessKeys, TRUE \in BoolSignal(report, keys)
      PROVE  Clean(truth)
  <2>1. Affirmed(report, SuccessKeys)
    BY <1>1, SignalsWereSaid, MoreKeys
  <2> QED BY <2>1 DEF Truthful
<1>2. ASSUME keys \subseteq FailedKeys, 0 \in IntSignal(report, keys)
      PROVE  truth.failed = 0
  <2>1. 0 \in Numbers(report, FailedKeys)
    BY <1>2, SignalsWereSaid, MoreKeys
  <2> QED BY <2>1 DEF Truthful
<1>3. ASSUME NEW others, keys \subseteq TotalKeys, others \subseteq PassedKeys,
             Positive(IntSignal(report, keys)),
             IntSignal(report, others) = IntSignal(report, keys)
      PROVE  Clean(truth)
  <2>1. PICK n \in IntSignal(report, keys) : n > 0
    BY <1>3 DEF Positive
  <2>2. n \in Numbers(report, TotalKeys)
    BY <1>3, SignalsWereSaid, MoreKeys
  <2>3. n \in Numbers(report, PassedKeys)
    <3>1. n \in IntSignal(report, others)
      BY <1>3
    <3> QED BY <1>3, <3>1, SignalsWereSaid, MoreKeys
  <2>4. n \in Nat /\ n + truth.failed + truth.unchecked <= n
    BY <2>2, <2>3 DEF Truthful
  <2>5. truth.failed \in Nat /\ truth.unchecked \in Nat
    OBVIOUS
  <2> QED BY <2>4, <2>5 DEF Clean
<1> QED BY <1>1, <1>2, <1>3

LEMMA TestPassesAreTrue ==
  ASSUME NEW report, NEW truth \in [failed : Nat, unchecked : Nat],
         Truthful("test", report, truth), TestStatus(report) = "passed"
  PROVE  Clean(truth)
<1> DEFINE failed == {"failed", "failed_cases", "failure_count", "failed_count"}
           total == {"total", "total_cases", "case_count", "cases"}
           passed == {"passed", "passed_cases", "passed_count"}
           success == {"all_passed", "success", "passed"}
<1>1. \/ TRUE \in BoolSignal(report, success)
      \/ 0 \in IntSignal(report, failed)
      \/ Positive(IntSignal(report, total)) /\ IntSignal(report, passed) = IntSignal(report, total)
  BY DEF TestStatus
<1>2. /\ failed \subseteq FailedKeys /\ total \subseteq TotalKeys
      /\ passed \subseteq PassedKeys /\ success \subseteq SuccessKeys
  BY DEF FailedKeys, TotalKeys, PassedKeys, SuccessKeys
<1>3. truth.failed \in Nat /\ truth.unchecked \in Nat /\ truth.unchecked = 0
  BY DEF Truthful
<1> HIDE DEF failed, total, passed, success
<1>4. CASE TRUE \in BoolSignal(report, success)
  BY <1>2, <1>4, TruthOfSignals
<1>5. CASE 0 \in IntSignal(report, failed)
  <2>1. truth.failed = 0
    BY <1>2, <1>5, TruthOfSignals
  <2> QED BY <1>3, <2>1 DEF Clean
<1>6. CASE Positive(IntSignal(report, total)) /\ IntSignal(report, passed) = IntSignal(report, total)
  BY <1>2, <1>6, TruthOfSignals
<1> QED BY <1>1, <1>4, <1>5, <1>6

LEMMA FormalPassesAreTrue ==
  ASSUME NEW report, NEW truth \in [failed : Nat, unchecked : Nat],
         report.entries \in Seq(ToSet(report.entries)),
         Truthful("formal", report, truth), FormalStatus(report) = "passed"
  PROVE  Clean(truth)
<1> DEFINE failed == {"failed_properties", "violated_properties", "failed", "violations"}
           unchecked == UncheckedKeys
           satisfied == {"all_satisfied", "verified", "success", "passed"}
           total == {"total_properties", "total", "properties_count"}
           passed == {"passed_properties", "satisfied_properties", "passed"}
<1>1. /\ \A property \in report.listed : ~Problem(property)
      /\ \/ TRUE \in BoolSignal(report, satisfied)
         \/ /\ IntSignal(report, unchecked) \subseteq {0} /\ Positive(IntSignal(report, total))
            /\ \/ 0 \in IntSignal(report, failed)
               \/ IntSignal(report, passed) = IntSignal(report, total)
  BY DEF FormalStatus, UncheckedKeys
<1>2. /\ failed \subseteq FailedKeys /\ total \subseteq TotalKeys
      /\ passed \subseteq PassedKeys /\ satisfied \subseteq SuccessKeys
  BY DEF FailedKeys, TotalKeys, PassedKeys, SuccessKeys
<1> HIDE DEF failed, satisfied, total, passed
<1>3. truth.failed \in Nat /\ truth.unchecked \in Nat
  OBVIOUS
<1>4. CASE TRUE \in BoolSignal(report, satisfied)
  BY <1>2, <1>4, TruthOfSignals
<1>5. CASE /\ Positive(IntSignal(report, total))
           /\ IntSignal(report, passed) = IntSignal(report, total)
  BY <1>2, <1>5, TruthOfSignals
<1>6. CASE IntSignal(report, unchecked) \subseteq {0} /\ 0 \in IntSignal(report, failed)
  <2>1. truth.failed = 0
    BY <1>2, <1>6, TruthOfSignals
  <2>2. ASSUME truth.unchecked > 0
        PROVE  FALSE
    <3>1. PICK e \in Entries(report) : e[1] \in UncheckedKeys
      BY <1>1, <2>2, FlawsAreProblems DEF Truthful
    <3>2. PICK v : v \in Find(report, UncheckedKeys)
      BY <3>1, SaidIsFound
    <3>3. PICK f \in Entries(report) : f[1] \in UncheckedKeys /\ f[2] = v[1] /\ f[3] = v[2]
      BY <3>2, FoundWasSaid
    <3>4. f[2] \in {"int", "numeral"} /\ (f[3] = 0 => truth.unchecked = 0)
      BY <3>3 DEF Truthful
    <3>5. v[2] \in IntSignal(report, UncheckedKeys)
      BY <3>2, <3>3, <3>4 DEF IntSignal
    <3> QED BY <1>3, <1>6, <2>2, <3>3, <3>4, <3>5
  <2> QED BY <1>3, <2>1, <2>2 DEF Clean
<1> QED BY <1>1, <1>4, <1>5, <1>6

(* The first report of a stream is one of its events. *)
LEMMA FirstOfType ==
  ASSUME NEW events, events \in Seq(ToSet(events)), NEW type, Occurs(events, type)
  PROVE  \E i \in 1..Len(events) : FirstEvent(events, type) = events[i] /\ events[i].type = type
<1> DEFINE T == {i \in 1..Len(events) : events[i].type = type}
<1>1. DOMAIN events = 1..Len(events) /\ Len(events) \in Nat
  OBVIOUS
<1>2. T \in SUBSET Nat /\ T # {}
  BY <1>1 DEF Occurs
<1>3. \E x \in T : \A y \in T : x <= y
  BY <1>2, Least
<1>4. Min(T) \in T
  BY <1>3 DEF Min
<1>5. FirstEvent(events, type) = events[Min(T)]
  BY <1>2 DEF FirstEvent, SelectInSeq
<1> QED BY <1>4, <1>5

(* No truthful report of a failed, or of an unchecked, case or property is   *)
(* read as a pass by _test_status or _formal_status, for any number of       *)
(* entries under any keys, in any order and depth, as numbers or as text.    *)
THEOREM PassesAreTrue == Spec => []NoFalsePass
<1>1. IInv => NoFalsePass
  <2> SUFFICES ASSUME IInv, worker \in {"test", "formal"}, draft.outcome = "passed"
               PROVE  Clean(stream.truth)
    BY DEF NoFalsePass
  <2>1. draft = DraftFrom(worker, Heard)
    BY DEF IInv, NoDraft, Raised
  <2>2. /\ Occurs(Heard, "report")
        /\ worker = "test" => TestStatus(ReportOf(Heard)) = "passed"
        /\ worker = "formal" => FormalStatus(ReportOf(Heard)) = "passed"
    BY <2>1, PassesDeliver DEF IInv
  <2>3. stream.events \in Seq(ToSet(stream.events)) /\ Len(stream.events) \in Nat
    BY StreamFacts DEF IInv
  <2>4. /\ Heard \in Seq(ToSet(stream.events)) /\ Len(Heard) = received
        /\ \A i \in 1..received : Heard[i] = stream.events[i] /\ i \in 1..Len(stream.events)
    BY <2>3 DEF IInv, Heard
  <2>5. Heard \in Seq(ToSet(Heard))
    BY <2>4 DEF ToSet
  <2>6. PICK i \in 1..Len(Heard) :
          FirstEvent(Heard, "report") = Heard[i] /\ Heard[i].type = "report"
    BY <2>2, <2>5, FirstOfType
  <2> DEFINE report == ReportOf(Heard)
  <2>7. /\ report = stream.events[i].report /\ stream.events[i].type = "report"
        /\ i \in 1..Len(stream.events)
    BY <2>2, <2>4, <2>6 DEF ReportOf
  <2>8. /\ Truthful(worker, report, stream.truth)
        /\ report.entries \in Seq(ToSet(report.entries))
    BY <2>7, StreamFacts DEF IInv
  <2>9. stream.truth \in [failed : Nat, unchecked : Nat]
    BY StreamsAssumption DEF IInv
  <2> QED BY <2>2, <2>8, <2>9, TestPassesAreTrue, FormalPassesAreTrue
<1> QED BY <1>1, Invariance, PTL
=============================================================================
