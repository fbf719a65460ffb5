---------------------------- MODULE WorkerDrafts ----------------------------
(***************************************************************************)
(* Drafts: what a worker answers before the router makes a result of it    *)
(* (mcp/draft.py), and how the subagent client reads one from the events   *)
(* of a remote worker (mcp/subagent_client.py).  No state: the operators   *)
(* are used by SubagentReports, LocalWorkers and WorkerDispatch.           *)
(*                                                                         *)
(* A report is a JSON value whose keys the client guesses.  Here it is     *)
(* [entries, listed].  The entries are those of all its objects, however   *)
(* deep in objects and lists, in the order in which they are searched: an  *)
(* object's own before those of what is nested in it.  An entry is         *)
(* <<key, type, value>>, the type one of "bool", "int" (or a float without *)
(* a fraction), "numeral" (a number as text), "string" (another text) and  *)
(* "other"; a null below the top is no entry, since the search goes on     *)
(* behind it, and one at the top is "other".  listed are the properties    *)
(* that the report lists: the text of their status, or "none", and whether *)
(* they give a reason or a counterexample as text.                         *)
(***************************************************************************)
EXTENDS Naturals, Sequences, FiniteSets, SequencesExt

Workers == {"dev", "test", "formal", "repair"}

NoReport == [entries |-> <<>>, listed |-> {}]

-----------------------------------------------------------------------------
(* Reading a report *)

\* Texts by what the client looks for in them, in lower case: each stands for
\* all texts that have the same part or are the same word.
YesWords == {"true", "yes", "y", "passed", "success", "satisfied"}
NoWords == {"false", "no", "n", "failed", "failure", "unsatisfied"}
AlarmWords == {"failed", "failure", "error", "invalid", "unsatisfied", "violated"}
ProblemWords == {"failed", "failure", "error", "violated", "not_checked", "unknown"}
FineWords == {"pass", "passed", "success", "satisfied"}
SuccessWords == FineWords \union {"unsatisfied", "fixed"}

\* _find_first_key: the first matching key of the first object that has one,
\* whatever the type of its value.  At most one value.
Find(report, keys) ==
    LET at == report.entries
    IN {<<at[i][2], at[i][3]>> : i \in
            {i \in DOMAIN at : at[i][1] \in keys /\ \A k \in 1..(i - 1) : at[k][1] \notin keys}}

Yes(type, value) ==
    \/ type = "bool" /\ value = TRUE
    \/ type = "numeral" /\ value = 1
    \/ type = "string" /\ value \in YesWords

No(type, value) ==
    \/ type = "bool" /\ value = FALSE
    \/ type = "numeral" /\ value = 0
    \/ type = "string" /\ value \in NoWords

\* The signals: a set of at most one value.
BoolSignal(report, keys) ==
    {Yes(v[1], v[2]) : v \in {v \in Find(report, keys) : Yes(v[1], v[2]) \/ No(v[1], v[2])}}
IntSignal(report, keys) ==
    {v[2] : v \in {v \in Find(report, keys) : v[1] \in {"int", "numeral"}}}
StringSignal(report, keys) == {v[2] : v \in {v \in Find(report, keys) : v[1] = "string"}}

Positive(numbers) == \E n \in numbers : n > 0

HasFailureSignal(report) ==
    \/ Positive(IntSignal(report, {"failed", "failed_count", "failed_cases",
                                   "failed_properties", "violations", "error_count"}))
    \/ FALSE \in BoolSignal(report, {"all_passed", "all_satisfied", "success",
                                     "passed", "verified"})
    \/ StringSignal(report, {"status", "result", "outcome", "state"})
           \intersect AlarmWords # {}

TestStatus(report) ==
    LET failed == IntSignal(report, {"failed", "failed_cases", "failure_count", "failed_count"})
        total == IntSignal(report, {"total", "total_cases", "case_count", "cases"})
        passed == IntSignal(report, {"passed", "passed_cases", "passed_count"})
    IN IF /\ ~HasFailureSignal(report)
          /\ \/ TRUE \in BoolSignal(report, {"all_passed", "success", "passed"})
                /\ failed \subseteq {0}
             \/ 0 \in failed /\ Positive(total)
             \/ Positive(total) /\ passed = total
       THEN "passed" ELSE "failed"

\* _formal_property_is_problem: a status without any of the known parts, such as
\* "timeout", is no problem unless the property gives a reason.
Problem(property) ==
    /\ property.status \notin FineWords
    /\ property.status \in ProblemWords \/ property.reason

\* Faulty variant: what was not checked is not asked for.
FormalStatusIgnoringUnchecked(report) ==
    LET failed == IntSignal(report, {"failed_properties", "violated_properties",
                                     "failed", "violations"})
    IN IF Positive(failed) \/ FALSE \in BoolSignal(report, {"all_satisfied"})
       THEN "failed" ELSE "passed"

FormalStatus(report) ==
    LET failed == IntSignal(report, {"failed_properties", "violated_properties",
                                     "failed", "violations"})
        unchecked == IntSignal(report, {"not_checked", "not_checked_properties",
                                        "unknown_properties", "unknown"})
        satisfied == BoolSignal(report, {"all_satisfied", "verified", "success", "passed"})
        total == IntSignal(report, {"total_properties", "total", "properties_count"})
        passed == IntSignal(report, {"passed_properties", "satisfied_properties", "passed"})
    IN IF /\ ~Positive(failed) /\ ~Positive(unchecked)
          /\ \A property \in report.listed : ~Problem(property)
          /\ FALSE \notin satisfied
          /\ \/ TRUE \in satisfied
             \/ unchecked \subseteq {0} /\ Positive(total) /\ (0 \in failed \/ passed = total)
       THEN "passed" ELSE "failed"

RepairPassed(report) ==
    LET success == BoolSignal(report, {"compilation_success", "compile_success",
                                       "workflow_success", "success", "passed", "fixed"})
        status == StringSignal(report, {"status", "result", "outcome"})
    IN /\ ~HasFailureSignal(report)
       /\ TRUE \in success \/ (success = {} /\ status \intersect SuccessWords # {})

-----------------------------------------------------------------------------
(* Drafts *)

Artifacts == {"requirements", "plc_code", "io_contract", "test_report", "failing_trace",
              "formal_report", "counterexample", "patch", "repair_summary", "worker_log"}

\* A draft: an outcome, files to write in order, whether it asks the user.
Draft(outcome, writes) == [outcome |-> outcome, writes |-> writes, asks |-> FALSE]
Passing(writes) == Draft("passed", writes)
Failing(writes) == Draft("failed", writes)

\* No draft but an exception, by its class; the adapter makes a result of each.
Errors == {"timeout", "connection", "schema", "execution"}
Raised(class) == [outcome |-> class, writes |-> <<>>, asks |-> FALSE]

Required(w) ==
    CASE w = "dev" -> {"requirements", "plc_code", "io_contract"}
      [] w = "test" -> {"test_report"}
      [] w = "formal" -> {"formal_report"}
      [] w = "repair" -> {"repair_summary"}

\* validate_worker_draft_output
Acceptable(w, d) ==
    /\ d.outcome = "passed" => Required(w) \subseteq ToSet(d.writes)
    /\ d.outcome = "need_clarification" => d.asks

-----------------------------------------------------------------------------
(* The request to a remote worker *)

\* A snapshot of a workspace file of so many characters; 0 when it cannot be read.
Snapshot(chars, limit) ==
    CASE chars = 0 -> "missing"
      [] chars \in 1..limit -> "complete"
      [] chars > limit -> "truncated"

\* Tests and proofs are never run on a part of the code, and a proof needs properties.
Sendable(w, snapshot, properties) ==
    /\ w \in {"test", "formal"} => snapshot = "complete"
    /\ w = "formal" => properties

-----------------------------------------------------------------------------
(* From the events of a stream to a draft *)

\* An event: its type, the code it carries ("none", "empty" or "some"), the
\* report it carries and whether that names a counterexample.
Event(type) == [type |-> type, code |-> "none", report |-> NoReport, counterexample |-> FALSE]

Occurs(events, type) == \E i \in DOMAIN events : events[i].type = type
FirstEvent(events, type) == events[SelectInSeq(events, LAMBDA e : e.type = type)]

\* Only the first report and the first code of a stream are read.
ReportOf(events) ==
    IF Occurs(events, "report") THEN FirstEvent(events, "report").report ELSE NoReport
HasCode(events) == Occurs(events, "code") /\ FirstEvent(events, "code").code = "some"

\* No structured event: a failure that keeps whatever text there was.
FallbackDraft(artifact) == Failing(<<artifact>>)

\* Faulty variant: the interface of the code is left out.
DevDraftWithoutContract(events) ==
    IF HasCode(events) THEN Passing(<<"requirements", "plc_code">>)
    ELSE FallbackDraft("worker_log")

DevDraft(events) ==
    IF HasCode(events) THEN Passing(<<"requirements", "plc_code", "io_contract">>)
    ELSE FallbackDraft("worker_log")

TestDraft(events) ==
    IF ~Occurs(events, "report") THEN FallbackDraft("test_report")
    ELSE Draft(TestStatus(ReportOf(events)), <<"test_report">>)

FormalDraft(events) ==
    IF ~Occurs(events, "report") THEN FallbackDraft("formal_report")
    ELSE Draft(FormalStatus(ReportOf(events)),
               IF FirstEvent(events, "report").counterexample
               THEN <<"formal_report", "counterexample">> ELSE <<"formal_report">>)

\* Success is told by the report alone: the code may be missing.
RepairDraft(events) ==
    IF ReportOf(events) = NoReport THEN FallbackDraft("repair_summary")
    ELSE Draft(IF RepairPassed(ReportOf(events)) THEN "passed" ELSE "failed",
               IF HasCode(events) THEN <<"repair_summary", "patch", "plc_code">>
               ELSE <<"repair_summary">>)

\* draft_from_subagent_events
EventsDraft(w, events) ==
    CASE w = "dev" -> DevDraft(events)
      [] w = "test" -> TestDraft(events)
      [] w = "formal" -> FormalDraft(events)
      [] w = "repair" -> RepairDraft(events)

\* Faulty variant: error events are skipped.
DraftDespiteErrors(w, events) ==
    IF Occurs(events, "garbled") THEN Raised("schema") ELSE EventsDraft(w, events)

\* call_worker: data that is no JSON spoils the stream, then an error event
\* decides.  That a stream ends early is not noticed: what has arrived is used.
DraftFrom(w, events) ==
    IF Occurs(events, "garbled") THEN Raised("schema")
    ELSE IF Occurs(events, "error") THEN Raised("execution")
    ELSE EventsDraft(w, events)
=============================================================================
