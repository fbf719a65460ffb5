-------------------------- MODULE SubagentReports --------------------------
(***************************************************************************)
(* The subagent client on one stream of events (mcp/subagent_client.py):   *)
(* events arrive, the draft is made when the stream ends.  Every stream    *)
(* knows the truth it reports, so that a verdict can be compared with it.  *)
(***************************************************************************)
EXTENDS WorkerDrafts

CONSTANTS Streams \* [worker -> set of streams the remote API may answer with]

\* A stream: its events, whether its report is the documented one, and what is
\* true of the code: failed and unchecked cases or properties among all.
Clean(truth) == truth.failed = 0 /\ truth.unchecked = 0

\* What a truthful author says of tests or proofs under the keys the client
\* knows.  A value under such a key, at whatever depth and in whatever form, is
\* about the whole run: no failure is concealed, no more is said to have passed
\* than did, and "passed" is no count of 1 written as text, which reads as yes.
\* What was not checked is named by a number, or by a listed property that failed
\* or has one of the other two statuses of the API documentation.
\* Untested cases are not reported: a test has none.
FailedKeys == {"failed", "failed_cases", "failure_count", "failed_count",
               "failed_properties", "violated_properties", "violations"}
UncheckedKeys == {"not_checked", "not_checked_properties", "unknown_properties", "unknown"}
TotalKeys == {"total", "total_cases", "case_count", "cases", "total_properties",
              "properties_count"}
PassedKeys == {"passed", "passed_cases", "passed_count", "passed_properties",
               "satisfied_properties"}
SuccessKeys == {"all_passed", "all_satisfied", "success", "passed", "verified"}

\* The statuses, other than "passed", that the API documentation gives a property.
FlawStatuses == {"failed", "not_checked", "error"}

Entries(report) == ToSet(report.entries)
Numbers(report, keys) ==
    {e[3] : e \in {e \in Entries(report) : e[1] \in keys /\ e[2] \in {"int", "numeral"}}}
Affirmed(report, keys) == \E e \in Entries(report) : e[1] \in keys /\ Yes(e[2], e[3])

Truthful(w, report, truth) ==
    /\ 0 \in Numbers(report, FailedKeys) => truth.failed = 0
    /\ \A all \in Numbers(report, TotalKeys), passed \in Numbers(report, PassedKeys) :
        all \in Nat /\ passed \in Nat /\ passed + truth.failed + truth.unchecked <= all
    /\ Affirmed(report, SuccessKeys) => Clean(truth)
    /\ \A e \in Entries(report) : e[1] \in UncheckedKeys =>
        e[2] \in {"int", "numeral"} /\ e[3] \in Nat /\ (e[3] = 0 => truth.unchecked = 0)
    /\ truth.unchecked > 0 =>
        /\ w = "formal"
        /\ \/ \E e \in Entries(report) : e[1] \in UncheckedKeys
           \/ \E property \in report.listed : property.status \in FlawStatuses

ASSUME StreamsAssumption ==
    \A w \in Workers : \A s \in Streams[w] :
        /\ s.events \in Seq(ToSet(s.events))
        /\ s.truth \in [failed : Nat, unchecked : Nat]
        /\ \A e \in ToSet(s.events) :
            /\ e.report.entries \in Seq(ToSet(e.report.entries))
            /\ w \in {"test", "formal"} /\ e.type = "report" => Truthful(w, e.report, s.truth)

VARIABLES worker, stream, received, draft

NoDraft == Raised("none")

TypeOK ==
    /\ worker \in Workers
    /\ stream \in Streams[worker]
    /\ received \in 0..Len(stream.events)
    /\ draft.outcome \in {"none", "passed", "failed"} \union Errors

-----------------------------------------------------------------------------
vars == <<worker, stream, received, draft>>

Init ==
    /\ worker \in Workers
    /\ stream \in Streams[worker]
    /\ received = 0
    /\ draft = NoDraft

\* parse_sse_events: one more event of the stream.
ReceiveEvent ==
    /\ draft = NoDraft
    /\ received < Len(stream.events)
    /\ received' = received + 1
    /\ UNCHANGED <<worker, stream, draft>>

\* The connection may close after any event; nothing tells a client that reads
\* no end marker whether more was to come.
StreamEnds ==
    /\ draft = NoDraft
    /\ draft' = DraftFrom(worker, SubSeq(stream.events, 1, received))
    /\ UNCHANGED <<worker, stream, received>>

Next == ReceiveEvent \/ StreamEnds

Spec == Init /\ [][Next]_vars

-----------------------------------------------------------------------------
(* Properties *)

\* No truthful report of a flaw is read as a pass, whatever names, order, depth
\* and form its author gave the values and wherever the connection was cut
\* (_test_status, _formal_status, _has_failure_signal guess all of them).  Truthful
\* says what the client relies on: numbers per case, a count of 1 as the text of
\* "passed", or an unchecked property known only by a status that the API
\* documentation does not have ("timeout") would be read as passes.
NoFalsePass ==
    (worker \in {"test", "formal"} /\ draft.outcome = "passed") => Clean(stream.truth)

\* What the client calls a pass has all files the adapter then asks for
\* (_dev_draft, _repair_draft against validate_worker_draft_output).
PassIsAcceptable == draft.outcome = "passed" => Acceptable(worker, draft)

\* Once a flaw was reported, what follows in the stream cannot turn the verdict:
\* an error event or broken data never ends in a pass (_first_error_event).
ErrorsDecide ==
    \A i \in 1..received :
        stream.events[i].type \in {"error", "garbled"} => draft.outcome # "passed"

\* The reports documented for the remote API are understood: a run of all cases
\* or properties without a failure is a pass (_test_status, _formal_status).
DocumentedPassIsAPass ==
    (/\ draft # NoDraft /\ received = Len(stream.events)
     /\ worker \in {"test", "formal"}
     /\ stream.documented /\ Clean(stream.truth)) => draft.outcome = "passed"
=============================================================================
