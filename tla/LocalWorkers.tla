---------------------------- MODULE LocalWorkers ----------------------------
(***************************************************************************)
(* The two workers of the repository itself: the deterministic mock        *)
(* (mcp/mock_worker.py) and the one that asks a language model             *)
(* (mcp/llm_worker.py), which runs in a server of its own (mcp/server.py)  *)
(* and is called through the MCP client (mcp/client.py).                   *)
(***************************************************************************)
EXTENDS WorkerDrafts

-----------------------------------------------------------------------------
(* The mock: a scenario and the version in the path of the code decide *)

MockDev == Passing(<<"requirements", "plc_code", "io_contract">>)
MockTestPassed == Passing(<<"test_report">>)
MockTestFailed == Failing(<<"test_report", "failing_trace">>)
MockFormalPassed == Passing(<<"formal_report">>)
MockFormalFailed == Failing(<<"formal_report", "counterexample">>)
MockRepair == Passing(<<"patch", "plc_code", "repair_summary">>)
MockClarification == [Draft("need_clarification", <<>>) EXCEPT !.asks = TRUE]

\* _path_version: 1 unless the path names a version.
PathVersion(named) == IF named = {} THEN 1 ELSE Max(named)

MockTest(scenario, version) ==
    IF \/ scenario = "test_failed_repair_exhausted"
       \/ scenario = "test_failed_then_repair_pass" /\ version <= 1
    THEN MockTestFailed ELSE MockTestPassed

MockFormal(scenario, version) ==
    IF scenario = "formal_failed_then_repair_pass" /\ version <= 1
    THEN MockFormalFailed ELSE MockFormalPassed

\* run_mock_worker
Mock(w, scenario, version) ==
    CASE scenario = "worker_timeout" -> Raised("timeout")
      [] scenario = "need_clarification" -> MockClarification
      [] OTHER -> CASE w = "dev" -> MockDev
                    [] w = "test" -> MockTest(scenario, version)
                    [] w = "formal" -> MockFormal(scenario, version)
                    [] w = "repair" -> MockRepair

-----------------------------------------------------------------------------
(* The language model's worker *)

\* A reply of the model: its form ("text" that is no JSON object, "fenced" or
\* bare "json"), how it states the outcome ("object", "word" or "missing"), the
\* outcome, its writes <<key that names the type, type>>, and whether it asks.
Reply(form, states, outcome, writes, asks) ==
    [form |-> form, states |-> states, outcome |-> outcome, writes |-> writes, asks |-> asks]

\* _normalize_common_llm_output_shape: a fence is stripped, a word becomes an
\* outcome, the type of a write may stand under "type".
Normalized(reply) ==
    [reply EXCEPT !.form = IF @ = "fenced" THEN "json" ELSE @,
                  !.states = IF @ = "word" THEN "object" ELSE @,
                  !.writes = [i \in DOMAIN @ |->
                      IF @[i][1] = "type" THEN <<"artifact_type", @[i][2]>> ELSE @[i]]]

\* parse_worker_draft_output
Parses(reply) ==
    /\ reply.form = "json"
    /\ reply.states = "object"
    /\ \A i \in DOMAIN reply.writes : reply.writes[i][1] = "artifact_type"

ParsedDraft(reply) ==
    [Draft(reply.outcome, [i \in DOMAIN reply.writes |-> reply.writes[i][2]])
        EXCEPT !.asks = reply.asks]

\* _fallback_draft_output: a passing draft with files written in advance.
LlmFallback(w) ==
    CASE w = "dev" -> Passing(<<"requirements", "plc_code", "io_contract">>)
      [] w = "test" -> Passing(<<"test_report">>)
      [] w = "formal" -> Passing(<<"formal_report">>)
      [] w = "repair" -> Passing(<<"patch", "plc_code", "repair_summary">>)

\* run_tool
LlmDraft(w, raw) ==
    LET reply == Normalized(raw)
    IN IF Parses(reply) /\ Acceptable(w, ParsedDraft(reply)) THEN ParsedDraft(reply)
       ELSE LlmFallback(w)

\* call_worker_tool and parse_mcp_tool_result: what the call of a tool of the
\* server comes to.  The server is out of reach, too slow, lacks the tool, or its
\* tool raises (no key, provider error); else it answers what run_tool returns.
ServerFaults == {"unreachable", "slow", "no_tool", "tool_error", "no_draft"}
FaultClass(fault) ==
    CASE fault = "slow" -> "timeout"
      [] fault = "unreachable" -> "connection"
      [] fault \in {"no_tool", "tool_error"} -> "execution"
      [] fault = "no_draft" -> "schema"
=============================================================================
