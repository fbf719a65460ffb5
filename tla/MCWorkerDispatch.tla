-------------------------- MODULE MCWorkerDispatch --------------------------
(***************************************************************************)
(* Instances of WorkerDispatch: every worker behind another route, few     *)
(* streams and replies (SubagentReports has many), and the mock alone.     *)
(***************************************************************************)
EXTENDS WorkerDispatch, TLC

CONSTANTS e1, e2

MixedRoute == ("dev" :> "real") @@ ("test" :> "subagent") @@ ("formal" :> "subagent")
              @@ ("repair" :> "mock")
MockRoute == [w \in Workers |-> "mock"]

Good == [entries |-> <<<<"failed", "int", 0>>, <<"total", "int", 1>>, <<"success", "bool", TRUE>>>>,
         listed |-> {}]
Bad == [Good EXCEPT !.entries = <<<<"failed", "int", 1>>>>]

MCStreams == {<<[Event("report") EXCEPT !.report = Good], [Event("code") EXCEPT !.code = "some"]>>,
              <<[Event("report") EXCEPT !.report = Bad]>>}

MCReplies == {Reply("fenced", "word", "passed", <<<<"type", "formal_report">>>>, FALSE),
              Reply("json", "object", "need_clarification", <<>>, TRUE),
              Reply("text", "missing", "passed", <<>>, FALSE)}
=============================================================================
