------------------------- MODULE MCSubagentReports -------------------------
(***************************************************************************)
(* Streams for SubagentReports: truthful reports of two cases or           *)
(* properties under many names and orders of their keys, the reports that  *)
(* the API documentation of the subagents shows, and broken streams.       *)
(***************************************************************************)
EXTENDS SubagentReports

Truths == {[failed |-> f, unchecked |-> u] : f, u \in 0..1}
Checked(t) == 2 - t.failed - t.unchecked

Report(entries, listed) == [entries |-> entries, listed |-> listed]
Reported(r) == [Event("report") EXCEPT !.report = r]
Coded(c) == [Event("code") EXCEPT !.code = c]
Stream(events, t) == [events |-> events, documented |-> FALSE, truth |-> t]
Documented(events, t) == [Stream(events, t) EXCEPT !.documented = TRUE]

\* What a truthful author may put into a report of truth t, nested or not.
TestFacts(t) ==
    {<<"failed", "int", t.failed>>, <<"failed_count", "numeral", t.failed>>,
     <<"total", "int", 2>>, <<"total_cases", "numeral", 2>>,
     <<"passed", "int", Checked(t)>>, <<"passed_cases", "numeral", Checked(t)>>,
     <<"all_passed", "bool", Clean(t)>>, <<"cases", "other", 0>>,
     <<"success", "string", IF Clean(t) THEN "yes" ELSE "no">>,
     <<"status", "string", IF Clean(t) THEN "passed" ELSE "failed">>}
FormalFacts(t) ==
    {<<"failed_properties", "int", t.failed>>, <<"violations", "numeral", t.failed>>,
     <<"total", "int", 2>>, <<"passed", "int", Checked(t)>>,
     <<"satisfied_properties", "numeral", Checked(t)>>, <<"all_satisfied", "bool", Clean(t)>>}

Orders(facts) == {s \in [1..3 -> facts] : \A i, j \in 1..3 : i # j => s[i] # s[j]}

\* Untested cases are not reported as passed: a test has none.
TestTruths == {t \in Truths : t.unchecked = 0}

\* What was not checked is named by a count, beside a property that has run out of
\* time, or by a listed property alone; the statuses are entries as well.
Property(status, reason) == [status |-> status, reason |-> reason]
Counted(t) == IF t.unchecked = 0 THEN <<>>
              ELSE <<<<"not_checked", "numeral", t.unchecked>>, <<"status", "string", "timeout">>>>
CountedAlone(t) == {Property("passed", FALSE)}
    \union (IF t.unchecked = 0 THEN {} ELSE {Property("timeout", FALSE)})
Named(t, status) == IF t.unchecked = 0 THEN <<>> ELSE <<<<"status", "string", status>>>>
Listed(t, status) == {Property("passed", FALSE)}
    \union (IF t.unchecked = 0 THEN {} ELSE {Property(status, status = "error")})

TestReports(t) == {Report(s, {}) : s \in Orders(TestFacts(t))}
FormalReports(t) ==
    {Report(s \o Counted(t), CountedAlone(t)) : s \in Orders(FormalFacts(t))}
    \union {Report(s \o Named(t, status), Listed(t, status)) :
               s \in Orders(FormalFacts(t)), status \in {"not_checked", "error"}}

\* The fuzz and the formal report of the API documentation.
DocumentedTest(t) ==
    Report(<<<<"workflow_success", "bool", TRUE>>, <<"total_test_cases", "int", 2>>,
             <<"passed", "int", Checked(t)>>, <<"failed", "int", t.failed>>>>, {})
DocumentedFormal(t) ==
    Report(<<<<"passed", "int", Checked(t)>>, <<"failed", "int", t.failed>>,
             <<"not_checked", "int", t.unchecked>>>>, {})

Compiled(ok) == Report(<<<<"workflow_success", "bool", ok>>,
                         <<"error_count", "int", IF ok THEN 0 ELSE 1>>>>, {})

T0 == [failed |-> 0, unchecked |-> 0]
Broken == {Stream(<<Reported(Compiled(TRUE)), Coded("some"), Event(b)>>, T0) : b \in {"error", "garbled"}}
          \union {Stream(<<Event("token"), Coded("empty"), Coded("some")>>, T0),
                  Stream(<<Event("error"), Coded("some"), Reported(Compiled(TRUE))>>, T0)}

Streamed(reports, t) == {Stream(<<Event("token"), Reported(r)>>, t) : r \in reports}

MCStreams ==
    [w \in Workers |-> Broken \union
        CASE w = "dev" -> {Stream(<<Event("token"), Coded("some")>>, T0)}
          [] w = "test" -> UNION {Streamed(TestReports(t), t) : t \in TestTruths}
          [] w = "formal" -> UNION {Streamed(FormalReports(t), t) : t \in Truths}
          [] w = "repair" -> {Stream(<<Coded(c), Reported(Compiled(ok))>>, T0) :
                                c \in {"empty", "some"}, ok \in BOOLEAN}]

DocumentedStreams ==
    [w \in Workers |->
        CASE w = "test" -> {Documented(<<Event("token"), Reported(DocumentedTest(t))>>, t) : t \in TestTruths}
          [] w = "formal" -> {Documented(<<Event("token"), Reported(DocumentedFormal(t))>>, t) : t \in Truths}
          [] OTHER -> {Documented(<<Coded("some"), Reported(Compiled(TRUE))>>, T0)}]
=============================================================================
