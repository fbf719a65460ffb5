----------------------------- MODULE MCToolLoop -----------------------------
(* A small instance of ToolLoop: every tool and outcome in two calls, and a
   few tools that interfere with each other in three.                       *)
EXTENDS ToolLoop

Call(tool) == [tool |-> tool, path |-> "reports", arg |-> "auto", dirs |-> FALSE,
               artifact |-> 1, number |-> 0]
At(tool, path, arg) == [Call(tool) EXCEPT !.path = path, !.arg = arg]

Reads ==
  {Call("list_files"), Call("glob"), Call("grep"), Call("git_status"),
   At("read_file", "main.st", "auto"),
   At("read_file", "reports/test_report.json", "auto"),
   At("read_file", "reports/test_report.json", "full"),
   At("read_file", "reports", "auto"), At("read_file", "../outside", "auto")}
Writes ==
  {At("write_file", "main.st", "text"), At("write_file", "main.st", "surrogate"),
   At("write_file", "reports/test_report.json", "long"),
   [At("write_file", "reports/test_report.json", "text") EXCEPT !.dirs = TRUE],
   Call("apply_patch"), Call("exec_command")}
Artifacts ==
  {At("write_artifact", "", "text"), At("write_artifact", "", "bad type"),
   At("register_workspace_file", "main.st", ""),
   At("read_artifact", "", "full"), At("read_artifact", "", "summary"),
   Call("write_final_report")}
Others == {Call("malformed"), Call("unknown"), Call("arguments"), Call("elsewhere")}

EveryTool == Reads \cup Writes \cup Artifacts \cup Others
EveryToolOrThree ==
  {[mode |-> "local_full_access", calls |-> EveryTool, max |-> 2],
   [mode |-> "local_read_only", calls |-> EveryTool, max |-> 1],
   [mode |-> "local_full_access", max |-> 3,
    calls |-> {At("read_file", "main.st", "auto"), Call("grep"),
               At("write_file", "main.st", "text"),
               At("register_workspace_file", "main.st", ""),
               At("read_artifact", "", "full")}]}
=============================================================================
