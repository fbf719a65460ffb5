---------------------------- MODULE MCTaskEvidence ----------------------------
(***************************************************************************)
(* Instances of TaskEvidence: one failure of each kind, a structured-text  *)
(* and an XML code file.  The production tool registry has neither         *)
(* update_plan nor run_parallel_workers, so some violations use None; the  *)
(* passing run calls both.                                                 *)
(***************************************************************************)
EXTENDS TaskEvidence, TLC

CONSTANTS ft, ff, st, xml

MCSource == (ft :> "test") @@ (ff :> "formal")
MCPlans == {[type |-> "development", test |-> "yes", formal |-> "keep"]}
MCBatches == {<<"dev", "test">>}
None == {}
=============================================================================
