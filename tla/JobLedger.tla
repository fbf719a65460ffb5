----------------------------- MODULE JobLedger -----------------------------
(***************************************************************************)
(* What the dispatch of workers promises of every job, without episodes,   *)
(* files and rows: it starts once, ends once with one verdict that then    *)
(* stands, and its result is counted in the task once, after it ended and  *)
(* never when the task is closed.  When rows race, results may be lost or  *)
(* come back and a closed task may reopen; still none is invented.         *)
(***************************************************************************)
CONSTANTS Jobs, Verdicts

VARIABLES
    life,    \* [job -> "none", "running" or the verdict it ended with]
    counted, \* jobs whose result the task has taken in
    closed,  \* the task is terminal
    raced    \* rows were written from stale copies

vars == <<life, counted, closed, raced>>

Init == life = [j \in Jobs |-> "none"] /\ counted = {} /\ closed = FALSE /\ raced = FALSE

Ended == {j \in Jobs : life[j] \in Verdicts}

Start(j) ==
    /\ life[j] = "none" /\ life' = [life EXCEPT ![j] = "running"]
    /\ raced' \/ UNCHANGED <<counted, closed>>
    /\ counted' \subseteq Ended
    /\ raced => raced'

End(j, v) ==
    /\ life[j] = "running" /\ life' = [life EXCEPT ![j] = v]
    /\ UNCHANGED <<counted, closed, raced>>

Count(j) ==
    /\ ~closed /\ j \in Ended \ counted
    /\ counted' = counted \union {j}
    /\ UNCHANGED <<life, closed, raced>>

Close == ~closed /\ closed' = TRUE /\ UNCHANGED <<life, counted, raced>>

\* Rows race, or a second episode enters.
Race == raced' = TRUE /\ counted' \subseteq Ended /\ UNCHANGED life

Next ==
    \/ \E j \in Jobs : Start(j) \/ Count(j) \/ \E v \in Verdicts : End(j, v)
    \/ Close \/ Race

Spec == Init /\ [][Next]_vars
=============================================================================
