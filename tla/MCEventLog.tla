----------------------------- MODULE MCEventLog -----------------------------
(* The small instances of EventLog: transactions that race with nobody
   watching; the same on three tasks, one of which may outlive the session
   and see it created again; a browser that watches what one writer commits;
   and one that watches a session that two writers delete and create again. *)
EXTENDS EventLog

CONSTANTS w1, w2, t1, t2, t3

Of(writers, tasks, types, events, rewrites, seen) ==
  [writers |-> writers, tasks |-> tasks, types |-> types, events |-> events,
   rewrites |-> rewrites, moves |-> seen]
RaceOrWatch ==
  {Of({w1, w2}, {t1, t2}, Types \ {"agent.debug"}, 4, 1, 0),
   Of({w1, w2}, {t1, t2, t3}, {"task.created", "agent.started"}, 4, 0, 0),
   Of({w1}, {t1, t2}, Types, 3, 0, 3),
   Of({w1, w2}, {t1, t2}, {"task.created", "agent.started"}, 2, 0, 2)}
=============================================================================
