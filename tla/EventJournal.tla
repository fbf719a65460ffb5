---------------------------- MODULE EventJournal ----------------------------
(***************************************************************************)
(* What the event log promises its readers, without transactions, locks,   *)
(* numbers and streams: a task's log opens with its creation, events are   *)
(* only ever added behind those that are there, a batch enters the log of  *)
(* its task and that of the session in one step and in one order, and a    *)
(* log ends with its deletion.  When a session is deleted, tasks may stay  *)
(* behind; their logs go on without it, and should a new task bring the    *)
(* session back, it tells of them what happens from then on.               *)
(***************************************************************************)
EXTENDS Integers, Sequences

CONSTANTS Tasks, Session, Types, First

VARIABLES
    life,    \* [task or session -> "absent", "there" or "deleted"]
    told,    \* [task -> the types of its events]
    story,   \* the session's log: tasks with the types of their events
    left     \* the tasks that a deletion of the session has left behind

vars == <<life, told, story, left>>

Init ==
    /\ life = [x \in Tasks \union {Session} |-> "absent"]
    /\ told = [t \in Tasks |-> <<>>] /\ story = <<>> /\ left = {}

Copied(t, batch) == [i \in DOMAIN batch |-> [task |-> t, type |-> batch[i]]]

\* A task makes the session when there is none.
Create(t) ==
    /\ life[t] = "absent"
    /\ life' = [life EXCEPT ![t] = "there", ![Session] = "there"]
    /\ told' = [told EXCEPT ![t] = <<First>>]
    /\ story' = story \o Copied(t, <<First>>)
    /\ UNCHANGED left

\* What a step adds to the log of t.
Added(t) == [i \in 1..(Len(told'[t]) - Len(told[t])) |-> told'[t][Len(told[t]) + i]]

\* Of a task left behind the session may have missed the first n.
Publish(t) ==
    /\ life[t] = "there" /\ UNCHANGED <<life, left>>
    /\ \A i \in DOMAIN Added(t) : Added(t)[i] \in Types \ {First}
    /\ told' = [told EXCEPT ![t] = @ \o Added(t)]
    /\ \E n \in 0..Len(Added(t)) :
         /\ story' = story \o Copied(t, SubSeq(Added(t), n + 1, Len(Added(t))))
         /\ IF life[Session] = "there" THEN n > 0 => t \in left ELSE n = Len(Added(t))

Emptied(gone) == [t \in Tasks |-> IF t \in gone THEN <<>> ELSE told[t]]
Deleted(gone) == [x \in DOMAIN life |-> IF x \in gone THEN "deleted" ELSE life[x]]

\* The session remembers the events of deleted tasks.
DeleteTasks(gone) ==
    /\ \A t \in gone : life[t] = "there"
    /\ life' = Deleted(gone) /\ told' = Emptied(gone)
    /\ UNCHANGED <<story, left>>

DeleteSession(gone) ==
    /\ life[Session] = "there" /\ \A t \in gone : life[t] = "there"
    /\ life' = Deleted(gone \union {Session}) /\ told' = Emptied(gone)
    /\ story' = <<>>
    /\ left' = left \union {t \in Tasks \ gone : life[t] = "there"}

Next ==
    \/ \E t \in Tasks : Create(t) \/ Publish(t)
    \/ \E gone \in SUBSET Tasks : DeleteTasks(gone) \/ DeleteSession(gone)

Spec == Init /\ [][Next]_vars
=============================================================================
