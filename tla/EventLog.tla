------------------------------ MODULE EventLog ------------------------------
(***************************************************************************)
(* The event log and its streams: EventRepository.append_event numbers an *)
(* event in its task's log and, in the same transaction, in the log of the *)
(* session (AgentSessionRepository.append_session_event); TaskService and  *)
(* AgentSessionService create and delete the rows the logs hang on; an SSE *)
(* generator polls a log (iter_event_stream, iter_session_event_stream);   *)
(* and the browser's useTaskEvents shows one log, reconnecting and         *)
(* switching between the log of a task and that of the session.            *)
(*                                                                         *)
(* The store is PostgreSQL at READ COMMITTED: a row is locked from its     *)
(* first write (or FOR UPDATE) to the end of the transaction, a            *)
(* transaction's writes are seen by others when it commits, and of two     *)
(* transactions that wait for each other one is rolled back.  One session  *)
(* is modelled: no operation touches the rows of two.                      *)
(***************************************************************************)
EXTENDS Integers, Sequences, SequencesExt, FiniteSets

CONSTANTS
  Tasks,       \* task ids, all of one session
  Session,     \* the id of that session
  None,        \* no task, no stream
  Writers,     \* requests and background threads: one transaction at a time each
  Bounds       \* bounds of a behaviour: its writers, the tasks they create, the types
               \* and the number of the events appended (rolled back ones included),
               \* the whole-row writes by update_task_state, and the moves: reconnect
               \* signals, broken connections and stream switches

Types == {"task.created", "agent.started", "agent.debug", "task.succeeded"}

ASSUME EventLogAssumption ==
  /\ Session \notin Tasks /\ None \notin Tasks \cup {Session}
  /\ Bounds \subseteq [writers : SUBSET Writers, tasks : SUBSET Tasks, types : SUBSET Types,
                      events : Nat, rewrites : Nat, moves : Nat]

VARIABLES
  task,        \* [Tasks -> row]: life, the event_seq column, the version of the state
  session,     \* the agent_sessions row: life, the event_seq column, times inserted
  log,         \* [Tasks -> the events of the task, in insertion order]
  sessionLog,  \* the session's events
  run,         \* [Tasks -> the status column of the task's agent_runs row]
  txn,         \* [Writers -> the open transaction]
  past,        \* history, which no action reads: an insert has met the unique
               \* constraint of a log; a message has carried an old number into the
               \* session's row; the tasks that deletions of the session left behind
  issued,      \* events appended so far, committed or not
  versions,    \* versions given to task states so far
  bound,       \* the bounds of this behaviour
  view,        \* the browser's hook: stream, cursor, events shown, timers
  moves        \* moves of the browser and of the network so far

vars == <<task, session, log, sessionLog, run, txn, past, issued, versions, bound, view, moves>>
rows == <<task, session, log, sessionLog, run>>
store == <<rows, txn, past, issued, versions, bound>>
client == <<bound, view, moves>>
-----------------------------------------------------------------------------
Visible(e) == e.type # "agent.debug"
Terminal(e) == e.type = "task.succeeded"

NoRow == [life |-> "absent", seq |-> 0, version |-> 0]
NoTxn == [op |-> "none", pc |-> "none", task |-> None, found |-> FALSE,
          carry |-> 0, holds |-> {}, row |-> NoRow, rewrote |-> FALSE,
          events |-> <<>>, shared |-> <<>>, run |-> "none", doomed |-> {}]
NoView == [of |-> None, born |-> 0, open |-> FALSE, retry |-> FALSE, closing |-> FALSE,
           cursor |-> 0, shown |-> <<>>, sent |-> 0, wire |-> <<>>]

There(x) == IF x = Session THEN session.life = "there" ELSE task[x].life = "there"
(* Faulty: no FOR UPDATE. *)
FreeAlways(w, x) == TRUE
Free(w, x) == \A v \in Writers \ {w} : x \notin txn[v].holds
Put(w, t) == txn' = [txn EXCEPT ![w] = t]
Rollback(w) == Put(w, NoTxn)

(* The row as the transaction sees it under its lock: its own writes, or what
   is committed.                                                            *)
Current(w) ==
  LET t == txn[w] IN IF t.row.life = "there" THEN t.row ELSE task[t.task]

(* Faulty: a finished run stays finished. *)
RunAfterSticky(status, e) ==
  IF status # "none" /\ e.type = "task.succeeded" THEN "succeeded"
  ELSE IF status = "created" /\ e.type = "agent.started" THEN "running" ELSE status

(* update_run_from_event: which events change the status of a run, if the run
   has a row: that of a task left behind went with the session.             *)
RunAfter(status, e) ==
  IF status = "none" THEN status
  ELSE CASE e.type = "agent.started" -> "running"
         [] e.type = "task.succeeded" -> "succeeded"
         [] OTHER -> status
-----------------------------------------------------------------------------
Init ==
  /\ task = [t \in Tasks |-> NoRow]
  /\ session = [life |-> "absent", seq |-> 0, born |-> 0]
  /\ log = [t \in Tasks |-> <<>>]
  /\ sessionLog = <<>>
  /\ run = [t \in Tasks |-> "none"]
  /\ txn = [w \in Writers |-> NoTxn]
  /\ past = [refused |-> FALSE, carried |-> FALSE, orphans |-> {}]
  /\ issued = 0 /\ versions = 0
  /\ bound \in Bounds
  /\ view = NoView /\ moves = 0

-----------------------------------------------------------------------------
(* Transactions.                                                           *)

(* A new task's row is inserted and held; nobody else knows of it. *)
Created(pc, t) ==
  [NoTxn EXCEPT !.op = "create", !.pc = pc, !.task = t, !.holds = {t},
                !.row = [NoRow EXCEPT !.life = "there"]]
Fresh(w, t) ==
  txn[w] = NoTxn /\ task[t] = NoRow /\ \A v \in Writers : txn[v].task = t => txn[v].op # "create"

(* create_session, which makes the session too: a request without a session
   id gets an id of its own, so no two of them make the one modelled here.  *)
BeginCreate(w, t) ==
  /\ Fresh(w, t) /\ session.life = "absent"
  /\ \A v \in Writers : txn[v].op # "create"
  /\ Put(w, Created("link", t))
  /\ UNCHANGED <<rows, past, issued, versions, client>>

(* append_message: 404 for a session that is gone; then create_task inserts
   the task row.                                                            *)
BeginMessage(w, t) ==
  /\ Fresh(w, t) /\ There(Session)
  /\ Put(w, Created("find", t))
  /\ UNCHANGED <<rows, past, issued, versions, client>>

(* create_task looks the session up once more: when it has been deleted
   meanwhile it is created again, else update_session is called with the
   session that was read.                                                   *)
FindSession(w) ==
  /\ txn[w].pc = "find"
  /\ IF There(Session)
     THEN Put(w, [txn[w] EXCEPT !.pc = "load", !.found = TRUE, !.carry = session.seq])
     ELSE Put(w, [txn[w] EXCEPT !.pc = "link"])
  /\ UNCHANGED <<rows, past, issued, versions, client>>

(* update_session reads the row again, and writes event_seq only when the
   session read before is ahead of it: another one, then, deleted since and
   created again.                                                           *)
Carried(w) == IF txn[w].carry > session.seq THEN txn[w].carry ELSE 0
LoadSession(w) ==
  /\ txn[w].pc = "load"
  /\ IF There(Session)
     THEN /\ Put(w, [txn[w] EXCEPT !.pc = "link", !.carry = Carried(w)])
          /\ past' = [past EXCEPT !.carried = @ \/ Carried(w) > 0]
     ELSE Rollback(w) /\ UNCHANGED past
  /\ UNCHANGED <<rows, issued, versions, client>>

(* The INSERT or UPDATE of the session row waits for its lock: the INSERT
   conflicts with a row that is there (409), the UPDATE finds none when the
   session is gone (StaleDataError).  Then create_run.                      *)
LinkSession(w) ==
  /\ txn[w].pc = "link"
  /\ IF txn[w].found # There(Session) THEN Rollback(w)
     ELSE /\ Free(w, Session)
          /\ Put(w, [txn[w] EXCEPT !.pc = "open", !.holds = @ \cup {Session},
                                   !.run = "created"])
  /\ UNCHANGED <<rows, past, issued, versions, client>>

(* Any operation on an existing task starts by loading its row, unlocked;
   what it loads is read again before it is numbered or compared.           *)
BeginWrite(w, t) ==
  /\ txn[w] = NoTxn /\ There(t)
  /\ Put(w, [NoTxn EXCEPT !.op = "write", !.pc = "open", !.task = t])
  /\ UNCHANGED <<rows, past, issued, versions, client>>

(* Faulty: the column is taken from a state that does not carry it. *)
RewrittenFromState(w, v) == [Current(w) EXCEPT !.version = v, !.seq = 0]

(* update_task_state: SQLAlchemy writes the columns that differ from what it
   loaded.  event_seq is the larger of the row's and the state's, so it is
   not among them and the column stays what the lock holder left there.     *)
Rewritten(w, v) == [Current(w) EXCEPT !.version = v]
Rewrite(w) ==
  /\ txn[w].op = "write" /\ txn[w].pc = "open" /\ ~txn[w].rewrote
  /\ versions < bound.rewrites
  /\ Free(w, txn[w].task)
  /\ IF There(txn[w].task)
     THEN /\ versions' = versions + 1
          /\ Put(w, [txn[w] EXCEPT !.rewrote = TRUE, !.holds = @ \cup {txn[w].task},
                                   !.row = Rewritten(w, versions + 1)])
     ELSE Rollback(w) /\ UNCHANGED versions
  /\ UNCHANGED <<rows, past, issued, client>>

(* append_event, first half: the row is read again under FOR UPDATE with
   populate_existing, numbered one higher and written back whole.  A task
   that is gone raises RepositoryNotFoundError.                             *)
Numbered(w) == [Current(w) EXCEPT !.seq = @ + 1]
AppendEvent(w, type) ==
  /\ txn[w].pc = "open" /\ issued < bound.events
  /\ IF txn[w].op = "create" THEN type = "task.created" /\ txn[w].events = <<>>
                             ELSE type # "task.created"
  /\ Free(w, txn[w].task)
  /\ IF Current(w).life = "there"
     THEN Put(w, [txn[w] EXCEPT !.pc = "session", !.holds = @ \cup {txn[w].task},
                                !.row = Numbered(w),
                                !.events = Append(@, [task |-> txn[w].task, type |-> type,
                                                      seq |-> Numbered(w).seq])])
     ELSE Rollback(w)
  /\ issued' = issued + 1
  /\ UNCHANGED <<rows, past, versions, client>>

(* Faulty: the last event of a transaction is the only one copied. *)
SharedLast(w) ==
  LET e == Last(txn[w].events)
  IN <<[task |-> e.task, type |-> e.type, tseq |-> e.seq, seq |-> session.seq + 1]>>

(* append_event, second half: append_session_event numbers the same event in
   the session, under the lock of the session row, and updates the run, read
   under that lock by its first event; no session, no copy and no waiting.  *)
Shared(w) ==
  LET mine == txn[w].shared
      e == Last(txn[w].events)
      n == IF mine # <<>> THEN Last(mine).seq
           ELSE IF txn[w].carry > 0 THEN txn[w].carry ELSE session.seq
  IN Append(mine, [task |-> e.task, type |-> e.type, tseq |-> e.seq, seq |-> n + 1])
RunRead(w) == IF txn[w].run = "none" THEN run[txn[w].task] ELSE txn[w].run
AppendSessionEvent(w) ==
  /\ txn[w].pc = "session"
  /\ IF There(Session) \/ txn[w].op = "create"
     THEN /\ Free(w, Session)
          /\ Put(w, [txn[w] EXCEPT !.pc = "open", !.holds = @ \cup {Session},
                                   !.shared = Shared(w),
                                   !.run = RunAfter(RunRead(w), Last(txn[w].events))])
     ELSE Put(w, [txn[w] EXCEPT !.pc = "open"])
  /\ UNCHANGED <<rows, past, issued, versions, client>>

(* Faulty: append_event commits before it has copied the event. *)
CompleteHalfway(w) == txn[w].op \in {"create", "write"} /\ txn[w].pc \in {"open", "session"}

(* Nothing is committed between the two halves of append_event. *)
Complete(w) == txn[w].op \in {"create", "write"} /\ txn[w].pc = "open"

(* The commit of a create or a write.  The unique constraints of the logs
   refuse a number that is taken (RepositoryConflictError, rolled back).    *)
Taken(w) ==
  \/ \E e \in ToSet(txn[w].events) : \E f \in ToSet(log[txn[w].task]) : e.seq = f.seq
  \/ \E e \in ToSet(txn[w].shared) : \E f \in ToSet(sessionLog) : e.seq = f.seq
Commit(w) ==
  LET x == txn[w] IN
  /\ Complete(w)
  /\ x.events # <<>> \/ x.rewrote
  /\ Rollback(w)
  /\ past' = [past EXCEPT !.refused = @ \/ Taken(w)]
  /\ IF Taken(w) THEN UNCHANGED rows
     ELSE /\ task' = [task EXCEPT ![x.task] = x.row]
          /\ log' = [log EXCEPT ![x.task] = @ \o x.events]
          /\ sessionLog' = sessionLog \o x.shared
          /\ session' = IF x.shared = <<>> THEN session
                        ELSE [life |-> "there", seq |-> Last(x.shared).seq,
                              born |-> session.born + (IF There(Session) THEN 0 ELSE 1)]
          /\ run' = [run EXCEPT ![x.task] = IF x.run = "none" THEN @ ELSE x.run]
  /\ UNCHANGED <<issued, versions, client>>

(* An exception, or the death of the process, before the commit. *)
Fail(w) ==
  /\ txn[w].op \in {"create", "write"}
  /\ txn[w].events # <<>> \/ txn[w].rewrote
  /\ Rollback(w)
  /\ UNCHANGED <<rows, past, issued, versions, client>>

(* DELETE of a task, and of the session: delete_session lists the tasks
   before it waits for anything.                                            *)
BeginDelete(w, t) ==
  /\ txn[w] = NoTxn /\ There(t)
  /\ Put(w, [NoTxn EXCEPT !.op = "delete_task", !.pc = "delete", !.doomed = {t}])
  /\ UNCHANGED <<rows, past, issued, versions, client>>

BeginDeleteSession(w) ==
  /\ txn[w] = NoTxn /\ There(Session)
  /\ Put(w, [NoTxn EXCEPT !.op = "delete_session", !.pc = "unlink",
                          !.doomed = {t \in Tasks : There(t)}])
  /\ UNCHANGED <<rows, past, issued, versions, client>>

(* delete_session removes the session's events, runs and row first.  A row
   that another transaction has deleted meanwhile is only warned of.        *)
DeleteSessionRow(w) ==
  /\ txn[w].pc = "unlink"
  /\ IF There(Session)
     THEN Free(w, Session) /\ Put(w, [txn[w] EXCEPT !.pc = "delete", !.holds = {Session}])
     ELSE Put(w, [txn[w] EXCEPT !.op = "delete_task", !.pc = "delete"])
  /\ UNCHANGED <<rows, past, issued, versions, client>>

(* delete_task for one task after the other; one that is gone is a 404. *)
DeleteTaskRow(w, t) ==
  /\ txn[w].pc = "delete" /\ t \in txn[w].doomed \ txn[w].holds /\ Free(w, t)
  /\ IF There(t) THEN Put(w, [txn[w] EXCEPT !.holds = @ \cup {t}]) ELSE Rollback(w)
  /\ UNCHANGED <<rows, past, issued, versions, client>>

CommitDelete(w) ==
  LET gone == txn[w].doomed IN
  /\ txn[w].pc = "delete" /\ gone \subseteq txn[w].holds
  /\ task' = [t \in Tasks |-> IF t \in gone THEN [NoRow EXCEPT !.life = "deleted"]
                                            ELSE task[t]]
  /\ log' = [t \in Tasks |-> IF t \in gone THEN <<>> ELSE log[t]]
  /\ IF txn[w].op = "delete_session"
     THEN /\ session' = [session EXCEPT !.life = "deleted", !.seq = 0]
          /\ sessionLog' = <<>>
          /\ run' = [t \in Tasks |-> "none"]
          /\ past' = [past EXCEPT !.orphans = @ \cup {t \in Tasks \ gone : There(t)}]
     ELSE UNCHANGED <<session, sessionLog, run, past>>
  /\ Rollback(w)
  /\ UNCHANGED <<issued, versions, client>>

(* PostgreSQL ends a deadlock by failing one of the transactions in it: a
   session being deleted waits for a task whose event waits for the session. *)
Deadlocked(w, v) ==
  /\ txn[w].pc = "session" /\ Session \in txn[v].holds
  /\ txn[v].pc = "delete" /\ txn[w].holds \cap (txn[v].doomed \ txn[v].holds) # {}
BreakDeadlock(w) ==
  /\ \E v \in Writers : Deadlocked(w, v) \/ Deadlocked(v, w)
  /\ Rollback(w)
  /\ UNCHANGED <<rows, past, issued, versions, client>>

-----------------------------------------------------------------------------
(* Streams and the browser.                                                *)

LogOf(x) == IF x = Session THEN sessionLog ELSE log[x]
(* ORDER BY seq; the hook sorts too. *)
Ordered(S) ==
  CHOOSE s \in [1..Cardinality(S) -> S] : \A i, j \in DOMAIN s : i < j => s[i] < s[j]
After(x, n) ==
  LET found == {e \in ToSet(LogOf(x)) : Visible(e) /\ e.seq > n}
      order == Ordered({e.seq : e \in found})
  IN [k \in DOMAIN order |-> CHOOSE e \in found : e.seq = order[k]]

(* The hook's effects for a new stream: cursor and events are reset, then
   the stream is opened after event 0.                                      *)
Follow(x) ==
  /\ moves < bound.moves /\ view.of # x /\ There(x)
  /\ view' = [NoView EXCEPT !.of = x, !.born = session.born, !.open = TRUE]
  /\ moves' = moves + 1
  /\ UNCHANGED store

(* Faulty: the stream resumes where the server had got to. *)
ReconnectedAfterSent == [view EXCEPT !.open = TRUE, !.retry = FALSE, !.closing = FALSE,
                                     !.wire = <<>>]

(* A changed reconnectSignal (the user sends a message) runs the cleanup and
   connects again after the last event shown.                               *)
Reconnected == [view EXCEPT !.open = TRUE, !.retry = FALSE, !.closing = FALSE,
                            !.sent = view.cursor, !.wire = <<>>]
Signal ==
  /\ moves < bound.moves /\ view.of # None /\ There(view.of)
  /\ view' = Reconnected
  /\ moves' = moves + 1
  /\ UNCHANGED store

(* One poll of the generator: the visible events after its cursor. *)
Poll ==
  /\ view.open /\ There(view.of) /\ After(view.of, view.sent) # <<>>
  /\ LET batch == After(view.of, view.sent) IN
     view' = [view EXCEPT !.wire = @ \o batch, !.sent = Last(batch).seq]
  /\ UNCHANGED <<store, moves>>

(* onEvent: the cursor goes up, the event is shown unless it is, and a
   terminal event on the stream of a task arms the closing timer.           *)
Receive ==
  LET e == Head(view.wire) IN
  /\ view.open /\ view.wire # <<>>
  /\ view' = [view EXCEPT
       !.wire = Tail(@),
       !.cursor = IF e.seq > @ THEN e.seq ELSE @,
       !.shown = IF Contains(@, e.seq) THEN @
                 ELSE Ordered(ToSet(@) \cup {e.seq}),
       !.closing = @ \/ (view.of # Session /\ Terminal(e))]
  /\ UNCHANGED <<store, moves>>

(* Faulty: the old stream is left open; no reconnect is scheduled. *)
BrokenButOpen == [view EXCEPT !.wire = <<>>, !.retry = TRUE]
BrokenForGood == [view EXCEPT !.open = FALSE, !.wire = <<>>]

(* onError: the stream is closed and a reconnect is scheduled.  The server
   ends a stream itself when the task or the session it reads is deleted.   *)
Broken == [view EXCEPT !.open = FALSE, !.wire = <<>>, !.retry = TRUE]
StreamBreaks ==
  /\ view.open
  /\ IF There(view.of) THEN moves < bound.moves /\ moves' = moves + 1 ELSE UNCHANGED moves
  /\ view' = Broken
  /\ UNCHANGED store

(* The reconnect timer; for a stream that is gone the answer is 404 and the
   timer is set again.                                                      *)
Reconnect ==
  /\ view.retry /\ There(view.of)
  /\ view' = [Reconnected EXCEPT !.closing = view.closing]
  /\ UNCHANGED <<store, moves>>

(* The closing timer.  A reconnect that is pending is left to fire. *)
CloseStream ==
  /\ view.closing
  /\ view' = [view EXCEPT !.open = FALSE, !.wire = <<>>, !.closing = FALSE]
  /\ UNCHANGED <<store, moves>>

-----------------------------------------------------------------------------
Progress(w) ==
  \/ FindSession(w) \/ LoadSession(w) \/ LinkSession(w)
  \/ AppendSessionEvent(w)
  \/ Commit(w)
  \/ DeleteSessionRow(w)
  \/ \E t \in Tasks : DeleteTaskRow(w, t)
  \/ CommitDelete(w)
  \/ BreakDeadlock(w)
Transaction(w) ==
  \/ \E t \in bound.tasks : \/ BeginCreate(w, t) \/ BeginMessage(w, t)
                             \/ BeginWrite(w, t) \/ BeginDelete(w, t)
  \/ Rewrite(w)
  \/ \E type \in bound.types : AppendEvent(w, type)
  \/ Fail(w)
  \/ BeginDeleteSession(w)
Browser ==
  \/ \E x \in Tasks \cup {Session} : Follow(x)
  \/ Signal \/ StreamBreaks \/ CloseStream
  \/ Poll \/ Receive \/ Reconnect

Next ==
  \/ \E w \in bound.writers : Progress(w) \/ Transaction(w)
  \/ Browser

Spec == Init /\ [][Next]_vars

(* The generator polls for as long as its connection lives, the browser
   handles what arrives and its timers fire.                                *)
FairSpec == Spec /\ WF_vars(Poll) /\ WF_vars(Receive) /\ WF_vars(Reconnect)
-----------------------------------------------------------------------------
(* Properties.                                                             *)

Statuses == {"none", "created", "running", "succeeded"}
RowType == [life : {"absent", "there", "deleted"}, seq : 0..bound.events,
            version : 0..bound.rewrites]

(* Types: in particular the rows a transaction has written are the rows it
   holds, and the hook waits to reconnect only when no stream is open
   (StreamBreaks closes before it sets the timer).                          *)
TypeOK ==
  /\ task \in [Tasks -> RowType]
  /\ session.life \in {"absent", "there", "deleted"} /\ session.seq \in Nat
  /\ session.born \in Nat /\ (session.born = 0 <=> session.life = "absent")
  /\ run \in [Tasks -> Statuses]
  /\ past \in [refused : BOOLEAN, carried : BOOLEAN, orphans : SUBSET Tasks]
  /\ issued \in 0..bound.events /\ versions \in 0..bound.rewrites /\ moves \in 0..bound.moves
  /\ \A w \in Writers :
       /\ txn[w].row # NoRow => txn[w].task \in txn[w].holds
       /\ txn[w].shared # <<>> => Session \in txn[w].holds
  /\ view.of \in Tasks \cup {Session, None}
  /\ ~(view.open /\ view.retry)

(* Numbers are given without gap or repetition, in a task's log and in the
   session's, whatever runs beside an append, is rolled back or rewrites the
   row: the event_seq column is the number of events, and the n-th event has
   number n.  Every cursor of a stream relies on it.  A session loses this
   only when it is deleted and created again between the two reads of one
   message (create_task, update_session): max then keeps the old number.    *)
Dense(seq, events) ==
  seq = Len(events) /\ \A i \in DOMAIN events : events[i].seq = i
LogsAreDense ==
  /\ \A t \in Tasks : There(t) => Dense(task[t].seq, log[t])
  /\ There(Session) /\ ~past.carried => Dense(session.seq, sessionLog)

(* No event is lost to its number: the unique constraint of a log never
   refuses an append for having raced with another (append_event), unless a
   message has carried an old number into the session.  The one conflict
   left is of two messages that both create a deleted session again.        *)
NoAppendIsRefused == ~past.carried => ~past.refused

(* The session's log is an interleaving of its tasks' logs: each event of a
   task is there once, in the order of the task.  The frontend shows the
   session's stream in place of the tasks'.  Of a task that a deletion of the
   session left behind, it has what came after some point, if the session is
   created again: none between is missing.                                  *)
SessionLogMergesTaskLogs ==
  There(Session) =>
    \A t \in Tasks : There(t) =>
      LET mine == {i \in DOMAIN sessionLog : sessionLog[i].task = t}
      IN /\ \E n \in 0..Len(log[t]) :
              /\ t \notin past.orphans => n = 0
              /\ {<<sessionLog[i].tseq, sessionLog[i].type>> : i \in mine}
                   = {<<log[t][k].seq, log[t][k].type>> : k \in (n + 1)..Len(log[t])}
         /\ \A i, k \in mine : i < k => sessionLog[i].tseq < sessionLog[k].tseq

(* A run says what the last telling event of its task in the session's log
   says, whichever transactions wrote the events and in whatever order they
   committed: the list of sessions shows the run, the workspace the events.
   The run of a task left behind is gone and does not come back.            *)
RunFollowsLog ==
  /\ \A t \in past.orphans : run[t] = "none"
  /\ There(Session) => \A t \in Tasks \ past.orphans : There(t) =>
      LET told == {i \in DOMAIN sessionLog :
                     /\ sessionLog[i].task = t
                     /\ sessionLog[i].type \in {"agent.started", "task.succeeded"}}
      IN /\ told = {} => run[t] = "created"
         /\ \A i \in told : (\A k \in told : k <= i) =>
              run[t] = IF sessionLog[i].type = "agent.started" THEN "running" ELSE "succeeded"

(* append_event writes the whole row back, and still never undoes the write
   of another transaction: the state's version changes only in a commit of a
   transaction that rewrote the state.                                      *)
AppendsKeepTheState ==
  [][\A t \in Tasks :
       There(t) /\ task'[t].life = "there" /\ task'[t].version # task[t].version
         => \E w \in Writers : txn[w].task = t /\ txn[w].rewrote /\ txn'[w] = NoTxn]_vars

(* The rows implement EventJournal: whatever transactions run beside each
   other, fail or deadlock, the committed events of a task and their copies in
   the session appear together, behind all that was there, and none changes,
   moves or vanishes before its log is deleted (append_event,
   append_session_event, delete_task, delete_session); a session that a
   message creates again starts a new log.                                  *)
Existing == [x \in Tasks \cup {Session} |-> IF x = Session THEN session.life ELSE task[x].life]
Told == [t \in Tasks |-> [i \in DOMAIN log[t] |-> log[t][i].type]]
Story == [i \in DOMAIN sessionLog |-> [task |-> sessionLog[i].task, type |-> sessionLog[i].type]]
Journal == INSTANCE EventJournal WITH
  First <- "task.created", life <- Existing, told <- Told, story <- Story,
  left <- past.orphans
JournalSpec == Journal!Spec

(* What the user sees is the visible part of the log up to the cursor:
   nothing skipped, repeated or out of order after any number of broken
   connections, reconnect signals, closing timers and changes of stream.  A
   hook that followed a session before it was deleted and created again
   keeps its old cursor and events, and is not spoken of.                   *)
ShownIsThePrefix ==
  /\ view.of # None /\ There(view.of)
  /\ view.of = Session => view.born = session.born /\ ~past.carried
  =>
    LET seen == {e \in ToSet(LogOf(view.of)) : Visible(e) /\ e.seq <= view.cursor}
    IN view.shown = Ordered({e.seq : e \in seen})

(* A browser that follows a stream is, again and again, level with the last
   committed visible event after its cursor: none stays unseen, on a
   session's stream never, on a task's only after the closing timer of a
   terminal event.                                                          *)
Closed == view.of # Session /\ ~view.open /\ ~view.retry
ViewsCatchUp ==
  []<>(\/ view.of = None \/ ~There(view.of) \/ Closed
       \/ After(view.of, view.cursor) = <<>>)

(* docs/frontend-api.md: deleting a session deletes its tasks. *)
DeletedSessionLeavesNoTask ==
  session.life = "deleted" => \A t \in Tasks : ~There(t)
=============================================================================
