---------------------------- MODULE EventLog_proofs ----------------------------
(***************************************************************************)
(* The logs are numbered without gap or repetition, no append is refused,  *)
(* an append never undoes the write of another transaction, the session's  *)
(* log merges those of its tasks, a run says what the log says, and the    *)
(* browser shows a prefix of the log it follows.                           *)
(*                                                                         *)
(* The argument is about locks: two transactions never hold the same row,  *)
(* what a transaction has numbered hangs on a row it holds, and a log only *)
(* changes in the commit of a transaction that holds its row (DInv), which *)
(* holds for the session until a message carries an old number over.  What *)
(* a transaction has copied to the session mirrors what it has appended to *)
(* its task, and it knows, under the lock of the session, whether the      *)
(* session is there and what its run says (SInv).  A browser on an open    *)
(* stream has on the wire exactly the visible events between its cursor    *)
(* and what the generator has read (VInv).  Last, the rows implement       *)
(* EventJournal: a commit is a creation or a publication, a committed      *)
(* deletion is one, and everything else is a stutter.                      *)
(***************************************************************************)
EXTENDS EventLog, Rankings

Lives == {"absent", "there", "deleted"}
TaskRows == [life : Lives, seq : Nat, version : Nat]
Events == [task : Tasks \cup {None}, type : Types, seq : Nat]
Copies == [task : Tasks \cup {None}, type : Types, tseq : Nat, seq : Nat]
Txns ==
  [op : {"none", "create", "write", "delete_task", "delete_session"},
   pc : {"none", "find", "load", "link", "open", "session", "unlink", "delete"},
   task : Tasks \cup {None}, found : BOOLEAN, carry : Nat,
   holds : SUBSET (Tasks \cup {Session}),
   row : TaskRows, rewrote : BOOLEAN, events : Seq(Events), shared : Seq(Copies),
   run : Statuses, doomed : SUBSET Tasks]

Typed ==
  /\ bound \in Bounds /\ versions \in Nat
  /\ task \in [Tasks -> TaskRows]
  /\ session \in [life : Lives, seq : Nat, born : Nat]
  /\ past \in [refused : BOOLEAN, carried : BOOLEAN, orphans : SUBSET Tasks]
  /\ log \in [Tasks -> Seq(Events)] /\ sessionLog \in Seq(Copies)
  /\ run \in [Tasks -> Statuses] /\ txn \in [Writers -> Txns]

(* What a transaction has written hangs on rows it holds. *)
WellFormed(x) ==
  /\ x.op \in {"create", "write"} => x.task \in Tasks
  /\ x.pc \in {"open", "session"} => x.op \in {"create", "write"}
  /\ x.pc \in {"find", "load", "link"} => x.op = "create" /\ x.shared = <<>>
  /\ x.pc = "delete" => x.op \in {"delete_task", "delete_session"}
  /\ x.pc = "unlink" => x.op = "delete_session"
  /\ x.pc = "session" => x.events # <<>>
  /\ x.row.life = "there" => x.op \in {"create", "write"} /\ x.task \in x.holds
  /\ x.op = "create" \/ x.events # <<>> \/ x.rewrote => x.row.life = "there"
  /\ x.shared # <<>> => Session \in x.holds
  /\ x.op = "delete_session" /\ x.pc = "delete" => Session \in x.holds

(* It fits the rows as they are committed: it goes on where the logs end. *)
Fits(x) ==
  /\ x.row.life = "there" =>
       /\ x.row.seq = Len(log[x.task]) + Len(x.events)
       /\ \A i \in DOMAIN x.events : x.events[i].seq = Len(log[x.task]) + i
       /\ x.op = "write" /\ ~x.rewrote => x.row.version = task[x.task].version
  /\ x.op = "create" => task[x.task].life # "there"
  /\ \A t \in x.holds \cap Tasks :
       task[t].life = "there" \/ (x.op = "create" /\ x.task = t)

Exclusive == \A v, w \in Writers : v # w => txn[v].holds \cap txn[w].holds = {}
AllDense == \A t \in Tasks : Dense(task[t].seq, log[t])

(* The session's log is continued likewise, by numbers read under its lock. *)
Continues(x) ==
  /\ x.pc # "load" => x.carry = 0
  /\ \A i \in DOMAIN x.shared : x.shared[i].seq = Len(sessionLog) + i
Ordinary ==
  /\ Dense(session.seq, sessionLog) /\ ~past.refused
  /\ \A w \in Writers : Continues(txn[w])
DInv ==
  /\ Typed /\ Exclusive /\ AllDense /\ (~past.carried => Ordinary)
  /\ \A w \in Writers : WellFormed(txn[w]) /\ Fits(txn[w])

-----------------------------------------------------------------------------
(* Sequences. *)

LEMMA Joined ==
  ASSUME NEW S, NEW s \in Seq(S), NEW u \in Seq(S)
  PROVE  /\ s \o u \in Seq(S) /\ Len(s \o u) = Len(s) + Len(u)
         /\ \A i \in DOMAIN (s \o u) : i \in 1..(Len(s) + Len(u))
         /\ \A i \in DOMAIN s : (s \o u)[i] = s[i]
         /\ \A i \in 1..(Len(s) + Len(u)) : i > Len(s) => (s \o u)[i] = u[i - Len(s)]
         /\ u = <<>> => s \o u = s
  OBVIOUS

LEMMA Appended ==
  ASSUME NEW S, NEW s \in Seq(S), NEW a \in S
  PROVE  /\ Append(s, a) \in Seq(S) /\ Len(Append(s, a)) = Len(s) + 1
         /\ Append(s, a) # <<>>
         /\ \A i \in DOMAIN Append(s, a) : i \in DOMAIN s \/ i = Len(s) + 1
         /\ \A i \in DOMAIN s : Append(s, a)[i] = s[i]
         /\ Append(s, a)[Len(s) + 1] = a
  OBVIOUS

LEMMA LastOne ==
  ASSUME NEW S, NEW s \in Seq(S), s # <<>>
  PROVE  Last(s) = s[Len(s)] /\ Last(s) \in S /\ Len(s) \in DOMAIN s
  BY DEF Last

LEMMA PlusOne == \A m, n \in Nat : (m + n) + 1 = m + (n + 1)
  OBVIOUS

(* Two logs that are dense and continue each other are dense. *)
LEMMA DenseJoin ==
  ASSUME NEW S, NEW s \in Seq(S), NEW u \in Seq(S), Dense(Len(s), s),
         \A i \in DOMAIN u : u[i].seq = Len(s) + i
  PROVE  Dense(Len(s) + Len(u), s \o u)
<1>1. ASSUME NEW i \in DOMAIN (s \o u)
      PROVE  (s \o u)[i].seq = i
  <2>1. i \in 1..(Len(s) + Len(u))
    BY Joined
  <2>2. CASE i <= Len(s)
    <3>1. i \in DOMAIN s
      BY <2>1, <2>2
    <3> QED BY <3>1, Joined DEF Dense
  <2>3. CASE i > Len(s)
    <3>1. i - Len(s) \in DOMAIN u /\ Len(s) + (i - Len(s)) = i
      BY <2>1, <2>3
    <3>2. (s \o u)[i] = u[i - Len(s)]
      BY <2>1, <2>3, Joined
    <3> QED BY <3>1, <3>2
  <2> QED BY <2>1, <2>2, <2>3
<1> QED BY <1>1, Joined DEF Dense

-----------------------------------------------------------------------------
(* Steps of a transaction that change no row.                              *)

LEMMA Empty ==
  /\ NoTxn \in Txns /\ WellFormed(NoTxn) /\ Fits(NoTxn) /\ Continues(NoTxn)
  /\ NoTxn.op = "none" /\ NoTxn.holds = {} /\ NoTxn.row = NoRow /\ ~NoTxn.rewrote
  /\ NoTxn.events = <<>> /\ NoTxn.shared = <<>> /\ NoTxn.carry = 0 /\ NoTxn.pc = "none"
  /\ NoRow \in TaskRows /\ NoRow.life = "absent" /\ NoRow.seq = 0
  BY DEF NoTxn, NoRow, Txns, TaskRows, Lives, Statuses, WellFormed, Fits, Continues

LEMMA TxnGoesOn ==
  ASSUME DInv, NEW w \in Writers, NEW x \in Txns, txn' = [txn EXCEPT ![w] = x],
         WellFormed(x), Fits(x),
         \A v \in Writers \ {w} : x.holds \cap txn[v].holds = {},
         UNCHANGED <<rows, bound>>, versions' \in Nat,
         past' \in [refused : BOOLEAN, carried : BOOLEAN, orphans : SUBSET Tasks],
         ~past'.carried => past' = past /\ Continues(x)
  PROVE  DInv'
<1>1. Typed'
  BY DEF DInv, Typed, rows
<1>2. Exclusive'
  BY DEF DInv, Exclusive, Typed
<1>3. AllDense'
  BY DEF DInv, AllDense, rows
<1>4. ASSUME NEW v \in Writers
      PROVE  (WellFormed(txn[v]) /\ Fits(txn[v]))'
  <2>1. txn'[v] = IF v = w THEN x ELSE txn[v]
    BY DEF DInv, Typed
  <2>2. WellFormed(txn'[v]) /\ Fits(txn'[v])
    BY <2>1 DEF DInv
  <2> QED BY <2>2 DEF WellFormed, Fits, rows
<1>5. ASSUME ~past'.carried PROVE Ordinary'
  <2>1. Ordinary /\ past' = past /\ Continues(x)
    BY <1>5 DEF DInv
  <2>2. ASSUME NEW v \in Writers PROVE Continues(txn[v])'
    <3>1. txn'[v] = IF v = w THEN x ELSE txn[v]
      BY DEF DInv, Typed
    <3>2. Continues(txn'[v])
      BY <2>1, <3>1 DEF Ordinary
    <3> QED BY <3>2 DEF Continues, rows
  <2> QED BY <2>1, <2>2 DEF Ordinary, rows
<1> QED BY <1>1, <1>2, <1>3, <1>4, <1>5 DEF DInv

LEMMA TxnMoves ==
  ASSUME DInv, NEW w \in Writers, NEW x \in Txns, txn' = [txn EXCEPT ![w] = x],
         WellFormed(x), Fits(x), ~past.carried => Continues(x),
         \A v \in Writers \ {w} : x.holds \cap txn[v].holds = {},
         UNCHANGED <<rows, past, bound>>, versions' \in Nat
  PROVE  DInv'
<1>1. past' \in [refused : BOOLEAN, carried : BOOLEAN, orphans : SUBSET Tasks]
  BY DEF DInv, Typed
<1> QED BY <1>1, TxnGoesOn

(* What keeps its copies, and has read the session, goes on. *)
LEMMA StillContinues ==
  ASSUME DInv, NEW w \in Writers, txn[w].pc # "load", NEW x,
         x.carry = txn[w].carry, x.shared = txn[w].shared
  PROVE  ~past.carried => Continues(x)
  BY DEF DInv, Ordinary, Continues

LEMMA RollsBack ==
  ASSUME DInv, NEW w \in Writers, Rollback(w), UNCHANGED <<rows, past, bound>>,
         versions' \in Nat
  PROVE  DInv'
<1>1. txn' = [txn EXCEPT ![w] = NoTxn]
  BY DEF Rollback, Put
<1> QED BY <1>1, Empty, TxnMoves

LEMMA Creates ==
  ASSUME DInv, NEW w \in Writers, NEW t \in Tasks, BeginCreate(w, t) \/ BeginMessage(w, t)
  PROVE  DInv'
<1>1. PICK pc \in {"link", "find"} : txn' = [txn EXCEPT ![w] = Created(pc, t)]
  BY DEF BeginCreate, BeginMessage, Put
<1> DEFINE x == Created(pc, t)
<1>2. /\ UNCHANGED <<rows, past, bound>>
      /\ versions' = versions /\ task[t] = NoRow
      /\ \A v \in Writers : txn[v].task = t => txn[v].op # "create"
  BY DEF BeginCreate, BeginMessage, Fresh, client
<1>3. x \in Txns /\ x.holds = {t}
  <2>1. [NoRow EXCEPT !.life = "there"] \in TaskRows
    BY DEF NoRow, TaskRows, Lives
  <2> QED BY <2>1, Empty DEF Txns, Created
<1>4. WellFormed(x) /\ Continues(x)
  BY DEF NoTxn, NoRow, WellFormed, Continues, Created
<1>5. Len(log[t]) = 0
  BY <1>2 DEF DInv, AllDense, Dense, NoRow
<1>6. Fits(x)
  BY <1>2, <1>5 DEF NoTxn, NoRow, Fits, Created
<1>7. \A v \in Writers \ {w} : x.holds \cap txn[v].holds = {}
  <2> SUFFICES ASSUME NEW v \in Writers \ {w}, t \in txn[v].holds
               PROVE  FALSE
    BY <1>3
  <2>1. task[t].life = "there" \/ (txn[v].op = "create" /\ txn[v].task = t)
    BY DEF DInv, Fits
  <2> QED BY <1>2, <2>1, Empty
<1>8. versions' \in Nat
  BY <1>2 DEF DInv, Typed
<1> HIDE DEF x
<1> QED BY <1>1, <1>2, <1>3, <1>4, <1>6, <1>7, <1>8, TxnMoves DEF x

(* A message looks the session up and reads its row again. *)
LEMMA Finds ==
  ASSUME DInv, NEW w \in Writers, FindSession(w)
  PROVE  DInv'
<1>1. UNCHANGED <<rows, past, bound>> /\ versions' \in Nat
  BY DEF FindSession, client, DInv, Typed
<1>2. txn[w] \in Txns /\ WellFormed(txn[w]) /\ Fits(txn[w]) /\ txn[w].pc = "find"
  BY DEF DInv, Typed, FindSession
<1>3. CASE There(Session)
  <2> DEFINE x == [txn[w] EXCEPT !.pc = "load", !.found = TRUE, !.carry = session.seq]
  <2>1. txn' = [txn EXCEPT ![w] = x] /\ session.seq \in Nat
    BY <1>3 DEF FindSession, Put, DInv, Typed
  <2>2. x \in Txns /\ x.holds = txn[w].holds /\ x.shared = txn[w].shared /\ x.pc = "load"
    BY <1>2, <2>1 DEF Txns
  <2>3. WellFormed(x) /\ Fits(x)
    BY <1>2 DEF WellFormed, Fits, Txns
  <2>4. ~past.carried => Continues(x)
    BY <2>2 DEF DInv, Ordinary, Continues
  <2>5. \A v \in Writers \ {w} : x.holds \cap txn[v].holds = {}
    BY <2>2 DEF DInv, Exclusive
  <2> HIDE DEF x
  <2> QED BY <1>1, <2>1, <2>2, <2>3, <2>4, <2>5, TxnMoves
<1>4. CASE ~There(Session)
  <2> DEFINE x == [txn[w] EXCEPT !.pc = "link"]
  <2>1. txn' = [txn EXCEPT ![w] = x]
    BY <1>4 DEF FindSession, Put
  <2>2. /\ x \in Txns /\ x.holds = txn[w].holds /\ x.shared = txn[w].shared
        /\ x.carry = txn[w].carry
    BY <1>2 DEF Txns
  <2>3. WellFormed(x) /\ Fits(x)
    BY <1>2 DEF WellFormed, Fits, Txns
  <2>4. ~past.carried => Continues(x)
    BY <1>2, <2>2, StillContinues
  <2>5. \A v \in Writers \ {w} : x.holds \cap txn[v].holds = {}
    BY <2>2 DEF DInv, Exclusive
  <2> HIDE DEF x
  <2> QED BY <1>1, <2>1, <2>2, <2>3, <2>4, <2>5, TxnMoves
<1> QED BY <1>3, <1>4

LEMMA Loads ==
  ASSUME DInv, NEW w \in Writers, LoadSession(w)
  PROVE  DInv'
<1>1. UNCHANGED <<rows, bound>> /\ versions' \in Nat
  BY DEF LoadSession, client, DInv, Typed
<1>2. CASE ~There(Session)
  BY <1>1, <1>2, RollsBack DEF LoadSession
<1>3. CASE There(Session)
  <2> DEFINE x == [txn[w] EXCEPT !.pc = "link", !.carry = Carried(w)]
  <2>1. /\ txn[w] \in Txns /\ WellFormed(txn[w]) /\ Fits(txn[w]) /\ txn[w].pc = "load"
        /\ txn[w].shared = <<>>
    BY DEF DInv, Typed, LoadSession, WellFormed
  <2>2. txn' = [txn EXCEPT ![w] = x] /\ past' = [past EXCEPT !.carried = @ \/ Carried(w) > 0]
    BY <1>3 DEF LoadSession, Put
  <2>3. Carried(w) \in Nat
    BY <2>1 DEF Carried, Txns
  <2>4. x \in Txns /\ x.holds = txn[w].holds /\ x.shared = <<>> /\ x.carry = Carried(w)
    BY <2>1, <2>3 DEF Txns
  <2>5. WellFormed(x) /\ Fits(x)
    BY <2>1 DEF WellFormed, Fits, Txns
  <2>6. past' \in [refused : BOOLEAN, carried : BOOLEAN, orphans : SUBSET Tasks]
    BY <2>2 DEF DInv, Typed
  <2>7. ASSUME ~past'.carried PROVE past' = past /\ Continues(x)
    <3>0. past'.carried = (past.carried \/ Carried(w) > 0)
      BY <2>2 DEF DInv, Typed
    <3>a. past.carried \in BOOLEAN /\ ~(past.carried \/ Carried(w) > 0)
      BY <3>0, <2>7, Zenon DEF DInv, Typed
    <3>b. Carried(w) = 0
      <4> DEFINE n == Carried(w)
      <4>1. n \in Nat /\ ~(n > 0)
        BY <3>a, <2>3, Zenon
      <4> HIDE DEF n
      <4>2. n = 0
        BY <4>1
      <4> QED BY <4>2 DEF n
    <3>1. ~past.carried /\ Carried(w) = 0
      BY <3>a, <3>b, Zenon
    <3>2. past' = past
      BY <2>2, <3>1 DEF DInv, Typed
    <3> QED BY <2>4, <3>1, <3>2 DEF Continues
  <2>8. \A v \in Writers \ {w} : x.holds \cap txn[v].holds = {}
    BY <2>4 DEF DInv, Exclusive
  <2> HIDE DEF x
  <2> QED BY <1>1, <2>2, <2>4, <2>5, <2>6, <2>7, <2>8, TxnGoesOn DEF x
<1> QED BY <1>2, <1>3

LEMMA Links ==
  ASSUME DInv, NEW w \in Writers, LinkSession(w)
  PROVE  DInv'
<1>1. UNCHANGED <<rows, past, bound>> /\ versions' \in Nat
  BY DEF LinkSession, client, DInv, Typed
<1>2. CASE Rollback(w)
  BY <1>1, <1>2, RollsBack
<1>3. CASE /\ Free(w, Session)
           /\ Put(w, [txn[w] EXCEPT !.pc = "open", !.holds = @ \cup {Session}, !.run = "created"])
  <2> DEFINE x == [txn[w] EXCEPT !.pc = "open", !.holds = @ \cup {Session}, !.run = "created"]
  <2>1. txn[w] \in Txns /\ WellFormed(txn[w]) /\ Fits(txn[w]) /\ txn[w].pc = "link"
    BY DEF DInv, Typed, LinkSession
  <2>2. x \in Txns /\ x.holds = txn[w].holds \cup {Session}
    BY <2>1 DEF Txns, Statuses
  <2>3. WellFormed(x)
    BY <2>1 DEF WellFormed, Txns
  <2>4. Fits(x)
    BY <2>1, EventLogAssumption DEF Fits, Txns
  <2>5. \A v \in Writers \ {w} : x.holds \cap txn[v].holds = {}
    BY <1>3, <2>2 DEF DInv, Exclusive, Free
  <2>6. ~past.carried => Continues(x)
    BY <2>1, StillContinues DEF Txns
  <2> QED BY <1>1, <1>3, <2>2, <2>3, <2>4, <2>5, <2>6, TxnMoves DEF Put
<1> QED BY <1>2, <1>3 DEF LinkSession

(* Transactions that begin with nothing. *)
LEMMA Begins ==
  ASSUME DInv, NEW w \in Writers,
         \/ \E t \in Tasks : BeginWrite(w, t) \/ BeginDelete(w, t)
         \/ BeginDeleteSession(w)
  PROVE  DInv'
<1>0. UNCHANGED <<rows, past, bound>> /\ versions' = versions
  <2>1. CASE \E t \in Tasks : BeginWrite(w, t) \/ BeginDelete(w, t)
    <3>1. PICK t \in Tasks : BeginWrite(w, t) \/ BeginDelete(w, t)
      BY <2>1
    <3>2. CASE BeginWrite(w, t)
      BY <3>2, Zenon DEF BeginWrite, client
    <3>3. CASE BeginDelete(w, t)
      BY <3>3, Zenon DEF BeginDelete, client
    <3> QED BY <3>1, <3>2, <3>3
  <2>2. CASE BeginDeleteSession(w)
    BY <2>2 DEF BeginDeleteSession, client
  <2> QED BY <2>1, <2>2
<1>1. UNCHANGED <<rows, past, bound>> /\ versions' \in Nat
  BY <1>0 DEF DInv, Typed
<1>2. \E x \in Txns : /\ txn' = [txn EXCEPT ![w] = x] /\ WellFormed(x) /\ Fits(x)
                      /\ x.holds = {} /\ Continues(x)
  <2>1. ASSUME NEW t \in Tasks, BeginWrite(w, t)
        PROVE  \E x \in Txns : /\ txn' = [txn EXCEPT ![w] = x] /\ WellFormed(x) /\ Fits(x)
                               /\ x.holds = {} /\ Continues(x)
    <3> DEFINE x == [NoTxn EXCEPT !.op = "write", !.pc = "open", !.task = t]
    <3>1. x \in Txns /\ x.holds = {} /\ WellFormed(x) /\ Fits(x) /\ Continues(x)
      <4>1. x \in Txns
        BY Empty DEF Txns
      <4>2. x.holds = {} /\ x.row = NoRow /\ x.events = <<>> /\ x.shared = <<>> /\ ~x.rewrote
            /\ x.carry = 0
        BY DEF NoTxn
      <4> QED BY <4>1, <4>2, Empty DEF WellFormed, Fits, Continues, NoTxn
    <3>2. txn' = [txn EXCEPT ![w] = x]
      BY <2>1, Zenon DEF BeginWrite, Put
    <3> HIDE DEF x
    <3> QED BY <3>1, <3>2
  <2>2. ASSUME NEW t \in Tasks, BeginDelete(w, t)
        PROVE  \E x \in Txns : /\ txn' = [txn EXCEPT ![w] = x] /\ WellFormed(x) /\ Fits(x)
                               /\ x.holds = {} /\ Continues(x)
    <3> DEFINE x == [NoTxn EXCEPT !.op = "delete_task", !.pc = "delete", !.doomed = {t}]
    <3>1. x \in Txns /\ x.holds = {} /\ WellFormed(x) /\ Fits(x) /\ Continues(x)
      <4>1. x \in Txns
        BY Empty DEF Txns
      <4>2. x.holds = {} /\ x.row = NoRow /\ x.events = <<>> /\ x.shared = <<>> /\ ~x.rewrote
            /\ x.carry = 0
        BY DEF NoTxn
      <4> QED BY <4>1, <4>2, Empty DEF WellFormed, Fits, Continues, NoTxn
    <3>2. txn' = [txn EXCEPT ![w] = x]
      BY <2>2, Zenon DEF BeginDelete, Put
    <3> HIDE DEF x
    <3> QED BY <3>1, <3>2
  <2>3. CASE BeginDeleteSession(w)
    <3> DEFINE D == {u \in Tasks : There(u)}
               x == [NoTxn EXCEPT !.op = "delete_session", !.pc = "unlink", !.doomed = D]
    <3>2. txn' = [txn EXCEPT ![w] = x]
      BY <2>3, Zenon DEF BeginDeleteSession, Put
    <3>3. D \in SUBSET Tasks
      OBVIOUS
    <3> HIDE DEF D
    <3>1. x \in Txns /\ x.holds = {} /\ WellFormed(x) /\ Fits(x) /\ Continues(x)
      <4>1. x \in Txns
        BY <3>3, Empty DEF Txns
      <4>2. x.holds = {} /\ x.row = NoRow /\ x.events = <<>> /\ x.shared = <<>> /\ ~x.rewrote
            /\ x.carry = 0
        BY DEF NoTxn
      <4> QED BY <4>1, <4>2, Empty DEF WellFormed, Fits, Continues, NoTxn
    <3> HIDE DEF x
    <3> QED BY <3>1, <3>2
  <2> QED BY <2>1, <2>2, <2>3
<1> QED BY <1>1, <1>2, TxnMoves

LEMMA Rewrites ==
  ASSUME DInv, NEW w \in Writers, Rewrite(w)
  PROVE  DInv'
<1>1. UNCHANGED <<rows, past, bound>>
  BY DEF Rewrite, client
<1>2. /\ txn[w] \in Txns /\ WellFormed(txn[w]) /\ Fits(txn[w])
      /\ txn[w].op = "write" /\ txn[w].pc = "open" /\ txn[w].task \in Tasks
      /\ Free(w, txn[w].task) /\ versions \in Nat
  BY DEF DInv, Typed, WellFormed, Rewrite
<1>3. CASE ~There(txn[w].task)
  BY <1>1, <1>2, <1>3, RollsBack DEF Rewrite
<1>4. CASE There(txn[w].task)
  <2> DEFINE t == txn[w].task
             x == [txn[w] EXCEPT !.rewrote = TRUE, !.holds = @ \cup {t},
                                 !.row = Rewritten(w, versions + 1)]
  <2>1. txn' = [txn EXCEPT ![w] = x] /\ versions' = versions + 1
    BY <1>4 DEF Rewrite, Put
  <2>2. task[t].life = "there" /\ t # Session
    BY <1>2, <1>4, EventLogAssumption DEF There
  <2>3. Current(w) \in TaskRows /\ Current(w).life = "there"
    BY <1>2, <2>2 DEF Current, Txns, DInv, Typed
  <2>4. /\ Rewritten(w, versions + 1) \in TaskRows
        /\ Rewritten(w, versions + 1).life = "there"
        /\ Rewritten(w, versions + 1).seq = Current(w).seq
    BY <1>2, <2>3 DEF Rewritten, TaskRows
  <2>5. /\ x \in Txns /\ x.holds = txn[w].holds \cup {t} /\ x.row = Rewritten(w, versions + 1)
        /\ x.task = t /\ x.op = "write" /\ x.pc = "open" /\ x.rewrote
        /\ x.events = txn[w].events /\ x.shared = txn[w].shared /\ x.carry = txn[w].carry
    BY <1>2, <2>4 DEF Txns
  <2>6. WellFormed(x)
    BY <1>2, <2>4, <2>5 DEF WellFormed
  <2>7. Current(w).seq = Len(log[t]) + Len(txn[w].events)
    <3>1. CASE txn[w].row.life = "there"
      BY <3>1, <1>2 DEF Current, Fits
    <3>2. CASE txn[w].row.life # "there"
      <4>1. txn[w].events = <<>> /\ Current(w) = task[t]
        BY <3>2, <1>2 DEF WellFormed, Current
      <4> QED BY <4>1, <1>2 DEF DInv, AllDense, Dense, Typed
    <3> QED BY <3>1, <3>2
  <2>8. \A i \in DOMAIN txn[w].events : txn[w].events[i].seq = Len(log[t]) + i
    <3>1. CASE txn[w].row.life = "there"
      BY <3>1, <1>2 DEF Fits
    <3>2. CASE txn[w].events = <<>>
      BY <3>2
    <3> QED BY <3>1, <3>2, <1>2 DEF WellFormed
  <2> HIDE DEF x
  <2>9. Fits(x)
    BY <1>2, <2>2, <2>4, <2>5, <2>7, <2>8 DEF Fits
  <2>10. \A v \in Writers \ {w} : x.holds \cap txn[v].holds = {}
    BY <1>2, <2>5 DEF DInv, Exclusive, Free
  <2>11. versions' \in Nat
    BY <1>2, <2>1
  <2>12. ~past.carried => Continues(x)
    BY <1>2, <2>5, StillContinues
  <2> QED BY <1>1, <2>1, <2>5, <2>6, <2>9, <2>10, <2>11, <2>12, TxnMoves DEF x
<1> QED BY <1>3, <1>4

LEMMA Appends ==
  ASSUME DInv, NEW w \in Writers, NEW type \in Types, AppendEvent(w, type)
  PROVE  DInv'
<1>1. UNCHANGED <<rows, past, bound>> /\ versions' \in Nat
  BY DEF AppendEvent, client, DInv, Typed
<1>2. /\ txn[w] \in Txns /\ WellFormed(txn[w]) /\ Fits(txn[w])
      /\ txn[w].op \in {"create", "write"} /\ txn[w].pc = "open" /\ txn[w].task \in Tasks
      /\ Free(w, txn[w].task)
  BY DEF DInv, Typed, WellFormed, AppendEvent
<1>3. CASE Current(w).life # "there"
  BY <1>1, <1>3, RollsBack DEF AppendEvent
<1>4. CASE Current(w).life = "there"
  <2> DEFINE t == txn[w].task
             e == [task |-> t, type |-> type, seq |-> Numbered(w).seq]
             x == [txn[w] EXCEPT !.pc = "session", !.holds = @ \cup {t},
                                 !.row = Numbered(w), !.events = Append(@, e)]
  <2>1. txn' = [txn EXCEPT ![w] = x]
    BY <1>4 DEF AppendEvent, Put
  <2>2. Current(w) \in TaskRows
    BY <1>2 DEF Current, Txns, DInv, Typed
  <2>3. /\ Numbered(w) \in TaskRows /\ Numbered(w).life = "there"
        /\ Numbered(w).seq = Current(w).seq + 1 /\ Numbered(w).version = Current(w).version
    BY <1>4, <2>2 DEF Numbered, TaskRows
  <2>4. e \in Events /\ txn[w].events \in Seq(Events)
    BY <1>2, <2>3 DEF Events, TaskRows, Txns
  <2>5. /\ x \in Txns /\ x.holds = txn[w].holds \cup {t} /\ x.row = Numbered(w)
        /\ x.task = t /\ x.op = txn[w].op /\ x.pc = "session" /\ x.rewrote = txn[w].rewrote
        /\ x.events = Append(txn[w].events, e) /\ x.shared = txn[w].shared
        /\ x.carry = txn[w].carry
    <3>1. Append(txn[w].events, e) \in Seq(Events)
      BY <2>4, Appended
    <3> HIDE DEF e
    <3> QED BY <1>2, <2>3, <3>1 DEF Txns
  <2>6. WellFormed(x)
    BY <1>2, <2>3, <2>4, <2>5, Appended DEF WellFormed
  <2>7. /\ Current(w).seq = Len(log[t]) + Len(txn[w].events)
        /\ \A i \in DOMAIN txn[w].events : txn[w].events[i].seq = Len(log[t]) + i
        /\ txn[w].op = "write" /\ ~txn[w].rewrote => Current(w).version = task[t].version
        /\ task[t].life = "there" \/ txn[w].op = "create"
    <3>1. CASE txn[w].row.life = "there"
      BY <3>1, <1>2 DEF Current, Fits, WellFormed
    <3>2. CASE txn[w].row.life # "there"
      <4>1. txn[w].events = <<>> /\ Current(w) = task[t]
        BY <3>2, <1>2 DEF WellFormed, Current
      <4> QED BY <4>1, <1>2, <1>4 DEF DInv, AllDense, Dense, Typed
    <3> QED BY <3>1, <3>2
  <2>8. \A i \in DOMAIN x.events : x.events[i].seq = Len(log[t]) + i
    <3> SUFFICES ASSUME NEW i \in DOMAIN Append(txn[w].events, e)
                 PROVE  Append(txn[w].events, e)[i].seq = Len(log[t]) + i
      BY <2>5
    <3>1. CASE i \in DOMAIN txn[w].events
      BY <3>1, <2>4, <2>7, Appended
    <3>2. CASE i = Len(txn[w].events) + 1
      <4>1. Append(txn[w].events, e)[i] = e
        BY <3>2, <2>4, Appended
      <4>2. Len(log[t]) \in Nat /\ Len(txn[w].events) \in Nat
        BY <1>2, <2>4 DEF DInv, Typed
      <4>3. Current(w).seq = Len(log[t]) + Len(txn[w].events)
        BY <2>7
      <4>4. e.seq = Current(w).seq + 1
        BY <2>3
      <4>5. (Len(log[t]) + Len(txn[w].events)) + 1 = Len(log[t]) + i
        BY <4>2, <3>2, PlusOne
      <4> QED BY <4>1, <4>3, <4>4, <4>5
    <3> QED BY <3>1, <3>2, <2>4, Appended
  <2>9. x.row.seq = Len(log[t]) + Len(x.events)
    <3>1. Len(log[t]) \in Nat /\ Len(txn[w].events) \in Nat
      BY <1>2, <2>4 DEF DInv, Typed
    <3>2. Current(w).seq = Len(log[t]) + Len(txn[w].events)
      BY <2>7
    <3>3. x.row.seq = Current(w).seq + 1
      BY <2>3, <2>5
    <3>4. Len(x.events) = Len(txn[w].events) + 1
      BY <2>4, <2>5, Appended
    <3>5. (Len(log[t]) + Len(txn[w].events)) + 1 = Len(log[t]) + (Len(txn[w].events) + 1)
      BY <3>1, PlusOne
    <3> QED BY <3>2, <3>3, <3>4, <3>5
  <2>10. Fits(x)
    BY <1>2, <2>3, <2>5, <2>7, <2>8, <2>9 DEF Fits
  <2>11. \A v \in Writers \ {w} : x.holds \cap txn[v].holds = {}
    BY <1>2, <2>5 DEF DInv, Exclusive, Free
  <2>12. ~past.carried => Continues(x)
    BY <1>2, <2>5, StillContinues
  <2> QED BY <1>1, <2>1, <2>5, <2>6, <2>10, <2>11, <2>12, TxnMoves
<1> QED BY <1>3, <1>4

LEMMA Shares ==
  ASSUME DInv, NEW w \in Writers, AppendSessionEvent(w)
  PROVE  DInv'
<1>1. UNCHANGED <<rows, past, bound>> /\ versions' \in Nat
  BY DEF AppendSessionEvent, client, DInv, Typed
<1>2. /\ txn[w] \in Txns /\ WellFormed(txn[w]) /\ Fits(txn[w])
      /\ txn[w].op \in {"create", "write"} /\ txn[w].pc = "session" /\ txn[w].events # <<>>
      /\ txn[w].task \in Tasks
  BY DEF DInv, Typed, WellFormed, AppendSessionEvent
<1>3. CASE Put(w, [txn[w] EXCEPT !.pc = "open"])
  <2> DEFINE x == [txn[w] EXCEPT !.pc = "open"]
  <2>1. x \in Txns /\ WellFormed(x) /\ Fits(x) /\ x.holds = txn[w].holds
    BY <1>2 DEF Txns, WellFormed, Fits
  <2>2. \A v \in Writers \ {w} : x.holds \cap txn[v].holds = {}
    BY <2>1 DEF DInv, Exclusive
  <2>3. ~past.carried => Continues(x)
    BY <1>2, StillContinues DEF Txns
  <2> QED BY <1>1, <1>3, <2>1, <2>2, <2>3, TxnMoves DEF Put
<1>4. CASE /\ Free(w, Session)
           /\ Put(w, [txn[w] EXCEPT !.pc = "open", !.holds = @ \cup {Session},
                                    !.shared = Shared(w),
                                    !.run = RunAfter(RunRead(w), Last(txn[w].events))])
  <2> DEFINE mine == txn[w].shared
             e == Last(txn[w].events)
             n == IF mine # <<>> THEN Last(mine).seq
                  ELSE IF txn[w].carry > 0 THEN txn[w].carry ELSE session.seq
             c == [task |-> e.task, type |-> e.type, tseq |-> e.seq, seq |-> n + 1]
             r == RunAfter(RunRead(w), e)
             x == [txn[w] EXCEPT !.pc = "open", !.holds = @ \cup {Session},
                                 !.shared = Append(mine, c), !.run = r]
  <2>1. txn' = [txn EXCEPT ![w] = x]
    BY <1>4 DEF Put, Shared
  <2>2. mine \in Seq(Copies) /\ Len(mine) \in Nat /\ Len(sessionLog) \in Nat
    BY <1>2 DEF Txns, DInv, Typed
  <2>3. n \in Nat
    <3>1. mine # <<>> => Last(mine) \in Copies
      BY <2>2, LastOne
    <3> QED BY <3>1, <1>2 DEF Copies, Txns, DInv, Typed
  <2>4. e \in Events
    BY <1>2, LastOne DEF Txns
  <2>5. c \in Copies
    BY <2>2, <2>3, <2>4 DEF Events, Copies
  <2>6. /\ x \in Txns /\ x.holds = txn[w].holds \cup {Session} /\ x.row = txn[w].row
        /\ x.task = txn[w].task /\ x.op = txn[w].op /\ x.pc = "open"
        /\ x.rewrote = txn[w].rewrote /\ x.events = txn[w].events /\ x.shared = Append(mine, c)
        /\ x.carry = txn[w].carry
    <3>1. Append(mine, c) \in Seq(Copies)
      BY <2>2, <2>5, Appended
    <3>2. r \in Statuses
      <4>1. RunRead(w) \in Statuses
        BY <1>2 DEF RunRead, Txns, DInv, Typed
      <4> QED BY <4>1 DEF RunAfter, Statuses
    <3> HIDE DEF c, r
    <3> QED BY <1>2, <3>1, <3>2 DEF Txns
  <2>7. WellFormed(x)
    BY <1>2, <2>6 DEF WellFormed
  <2>8. ASSUME ~past.carried PROVE Continues(x)
    <3>1. /\ txn[w].carry = 0 /\ session.seq = Len(sessionLog)
          /\ \A i \in DOMAIN mine : mine[i].seq = Len(sessionLog) + i
      BY <1>2, <2>8 DEF DInv, Ordinary, Continues, Dense
    <3>2. n = Len(sessionLog) + Len(mine)
      <4>1. CASE mine = <<>>
        BY <4>1, <3>1, <2>2
      <4>2. CASE mine # <<>>
        <5>1. Last(mine) = mine[Len(mine)] /\ Len(mine) \in DOMAIN mine
          BY <4>2, <2>2, LastOne
        <5> QED BY <4>2, <5>1, <3>1
      <4> QED BY <4>1, <4>2
    <3>3. ASSUME NEW i \in DOMAIN Append(mine, c)
          PROVE  Append(mine, c)[i].seq = Len(sessionLog) + i
      <4>1. CASE i \in DOMAIN mine
        BY <4>1, <3>1, <2>2, <2>5, Appended
      <4>2. CASE i = Len(mine) + 1
        <5>1. Append(mine, c)[i] = c /\ c.seq = n + 1
          BY <4>2, <2>2, <2>5, Appended
        <5> HIDE DEF n, mine, c
        <5> QED BY <5>1, <4>2, <2>2, <3>2
      <4> QED BY <3>3, <4>1, <4>2, <2>2, <2>5, Appended
    <3> HIDE DEF c, mine, n
    <3> QED BY <3>1, <3>3, <2>6 DEF Continues
  <2>9. Fits(x)
    BY <1>2, <2>6, EventLogAssumption DEF Fits
  <2>10. \A v \in Writers \ {w} : x.holds \cap txn[v].holds = {}
    BY <1>4, <2>6 DEF DInv, Exclusive, Free
  <2> QED BY <1>1, <2>1, <2>6, <2>7, <2>8, <2>9, <2>10, TxnMoves
<1> QED BY <1>3, <1>4 DEF AppendSessionEvent

(* The locks a deletion takes. *)
LEMMA TakesLocks ==
  ASSUME DInv, NEW w \in Writers,
         DeleteSessionRow(w) \/ \E t \in Tasks : DeleteTaskRow(w, t)
  PROVE  DInv'
<1>1. UNCHANGED <<rows, past, bound>> /\ versions' \in Nat
  BY DEF DeleteSessionRow, DeleteTaskRow, client, DInv, Typed
<1>2. txn[w] \in Txns /\ WellFormed(txn[w]) /\ Fits(txn[w])
  BY DEF DInv, Typed
<1>3. CASE Rollback(w)
  BY <1>1, <1>3, RollsBack
<1>6. CASE DeleteSessionRow(w) /\ ~There(Session)
  <2> DEFINE x == [txn[w] EXCEPT !.op = "delete_task", !.pc = "delete"]
  <2>1. txn' = [txn EXCEPT ![w] = x] /\ txn[w].pc = "unlink"
    BY <1>6 DEF DeleteSessionRow, Put
  <2>2. x \in Txns /\ x.holds = txn[w].holds
    BY <1>2 DEF Txns
  <2>3. WellFormed(x) /\ Fits(x)
    BY <1>2, <2>1, <2>2 DEF WellFormed, Fits, Txns
  <2>4. \A v \in Writers \ {w} : x.holds \cap txn[v].holds = {}
    BY <2>2 DEF DInv, Exclusive
  <2>5. ~past.carried => Continues(x)
    BY <1>2, <2>1, StillContinues DEF Txns
  <2> QED BY <1>1, <2>1, <2>2, <2>3, <2>4, <2>5, TxnMoves
<1>4. CASE DeleteSessionRow(w) /\ There(Session)
  <2> DEFINE x == [txn[w] EXCEPT !.pc = "delete", !.holds = {Session}]
  <2>1. /\ txn' = [txn EXCEPT ![w] = x] /\ txn[w].pc = "unlink" /\ Free(w, Session)
    BY <1>4 DEF DeleteSessionRow, Put
  <2>2. x \in Txns /\ x.holds = {Session}
    BY <1>2 DEF Txns
  <2>3. WellFormed(x) /\ Fits(x)
    BY <1>2, <2>1, <2>2, EventLogAssumption DEF WellFormed, Fits, Txns
  <2>4. \A v \in Writers \ {w} : x.holds \cap txn[v].holds = {}
    BY <2>1, <2>2 DEF DInv, Exclusive, Free
  <2>5. ~past.carried => Continues(x)
    BY <1>2, <2>1, StillContinues DEF Txns
  <2> QED BY <1>1, <2>1, <2>2, <2>3, <2>4, <2>5, TxnMoves
<1>5. ASSUME NEW t \in Tasks, DeleteTaskRow(w, t), ~Rollback(w)
      PROVE  DInv'
  <2> DEFINE x == [txn[w] EXCEPT !.holds = @ \cup {t}]
  <2>1. txn' = [txn EXCEPT ![w] = x] /\ Free(w, t) /\ There(t) /\ txn[w].pc = "delete"
    BY <1>5 DEF DeleteTaskRow, Put
  <2>2. task[t].life = "there"
    BY <2>1, EventLogAssumption DEF There
  <2>3. x \in Txns /\ x.holds = txn[w].holds \cup {t}
    BY <1>2 DEF Txns
  <2>4. WellFormed(x) /\ Fits(x)
    BY <1>2, <2>2, <2>3 DEF WellFormed, Fits, Txns
  <2>5. \A v \in Writers \ {w} : x.holds \cap txn[v].holds = {}
    BY <2>1, <2>3 DEF DInv, Exclusive, Free
  <2>6. ~past.carried => Continues(x)
    BY <1>2, <2>1, StillContinues DEF Txns
  <2> QED BY <1>1, <2>1, <2>3, <2>4, <2>5, <2>6, TxnMoves
<1> QED BY <1>3, <1>4, <1>5, <1>6
-----------------------------------------------------------------------------
(* Commits: the log of a row goes on with what its holder has numbered.    *)

(* What a transaction appends is new to the log, so nothing is refused. *)
LEMMA NothingTaken ==
  ASSUME DInv, ~past.carried, NEW w \in Writers, txn[w].op \in {"create", "write"}
  PROVE  ~Taken(w)
<1>1. txn[w] \in Txns /\ WellFormed(txn[w]) /\ Fits(txn[w]) /\ txn[w].task \in Tasks
  BY DEF DInv, Typed, WellFormed
<1>2. ASSUME NEW i \in DOMAIN txn[w].events, NEW j \in DOMAIN log[txn[w].task]
      PROVE  txn[w].events[i].seq # log[txn[w].task][j].seq
  <2> DEFINE old == log[txn[w].task]
  <2>1. old \in Seq(Events) /\ txn[w].events \in Seq(Events)
    BY <1>1 DEF DInv, Typed, Txns
  <2>2. old[j].seq = j
    BY <1>1 DEF DInv, AllDense, Dense
  <2>3. txn[w].row.life = "there"
    BY <1>1 DEF WellFormed
  <2>4. txn[w].events[i].seq = Len(old) + i
    BY <1>1, <2>3 DEF Fits
  <2> QED BY <2>1, <2>2, <2>4
<1>3. ASSUME NEW i \in DOMAIN txn[w].shared, NEW j \in DOMAIN sessionLog
      PROVE  txn[w].shared[i].seq # sessionLog[j].seq
  <2>1. sessionLog \in Seq(Copies) /\ txn[w].shared \in Seq(Copies)
    BY <1>1 DEF DInv, Typed, Txns
  <2>2. sessionLog[j].seq = j
    BY DEF DInv, Ordinary, Dense
  <2>3. txn[w].shared[i].seq = Len(sessionLog) + i
    BY DEF DInv, Ordinary, Continues
  <2> QED BY <2>1, <2>2, <2>3
<1> QED BY <1>2, <1>3 DEF Taken, ToSet

(* What a commit does that is not refused, and one that is. *)
LEMMA CommitEffects ==
  ASSUME DInv, NEW w \in Writers, Commit(w), ~Taken(w)
  PROVE  LET x == txn[w]
             t == txn[w].task
         IN /\ task' = [task EXCEPT ![t] = x.row] /\ log' = [log EXCEPT ![t] = @ \o x.events]
            /\ sessionLog' = sessionLog \o x.shared
            /\ session' = IF x.shared = <<>> THEN session
                          ELSE [life |-> "there", seq |-> Last(x.shared).seq,
                                born |-> session.born + (IF There(Session) THEN 0 ELSE 1)]
            /\ txn' = [txn EXCEPT ![w] = NoTxn]
            /\ UNCHANGED <<bound, versions, past>>
            /\ run' = [run EXCEPT ![t] = IF x.run = "none" THEN @ ELSE x.run]
<1>1. past' = past
  BY DEF Commit, DInv, Typed
<1>2. txn' = [txn EXCEPT ![w] = NoTxn] /\ UNCHANGED <<bound, versions>>
  BY DEF Commit, Rollback, Put, client
<1> QED BY <1>1, <1>2 DEF Commit

LEMMA CommitRefused ==
  ASSUME DInv, NEW w \in Writers, Commit(w), Taken(w)
  PROVE  /\ UNCHANGED <<rows, bound, versions>> /\ Rollback(w)
         /\ past.carried /\ past' = [past EXCEPT !.refused = TRUE]
<1>1. past.carried
  BY NothingTaken DEF Commit, Complete
<1> QED BY <1>1 DEF Commit, client, DInv, Typed

LEMMA Commits ==
  ASSUME DInv, NEW w \in Writers, Commit(w)
  PROVE  DInv'
<1>0. CASE Taken(w)
  <2>1. /\ txn' = [txn EXCEPT ![w] = NoTxn] /\ UNCHANGED <<rows, bound, versions>>
        /\ past.carried /\ past' = [past EXCEPT !.refused = TRUE]
    BY <1>0, CommitRefused DEF Rollback, Put
  <2>2. past' \in [refused : BOOLEAN, carried : BOOLEAN, orphans : SUBSET Tasks] /\ past'.carried
    BY <2>1 DEF DInv, Typed
  <2>3. versions' \in Nat
    BY <2>1 DEF DInv, Typed
  <2> QED BY <2>1, <2>2, <2>3, Empty, TxnGoesOn
<1> SUFFICES ASSUME ~Taken(w) PROVE DInv'
  BY <1>0
<1> DEFINE x == txn[w]
           t == txn[w].task
<1>1. /\ x \in Txns /\ WellFormed(x) /\ Fits(x) /\ t \in Tasks
      /\ x.row.life = "there" /\ t \in x.holds
  BY DEF DInv, Typed, WellFormed, Commit, Complete
<1>2. /\ task' = [task EXCEPT ![t] = x.row] /\ log' = [log EXCEPT ![t] = @ \o x.events]
      /\ sessionLog' = sessionLog \o x.shared
      /\ session' = IF x.shared = <<>> THEN session
                    ELSE [life |-> "there", seq |-> Last(x.shared).seq,
                          born |-> session.born + (IF There(Session) THEN 0 ELSE 1)]
      /\ txn' = [txn EXCEPT ![w] = NoTxn]
      /\ UNCHANGED <<bound, versions, past>>
      /\ run' = [run EXCEPT ![t] = IF x.run = "none" THEN @ ELSE x.run]
  BY CommitEffects
<1>3. /\ log[t] \in Seq(Events) /\ x.events \in Seq(Events)
      /\ sessionLog \in Seq(Copies) /\ x.shared \in Seq(Copies)
  BY <1>1 DEF DInv, Typed, Txns
<1>4. /\ log[t] \o x.events \in Seq(Events) /\ sessionLog \o x.shared \in Seq(Copies)
      /\ x.shared = <<>> => sessionLog \o x.shared = sessionLog
  BY <1>3, Joined
<1>5. Dense(Len(log[t]), log[t])
  BY <1>1 DEF DInv, AllDense, Dense
<1>6. session' \in [life : Lives, seq : Nat, born : Nat]
  <2> HIDE DEF x
  <2>1. x.shared # <<>> => Last(x.shared) \in Copies
    BY <1>3, LastOne
  <2>2. x.shared # <<>> => Last(x.shared).seq \in Nat
    BY <2>1 DEF Copies
  <2>3. session \in [life : Lives, seq : Nat, born : Nat]
    BY DEF DInv, Typed
  <2>4. session.born + (IF There(Session) THEN 0 ELSE 1) \in Nat
    BY <2>3
  <2> QED BY <2>2, <2>3, <2>4, <1>2 DEF Lives
<1>7. Typed'
  <2>1. task' \in [Tasks -> TaskRows]
    BY <1>1, <1>2 DEF DInv, Typed, Txns
  <2>2. log' \in [Tasks -> Seq(Events)]
    BY <1>2, <1>4 DEF DInv, Typed
  <2>3. txn' \in [Writers -> Txns]
    BY <1>2, Empty DEF DInv, Typed
  <2>4. sessionLog' \in Seq(Copies)
    BY <1>2, <1>4
  <2>5. run' \in [Tasks -> Statuses]
    <3>1. x.run \in Statuses
      BY <1>1 DEF Txns
    <3> QED BY <3>1, <1>2 DEF DInv, Typed
  <2> QED BY <2>1, <2>2, <2>3, <2>4, <2>5, <1>2, <1>6 DEF DInv, Typed
<1>8. AllDense'
  <2>1. ASSUME NEW u \in Tasks
        PROVE  Dense(task'[u].seq, log'[u])
    <3>1. CASE u = t
      <4>1. x.row.seq = Len(log[t]) + Len(x.events)
        BY <1>1 DEF Fits
      <4>2. Dense(Len(log[t]) + Len(x.events), log[t] \o x.events)
        BY <1>1, <1>3, <1>5, DenseJoin DEF Fits
      <4>3. task'[u] = x.row /\ log'[u] = log[t] \o x.events
        BY <3>1, <1>1, <1>2 DEF DInv, Typed
      <4> QED BY <4>1, <4>2, <4>3
    <3>2. CASE u # t
      BY <3>2, <1>2 DEF DInv, Typed, AllDense
    <3> QED BY <3>1, <3>2
  <2> QED BY <2>1 DEF AllDense, Dense
<1>9. ASSUME NEW v \in Writers
      PROVE  (WellFormed(txn[v]) /\ Fits(txn[v]))'
  <2>1. CASE v = w
    <3>1. txn'[v] = NoTxn
      BY <2>1, <1>2 DEF DInv, Typed
    <3> QED BY <3>1, Empty DEF WellFormed, Fits
  <2>2. CASE v # w
    <3> DEFINE y == txn[v]
    <3>1. txn'[v] = y /\ y \in Txns /\ WellFormed(y) /\ Fits(y) /\ y.holds \cap x.holds = {}
      BY <2>2, <1>2 DEF DInv, Typed, Exclusive
    <3>2. t \notin y.holds
      BY <3>1, <1>1
    <3>3. \A u \in Tasks : u # t => task'[u] = task[u] /\ log'[u] = log[u]
      BY <1>2 DEF DInv, Typed
    <3>4. y.row.life = "there" => y.task \in Tasks /\ y.task # t
      BY <3>1, <3>2 DEF WellFormed
    <3>7. y.op = "create" => task'[y.task].life # "there"
      BY <3>1, <3>3, <3>4 DEF WellFormed, Fits
    <3>8. \A u \in y.holds \cap Tasks :
            task'[u].life = "there" \/ (y.op = "create" /\ y.task = u)
      BY <3>1, <3>2, <3>3 DEF Fits
    <3>9. y.row.life = "there" =>
            /\ y.row.seq = Len(log'[y.task]) + Len(y.events)
            /\ \A i \in DOMAIN y.events : y.events[i].seq = Len(log'[y.task]) + i
            /\ y.op = "write" /\ ~y.rewrote => y.row.version = task'[y.task].version
      BY <3>1, <3>3, <3>4 DEF Fits
    <3> HIDE DEF y
    <3> QED BY <3>1, <3>7, <3>8, <3>9 DEF WellFormed, Fits
  <2> QED BY <2>1, <2>2
<1>10. Exclusive'
  BY <1>2, Empty DEF DInv, Typed, Exclusive
<1>11. ASSUME ~past'.carried PROVE Ordinary'
  <2>1. /\ ~past.refused /\ Dense(Len(sessionLog), sessionLog) /\ session.seq = Len(sessionLog)
        /\ \A v \in Writers : Continues(txn[v])
    BY <1>2, <1>11 DEF DInv, Ordinary, Dense
  <2>2. Dense(session'.seq, sessionLog')
    <3>1. CASE x.shared = <<>>
      BY <3>1, <1>2, <1>4, <2>1
    <3>2. CASE x.shared # <<>>
      <4>1. Last(x.shared) = x.shared[Len(x.shared)] /\ Len(x.shared) \in DOMAIN x.shared
        BY <3>2, <1>3, LastOne
      <4>2. session'.seq = Len(sessionLog) + Len(x.shared)
        BY <4>1, <3>2, <1>2, <2>1 DEF Continues
      <4>3. Dense(Len(sessionLog) + Len(x.shared), sessionLog \o x.shared)
        BY <1>3, <2>1, DenseJoin DEF Continues
      <4> QED BY <4>2, <4>3, <1>2
    <3> QED BY <3>1, <3>2
  <2>3. ASSUME NEW v \in Writers PROVE Continues(txn[v])'
    <3> DEFINE y == txn[v]
    <3>1. txn'[v] = IF v = w THEN NoTxn ELSE y
      BY <1>2 DEF DInv, Typed
    <3>2. CASE v = w
      BY <3>1, <3>2, Empty DEF Continues
    <3>3. CASE v # w /\ y.shared = <<>>
      BY <3>1, <3>3, <2>1 DEF Continues
    <3>4. CASE v # w /\ y.shared # <<>>
      <4>1. x.shared = <<>>
        BY <3>4, <1>1 DEF DInv, Exclusive, WellFormed
      <4>2. sessionLog' = sessionLog
        BY <4>1, <1>2, <1>4
      <4> QED BY <3>1, <3>4, <4>2, <2>1 DEF Continues
    <3> QED BY <3>2, <3>3, <3>4
  <2> QED BY <1>2, <2>1, <2>2, <2>3 DEF Ordinary, Dense
<1> QED BY <1>2, <1>7, <1>8, <1>9, <1>10, <1>11 DEF DInv

LEMMA CommitsDelete ==
  ASSUME DInv, NEW w \in Writers, CommitDelete(w)
  PROVE  DInv'
<1> DEFINE x == txn[w]
           gone == txn[w].doomed
           deleted == [NoRow EXCEPT !.life = "deleted"]
<1>1. /\ x \in Txns /\ WellFormed(x) /\ x.pc = "delete" /\ gone \subseteq x.holds
      /\ task' = [t \in Tasks |-> IF t \in gone THEN deleted ELSE task[t]]
      /\ log' = [t \in Tasks |-> IF t \in gone THEN <<>> ELSE log[t]]
      /\ txn' = [txn EXCEPT ![w] = NoTxn] /\ UNCHANGED <<bound, versions>>
  BY DEF DInv, Typed, CommitDelete, Rollback, Put, client
<1>2. deleted \in TaskRows /\ deleted.seq = 0 /\ deleted.life = "deleted"
  BY DEF NoRow, TaskRows, Lives
<1>3. \/ UNCHANGED <<session, sessionLog, past>>
      \/ /\ session' = [session EXCEPT !.life = "deleted", !.seq = 0] /\ sessionLog' = <<>>
         /\ past' = [past EXCEPT !.orphans = @ \cup {t \in Tasks \ gone : There(t)}]
         /\ Session \in x.holds
  BY <1>1 DEF CommitDelete, WellFormed
<1>4. Typed'
  <2>1. task' \in [Tasks -> TaskRows] /\ log' \in [Tasks -> Seq(Events)]
    BY <1>1, <1>2 DEF DInv, Typed
  <2>2. txn' \in [Writers -> Txns]
    BY <1>1, Empty DEF DInv, Typed
  <2>3. run' \in [Tasks -> Statuses]
    BY <1>1 DEF CommitDelete, Statuses, DInv, Typed
  <2>4. /\ session' \in [life : Lives, seq : Nat, born : Nat] /\ sessionLog' \in Seq(Copies)
        /\ past' \in [refused : BOOLEAN, carried : BOOLEAN, orphans : SUBSET Tasks]
    <3> DEFINE more == {t \in Tasks \ gone : There(t)}
    <3>0. /\ session \in [life : Lives, seq : Nat, born : Nat] /\ sessionLog \in Seq(Copies)
          /\ past \in [refused : BOOLEAN, carried : BOOLEAN, orphans : SUBSET Tasks]
          /\ more \in SUBSET Tasks /\ <<>> \in Seq(Copies)
      BY DEF DInv, Typed
    <3> HIDE DEF more
    <3>1. CASE UNCHANGED <<session, sessionLog, past>>
      BY <3>0, <3>1
    <3>2. CASE /\ session' = [session EXCEPT !.life = "deleted", !.seq = 0] /\ sessionLog' = <<>>
               /\ past' = [past EXCEPT !.orphans = @ \cup more]
      <4>1. session' \in [life : Lives, seq : Nat, born : Nat]
        BY <3>0, <3>2 DEF Lives
      <4>2. past' \in [refused : BOOLEAN, carried : BOOLEAN, orphans : SUBSET Tasks]
        BY <3>0, <3>2
      <4> QED BY <3>0, <3>2, <4>1, <4>2
    <3> QED BY <3>1, <3>2, <1>3 DEF more
  <2> QED BY <2>1, <2>2, <2>3, <2>4, <1>1 DEF DInv, Typed
<1>5. AllDense'
  <2>1. ASSUME NEW u \in Tasks
        PROVE  Dense(task'[u].seq, log'[u])
    <3>1. CASE u \in gone
      BY <3>1, <1>1, <1>2 DEF Dense
    <3>2. CASE u \notin gone
      BY <3>2, <1>1 DEF DInv, AllDense
    <3> QED BY <3>1, <3>2
  <2> QED BY <2>1 DEF AllDense, Dense
<1>6. ASSUME NEW v \in Writers
      PROVE  (WellFormed(txn[v]) /\ Fits(txn[v]))'
  <2>1. CASE v = w
    <3>1. txn'[v] = NoTxn
      BY <2>1, <1>1 DEF DInv, Typed
    <3> QED BY <3>1, Empty DEF WellFormed, Fits
  <2>2. CASE v # w
    <3> DEFINE y == txn[v]
    <3>1. txn'[v] = y /\ y \in Txns /\ WellFormed(y) /\ Fits(y) /\ y.holds \cap x.holds = {}
      BY <2>2, <1>1 DEF DInv, Typed, Exclusive
    <3>2. \A u \in Tasks : u \notin gone => task'[u] = task[u] /\ log'[u] = log[u]
      BY <1>1
    <3>3. y.holds \cap gone = {}
      BY <3>1, <1>1
    <3>4. y.row.life = "there" => y.task \in Tasks /\ y.task \notin gone
      BY <3>1, <3>3 DEF WellFormed
    <3>7. y.op = "create" => task'[y.task].life # "there"
      BY <3>1, <3>2, <3>4 DEF WellFormed, Fits
    <3>8. \A u \in y.holds \cap Tasks :
            task'[u].life = "there" \/ (y.op = "create" /\ y.task = u)
      BY <3>1, <3>2, <3>3 DEF Fits
    <3>9. y.row.life = "there" =>
            /\ y.row.seq = Len(log'[y.task]) + Len(y.events)
            /\ \A i \in DOMAIN y.events : y.events[i].seq = Len(log'[y.task]) + i
            /\ y.op = "write" /\ ~y.rewrote => y.row.version = task'[y.task].version
      BY <3>1, <3>2, <3>4 DEF Fits
    <3> HIDE DEF y
    <3> QED BY <3>1, <3>7, <3>8, <3>9 DEF WellFormed, Fits
  <2> QED BY <2>1, <2>2
<1>7. Exclusive'
  BY <1>1, Empty DEF DInv, Typed, Exclusive
<1>8. ASSUME ~past'.carried PROVE Ordinary'
  <2>1. ~past.carried /\ past'.refused = past.refused
    BY <1>3, <1>8 DEF DInv, Typed
  <2>2. Ordinary
    BY <2>1 DEF DInv
  <2>3. Dense(session'.seq, sessionLog')
    <3>1. CASE UNCHANGED <<session, sessionLog, past>>
      BY <3>1, <2>2 DEF Ordinary, Dense
    <3>2. CASE session' = [session EXCEPT !.life = "deleted", !.seq = 0] /\ sessionLog' = <<>>
      <4>1. session'.seq = 0
        BY <3>2 DEF DInv, Typed
      <4> QED BY <3>2, <4>1 DEF Dense
    <3> QED BY <3>1, <3>2, <1>3
  <2>4. ASSUME NEW v \in Writers PROVE Continues(txn[v])'
    <3> DEFINE y == txn[v]
    <3>1. txn'[v] = IF v = w THEN NoTxn ELSE y
      BY <1>1 DEF DInv, Typed
    <3>2. CASE v = w
      BY <3>1, <3>2, Empty DEF Continues
    <3>3. CASE v # w /\ y.shared = <<>>
      BY <3>1, <3>3, <2>2 DEF Ordinary, Continues
    <3>4. CASE v # w /\ y.shared # <<>>
      <4>1. sessionLog' = sessionLog
        BY <3>4, <1>3 DEF DInv, Exclusive, WellFormed
      <4> QED BY <3>1, <3>4, <4>1, <2>2 DEF Ordinary, Continues
    <3> QED BY <3>2, <3>3, <3>4
  <2> QED BY <2>1, <2>2, <2>3, <2>4 DEF Ordinary, Dense
<1> QED BY <1>1, <1>4, <1>5, <1>6, <1>7, <1>8 DEF DInv

-----------------------------------------------------------------------------
(* The theorems.                                                           *)

LEMMA Starts == Init => DInv
<1> SUFFICES ASSUME Init
             PROVE  DInv
  OBVIOUS
<1>1. Typed
  BY Empty DEF Init, Typed, Lives, Statuses
<1>2. AllDense
  BY Empty DEF Init, AllDense, Dense
<1>3. \A w \in Writers : txn[w] = NoTxn
  BY DEF Init
<1>4. Ordinary
  BY <1>3, Empty DEF Init, Ordinary, Dense
<1> QED BY <1>1, <1>2, <1>3, <1>4, Empty DEF DInv, Exclusive, Init

LEMMA WriterInBounds ==
  ASSUME DInv, NEW w \in bound.writers
  PROVE  w \in Writers
BY EventLogAssumption DEF DInv, Typed

(* The browser and stuttering leave the store alone. *)
LEMMA StoreStays ==
  ASSUME DInv, UNCHANGED store
  PROVE  DInv'
<1>1. UNCHANGED <<task, session, log, sessionLog, run, txn, past, bound, versions>>
  BY DEF store, rows
<1>2. Typed' /\ Exclusive' /\ AllDense'
  BY <1>1 DEF DInv, Typed, Exclusive, AllDense, Dense
<1>4. (~past.carried => Ordinary)'
  BY <1>1 DEF DInv, Ordinary, Dense, Continues
<1>3. ASSUME NEW w \in Writers
      PROVE  (WellFormed(txn[w]) /\ Fits(txn[w]))'
  BY <1>1 DEF DInv, WellFormed, Fits
<1> QED BY <1>2, <1>3, <1>4 DEF DInv

LEMMA StepsKeepLogs == DInv /\ [Next]_vars => DInv'
<1> SUFFICES ASSUME DInv, [Next]_vars
             PROVE  DInv'
  OBVIOUS
<1>1. ASSUME NEW w \in bound.writers, Progress(w)
      PROVE  DInv'
  <2>1. w \in Writers
    BY WriterInBounds
  <2>2. CASE FindSession(w) \/ LoadSession(w) \/ LinkSession(w)
    BY <2>1, <2>2, Finds, Loads, Links
  <2>3. CASE AppendSessionEvent(w)
    BY <2>1, <2>3, Shares
  <2>4. CASE Commit(w)
    BY <2>1, <2>4, Commits
  <2>5. CASE DeleteSessionRow(w) \/ \E t \in Tasks : DeleteTaskRow(w, t)
    BY <2>1, <2>5, TakesLocks
  <2>6. CASE CommitDelete(w)
    BY <2>1, <2>6, CommitsDelete
  <2>7. CASE BreakDeadlock(w)
    BY <2>1, <2>7, RollsBack DEF BreakDeadlock, client, DInv, Typed
  <2> QED BY <1>1, <2>2, <2>3, <2>4, <2>5, <2>6, <2>7 DEF Progress
<1>2. ASSUME NEW w \in bound.writers, Transaction(w)
      PROVE  DInv'
  <2>1. w \in Writers
    BY WriterInBounds
  <2>2. ASSUME NEW t \in Tasks, BeginCreate(w, t) \/ BeginMessage(w, t)
        PROVE  DInv'
    BY <2>1, <2>2, Creates
  <2>3. CASE (\E t \in Tasks : BeginWrite(w, t) \/ BeginDelete(w, t)) \/ BeginDeleteSession(w)
    BY <2>1, <2>3, Begins
  <2>4. CASE Rewrite(w)
    BY <2>1, <2>4, Rewrites
  <2>5. ASSUME NEW type \in Types, AppendEvent(w, type)
        PROVE  DInv'
    BY <2>1, <2>5, Appends
  <2>6. CASE Fail(w)
    BY <2>1, <2>6, RollsBack DEF Fail, client, DInv, Typed
  <2>7. bound.tasks \subseteq Tasks /\ bound.types \subseteq Types
    BY EventLogAssumption DEF DInv, Typed
  <2> QED BY <1>2, <2>2, <2>3, <2>4, <2>5, <2>6, <2>7 DEF Transaction
<1>3. CASE Browser
  <2>1. ASSUME NEW x, Follow(x) PROVE UNCHANGED store
    BY <2>1 DEF Follow
  <2>2. Signal \/ StreamBreaks \/ CloseStream => UNCHANGED store
    BY DEF Signal, StreamBreaks, CloseStream
  <2>3. Poll \/ Receive \/ Reconnect => UNCHANGED store
    BY DEF Poll, Receive, Reconnect
  <2> QED BY <1>3, <2>1, <2>2, <2>3, StoreStays DEF Browser
<1>4. CASE UNCHANGED vars
  BY <1>4, StoreStays DEF vars, store, rows
<1> QED BY <1>1, <1>2, <1>3, <1>4 DEF Next

LEMMA Invariance == Spec => []DInv
BY Starts, StepsKeepLogs, PTL DEF Spec

(* Event numbers have no gap and no repetition in any log, however many     *)
(* transactions append, rewrite, roll back and delete beside each other     *)
(* (append_event, append_session_event, update_task_state, delete_session);  *)
(* in the session's, until a message carries an old number into it.         *)
THEOREM NumbersAreDense == Spec => []LogsAreDense
<1>1. DInv => LogsAreDense
  BY DEF DInv, AllDense, Ordinary, LogsAreDense
<1> QED BY <1>1, Invariance, PTL

(* The unique constraints of the logs never refuse an event, until then. *)
THEOREM NothingIsRefused == Spec => []NoAppendIsRefused
<1>1. DInv => NoAppendIsRefused
  BY DEF DInv, Ordinary, NoAppendIsRefused
<1> QED BY <1>1, Invariance, PTL

(* append_event writes the whole row back and undoes no other write: the    *)
(* version of a state changes in the commit of a rewrite only.              *)
THEOREM AppendsUndoNothing == Spec => AppendsKeepTheState
<1> DEFINE Step == \A t \in Tasks :
             There(t) /\ task'[t].life = "there" /\ task'[t].version # task[t].version
               => \E w \in Writers : txn[w].task = t /\ txn[w].rewrote /\ txn'[w] = NoTxn
<1>1. DInv /\ [Next]_vars => [Step]_vars
  <2> SUFFICES ASSUME DInv, Next, NEW t \in Tasks, There(t), task'[t].life = "there",
                      task'[t].version # task[t].version
               PROVE  \E w \in Writers : /\ txn[w].task = t /\ txn[w].rewrote
                                         /\ txn'[w] = NoTxn
    OBVIOUS
  <2>1. task[t].life = "there"
    BY EventLogAssumption DEF There
  <2>2. PICK w \in bound.writers : Commit(w) \/ CommitDelete(w)
    <3>1. ASSUME UNCHANGED rows
          PROVE  FALSE
      BY <3>1 DEF rows
    <3> QED BY <3>1 DEF Next, Browser, Progress, Transaction, Follow, Signal, StreamBreaks,
         CloseStream, Poll, Receive, Reconnect, BeginCreate, BeginWrite, BeginDelete,
         BeginMessage, BeginDeleteSession, Rewrite, AppendEvent, Fail, FindSession, LoadSession,
         LinkSession, AppendSessionEvent, DeleteSessionRow, DeleteTaskRow, BreakDeadlock, store
  <2>3. w \in Writers
    BY WriterInBounds
  <2>4. CASE CommitDelete(w)
    <3>1. task'[t] = task[t] \/ task'[t].life = "deleted"
      BY <2>4 DEF CommitDelete, NoRow
    <3> QED BY <3>1
  <2>5. CASE Commit(w)
    <3>1. WellFormed(txn[w]) /\ Fits(txn[w]) /\ txn[w].task \in Tasks
      BY <2>3, <2>5 DEF DInv, WellFormed, Commit, Complete
    <3>6. ~Taken(w)
      BY <2>5 DEF Commit, rows
    <3>2. task' = [task EXCEPT ![txn[w].task] = txn[w].row] /\ txn' = [txn EXCEPT ![w] = NoTxn]
      BY <2>3, <2>5, <3>6 DEF Commit, Rollback, Put
    <3>3. txn[w].task = t /\ task'[t] = txn[w].row
      BY <3>1, <3>2 DEF DInv, Typed
    <3>4. txn[w].op = "write"
      BY <2>1, <2>5, <3>1, <3>3 DEF Commit, Complete, Fits
    <3>5. txn[w].rewrote
      BY <3>1, <3>3, <3>4 DEF Fits
    <3> QED BY <2>3, <3>2, <3>3, <3>5 DEF DInv, Typed
  <2> QED BY <2>2, <2>4, <2>5
<1> QED BY <1>1, Invariance, PTL DEF Spec, AppendsKeepTheState

-----------------------------------------------------------------------------
(* What the log of a session knows of the logs of its tasks.               *)

(* The copies of a task's events in the session's log s are what follows n
   events in the log l.                                                     *)
Merges(t, s, l, n) ==
  LET mine == {i \in DOMAIN s : s[i].task = t}
  IN /\ {<<s[i].tseq, s[i].type>> : i \in mine} = {<<l[k].seq, l[k].type>> : k \in (n + 1)..Len(l)}
     /\ \A i, k \in mine : i < k => s[i].tseq < s[k].tseq
NoneOf(t, s) == \A i \in DOMAIN s : s[i].task # t

(* A status is what the last telling event of t in s says. *)
Tells(status, t, s) ==
  LET told == {i \in DOMAIN s : /\ s[i].task = t
                                /\ s[i].type \in {"agent.started", "task.succeeded"}}
  IN /\ told = {} => status = "created"
     /\ \A i \in told : (\A k \in told : k <= i) =>
          status = IF s[i].type = "agent.started" THEN "running" ELSE "succeeded"

(* A transaction has copied its events, but for the one it is about to copy
   and those it wrote before a deleted session was created again.           *)
Skipped(x) == Len(x.events) - Len(x.shared) - (IF x.pc = "session" THEN 1 ELSE 0)
Mirrors(x) ==
  LET k == Skipped(x) IN
  /\ k \in Nat
  /\ k # 0 => x.task \in past.orphans /\ NoneOf(x.task, sessionLog)
  /\ \A i \in DOMAIN x.shared : /\ k + i \in DOMAIN x.events
                                /\ x.shared[i].tseq = x.events[k + i].seq
                                /\ x.shared[i].type = x.events[k + i].type

(* What it knows of its task, and, under its lock, of the session. *)
Known(x) ==
  /\ x.op = "create" =>
       /\ task[x.task].life = "absent" /\ ~x.rewrote
       /\ IF x.pc \in {"find", "load", "link"} THEN Session \notin x.holds ELSE x.run # "none"
  /\ Session \in x.holds => (session.life = "there" <=> ~(x.op = "create" /\ ~x.found))
  /\ \A i \in DOMAIN x.events : x.events[i].task = x.task
  /\ \A i \in DOMAIN x.shared : x.shared[i].task = x.task
  /\ x.run = "none" => x.shared = <<>> \/ x.task \in past.orphans
  /\ x.run # "none" => /\ Session \in x.holds /\ x.op \in {"create", "write"}
                       /\ x.task \notin past.orphans
                       /\ Tells(x.run, x.task, sessionLog \o x.shared)
  /\ x.op \in {"create", "write"} => Mirrors(x)

Merged(t) ==
  \E n \in 0..Len(log[t]) : (t \notin past.orphans => n = 0) /\ Merges(t, sessionLog, log[t], n)

(* A task without a session is one that a deletion left behind. *)
SInv ==
  /\ \A t \in Tasks : task[t].life = "absent" =>
       task[t] = NoRow /\ NoneOf(t, sessionLog) /\ t \notin past.orphans
  /\ session.life # "there" => sessionLog = <<>>
  /\ \A t \in past.orphans : run[t] = "none"
  /\ \A t \in Tasks \ past.orphans : task[t].life = "there" =>
       session.life = "there" /\ run[t] # "none" /\ Tells(run[t], t, sessionLog)
  /\ \A t \in Tasks : task[t].life = "there" => Merged(t)
  /\ \A w \in Writers : Known(txn[w])

-----------------------------------------------------------------------------
(* Logs that grow.                                                         *)

(* The entries of a joined sequence. *)
LEMMA JoinedEntries ==
  ASSUME NEW S, NEW s \in Seq(S), NEW u \in Seq(S)
  PROVE  /\ DOMAIN (s \o u) = DOMAIN s \cup {Len(s) + i : i \in DOMAIN u}
         /\ \A i \in DOMAIN s : (s \o u)[i] = s[i]
         /\ \A i \in DOMAIN u : (s \o u)[Len(s) + i] = u[i]
         /\ \A i \in DOMAIN s, k \in DOMAIN u : i < Len(s) + k /\ ~(Len(s) + k <= i)
         /\ \A i, k \in DOMAIN u : (Len(s) + i < Len(s) + k <=> i < k)
                                   /\ (Len(s) + i <= Len(s) + k <=> i <= k)
<1>1. /\ Len(s) \in Nat /\ Len(u) \in Nat /\ DOMAIN s = 1..Len(s) /\ DOMAIN u = 1..Len(u)
      /\ DOMAIN (s \o u) = 1..(Len(s) + Len(u))
  OBVIOUS
<1>2. \A i \in 1..(Len(s) + Len(u)) : i \in 1..Len(s) \/ \E k \in 1..Len(u) : i = Len(s) + k
  <2> SUFFICES ASSUME NEW i \in 1..(Len(s) + Len(u)), i \notin 1..Len(s)
               PROVE  \E k \in 1..Len(u) : i = Len(s) + k
    OBVIOUS
  <2>1. i - Len(s) \in 1..Len(u) /\ i = Len(s) + (i - Len(s))
    BY <1>1
  <2> QED BY <2>1
<1>3. \A k \in 1..Len(u) : Len(s) + k \in 1..(Len(s) + Len(u))
  BY <1>1
<1>4. \A i \in 1..Len(s) : i \in 1..(Len(s) + Len(u))
  BY <1>1
<1>5. DOMAIN (s \o u) = DOMAIN s \cup {Len(s) + i : i \in DOMAIN u}
  BY <1>1, <1>2, <1>3, <1>4
<1>6. ASSUME NEW k \in DOMAIN u
      PROVE  (s \o u)[Len(s) + k] = u[k]
  <2>1. Len(s) + k \in 1..(Len(s) + Len(u)) /\ Len(s) + k > Len(s) /\ (Len(s) + k) - Len(s) = k
    BY <1>1
  <2> QED BY <2>1, Joined
<1>7. \A i \in DOMAIN s : (s \o u)[i] = s[i]
  BY Joined
<1>8. \A i \in DOMAIN s, k \in DOMAIN u : i < Len(s) + k /\ ~(Len(s) + k <= i)
  BY <1>1
<1>9. \A i, k \in DOMAIN u : (Len(s) + i < Len(s) + k <=> i < k)
                             /\ (Len(s) + i <= Len(s) + k <=> i <= k)
  BY <1>1
<1> QED BY <1>5, <1>6, <1>7, <1>8, <1>9

LEMMA JoinedSet ==
  ASSUME NEW S, NEW s \in Seq(S), NEW u \in Seq(S)
  PROVE  ToSet(s \o u) = ToSet(s) \cup ToSet(u)
<1> DEFINE j == s \o u
<1>1. /\ DOMAIN j = DOMAIN s \cup {Len(s) + i : i \in DOMAIN u}
      /\ \A i \in DOMAIN s : j[i] = s[i]
      /\ \A i \in DOMAIN u : j[Len(s) + i] = u[i]
  BY JoinedEntries
<1> HIDE DEF j
<1>2. \A i \in DOMAIN j : j[i] \in ToSet(s) \/ j[i] \in ToSet(u)
  BY <1>1 DEF ToSet
<1>3. \A i \in DOMAIN s : s[i] \in ToSet(j)
  BY <1>1 DEF ToSet
<1>4. \A i \in DOMAIN u : u[i] \in ToSet(j)
  <2>1. \A i \in DOMAIN u : Len(s) + i \in DOMAIN j
    BY <1>1
  <2> QED BY <1>1, <2>1 DEF ToSet
<1>5. ToSet(j) = ToSet(s) \cup ToSet(u)
  BY <1>2, <1>3, <1>4 DEF ToSet
<1> QED BY <1>5 DEF j

(* Copies of another task's events change nothing for a task. *)
LEMMA OthersCopied ==
  ASSUME NEW t, NEW s \in Seq(Copies), NEW u \in Seq(Copies), \A i \in DOMAIN u : u[i].task # t
  PROVE  /\ \A l, n : Merges(t, s, l, n) => Merges(t, s \o u, l, n)
         /\ \A status : Tells(status, t, s) => Tells(status, t, s \o u)
<1>1. \A i : i \in DOMAIN (s \o u) /\ (s \o u)[i].task = t <=> i \in DOMAIN s /\ s[i].task = t
  BY JoinedEntries
<1>2. \A i \in DOMAIN s : (s \o u)[i] = s[i]
  BY JoinedEntries
<1>3. {i \in DOMAIN (s \o u) : (s \o u)[i].task = t} = {i \in DOMAIN s : s[i].task = t}
  BY <1>1
<1>4. ASSUME NEW l, NEW n, Merges(t, s, l, n)
      PROVE  Merges(t, s \o u, l, n)
  <2> DEFINE mine == {i \in DOMAIN s : s[i].task = t}
  <2>1. \A i \in mine : (s \o u)[i] = s[i]
    BY <1>2
  <2>2. {<<(s \o u)[i].tseq, (s \o u)[i].type>> : i \in mine}
          = {<<s[i].tseq, s[i].type>> : i \in mine}
    BY <2>1
  <2>3. \A i, k \in mine : i < k => (s \o u)[i].tseq < (s \o u)[k].tseq
    BY <1>4, <2>1 DEF Merges
  <2> QED BY <1>3, <1>4, <2>2, <2>3 DEF Merges
<1>5. ASSUME NEW status, Tells(status, t, s)
      PROVE  Tells(status, t, s \o u)
  <2>1. {i \in DOMAIN (s \o u) : /\ (s \o u)[i].task = t
                                 /\ (s \o u)[i].type \in {"agent.started", "task.succeeded"}}
          = {i \in DOMAIN s : /\ s[i].task = t
                              /\ s[i].type \in {"agent.started", "task.succeeded"}}
    BY <1>1, <1>2
  <2> QED BY <1>2, <1>5, <2>1 DEF Tells
<1> QED BY <1>4, <1>5

(* Copies of what is appended to the task's own log, but for k events. *)
LEMMA OwnCopied ==
  ASSUME NEW t, NEW s \in Seq(Copies), NEW u \in Seq(Copies), NEW l \in Seq(Events),
         NEW m \in Seq(Events), NEW n \in 0..Len(l), Merges(t, s, l, n), Dense(Len(l), l),
         NEW k \in Nat, k = 0 \/ n = Len(l), Len(m) = k + Len(u),
         \A i \in DOMAIN m : m[i].seq = Len(l) + i,
         \A i \in DOMAIN u : u[i].task = t /\ u[i].tseq = m[k + i].seq /\ u[i].type = m[k + i].type
  PROVE  n + k \in 0..Len(l \o m) /\ Merges(t, s \o u, l \o m, n + k)
<1> DEFINE j == s \o u
           g == l \o m
           old == {i \in DOMAIN s : s[i].task = t}
           new == {Len(s) + i : i \in DOMAIN u}
           mine == {i \in DOMAIN j : j[i].task = t}
<1>1. /\ DOMAIN u = 1..Len(u) /\ DOMAIN m = 1..Len(m)
      /\ Len(u) \in Nat /\ Len(l) \in Nat /\ Len(m) \in Nat
  OBVIOUS
<1>2. mine = old \cup new /\ \A i \in old : j[i] = s[i]
  <2>5. DOMAIN j = DOMAIN s \cup new
    BY JoinedEntries
  <2>6. \A i \in DOMAIN s : j[i] = s[i]
    BY JoinedEntries
  <2>7. \A i \in DOMAIN u : j[Len(s) + i] = u[i]
    BY JoinedEntries
  <2>1. /\ DOMAIN j = DOMAIN s \cup new
        /\ \A i \in DOMAIN s : j[i] = s[i]
        /\ \A i \in DOMAIN u : j[Len(s) + i] = u[i]
    BY <2>5, <2>6, <2>7
  <2> HIDE DEF j
  <2>2. \A i \in new : j[i].task = t
    BY <2>1
  <2> HIDE DEF new
  <2>3. \A i : i \in mine <=> i \in old \/ i \in new
    BY <2>1, <2>2
  <2> HIDE DEF mine
  <2>4. mine = old \cup new
    BY <2>3
  <2> QED BY <2>1, <2>4
<1>3. \A i \in DOMAIN u : j[Len(s) + i] = u[i]
  BY JoinedEntries
<1>4. /\ Len(g) = Len(l) + Len(m)
      /\ \A q \in 1..Len(l) : g[q] = l[q]
      /\ \A q \in 1..Len(m) : g[Len(l) + q] = m[q]
  <2>1. \A q \in DOMAIN l : g[q] = l[q]
    BY JoinedEntries
  <2>2. \A q \in DOMAIN m : g[Len(l) + q] = m[q]
    BY JoinedEntries
  <2>3. Len(g) = Len(l) + Len(m)
    BY Joined
  <2>4. DOMAIN l = 1..Len(l)
    OBVIOUS
  <2> HIDE DEF g
  <2> QED BY <1>1, <2>1, <2>2, <2>3, <2>4
<1>5. {<<j[i].tseq, j[i].type>> : i \in old} = {<<l[q].seq, l[q].type>> : q \in (n + 1)..Len(l)}
  <2>1. {<<j[i].tseq, j[i].type>> : i \in old} = {<<s[i].tseq, s[i].type>> : i \in old}
    BY <1>2
  <2> QED BY <2>1 DEF Merges
<1>6. {<<j[i].tseq, j[i].type>> : i \in new} = {<<m[q].seq, m[q].type>> : q \in (k + 1)..Len(m)}
  <2>1. \A i \in DOMAIN u : /\ j[Len(s) + i].tseq = m[k + i].seq
                            /\ j[Len(s) + i].type = m[k + i].type
    BY <1>3
  <2> HIDE DEF j
  <2>2. ASSUME NEW i \in DOMAIN u
        PROVE  <<j[Len(s) + i].tseq, j[Len(s) + i].type>>
                 \in {<<m[q].seq, m[q].type>> : q \in (k + 1)..Len(m)}
    <3>1. k + i \in (k + 1)..Len(m)
      BY <1>1
    <3> QED BY <2>1, <3>1
  <2>3. ASSUME NEW q \in (k + 1)..Len(m)
        PROVE  <<m[q].seq, m[q].type>> \in {<<j[i].tseq, j[i].type>> : i \in new}
    <3>1. q - k \in DOMAIN u /\ k + (q - k) = q
      BY <1>1
    <3>2. Len(s) + (q - k) \in new
      BY <3>1
    <3>3. <<m[q].seq, m[q].type>> = <<j[Len(s) + (q - k)].tseq, j[Len(s) + (q - k)].type>>
      BY <2>1, <3>1
    <3> HIDE DEF new
    <3> QED BY <3>2, <3>3
  <2>4. \A i \in new : <<j[i].tseq, j[i].type>>
                        \in {<<m[q].seq, m[q].type>> : q \in (k + 1)..Len(m)}
    BY <2>2
  <2> HIDE DEF new
  <2> QED BY <2>3, <2>4
<1>11. {<<g[q].seq, g[q].type>> : q \in (n + k + 1)..Len(g)}
         = {<<l[q].seq, l[q].type>> : q \in (n + 1)..Len(l)}
             \cup {<<m[q].seq, m[q].type>> : q \in (k + 1)..Len(m)}
  <2>1. n \in Nat /\ n <= Len(l)
    BY <1>1
  <2> HIDE DEF g
  <2>2. ASSUME NEW q \in (n + k + 1)..Len(g)
        PROVE  \/ q \in (n + 1)..Len(l) /\ g[q] = l[q]
               \/ \E r \in (k + 1)..Len(m) : g[q] = m[r]
    <3>1. CASE q <= Len(l)
      <4>1. q \in (n + 1)..Len(l) /\ q \in 1..Len(l)
        BY <1>1, <2>1, <3>1
      <4> QED BY <1>4, <4>1
    <3>2. CASE q > Len(l)
      <4>1. q - Len(l) \in (k + 1)..Len(m) /\ q - Len(l) \in 1..Len(m) /\ Len(l) + (q - Len(l)) = q
        BY <1>1, <1>4, <2>1, <3>2
      <4>2. g[q] = m[q - Len(l)]
        BY <1>4, <4>1
      <4> QED BY <4>1, <4>2
    <3> QED BY <1>1, <2>1, <3>1, <3>2
  <2>3. ASSUME NEW q \in (n + 1)..Len(l)
        PROVE  q \in (n + k + 1)..Len(g) /\ g[q] = l[q]
    <3>1. q \in (n + k + 1)..Len(g) /\ q \in 1..Len(l)
      BY <1>1, <1>4, <2>1
    <3> QED BY <1>4, <3>1
  <2>4. ASSUME NEW r \in (k + 1)..Len(m)
        PROVE  Len(l) + r \in (n + k + 1)..Len(g) /\ g[Len(l) + r] = m[r]
    <3>1. Len(l) + r \in (n + k + 1)..Len(g) /\ r \in 1..Len(m)
      BY <1>1, <1>4, <2>1
    <3> QED BY <1>4, <3>1
  <2>5. \A q \in (n + k + 1)..Len(g) :
          <<g[q].seq, g[q].type>> \in {<<l[p].seq, l[p].type>> : p \in (n + 1)..Len(l)}
                                       \cup {<<m[p].seq, m[p].type>> : p \in (k + 1)..Len(m)}
    BY <2>2
  <2>6. \A q \in (n + 1)..Len(l) :
          <<l[q].seq, l[q].type>> \in {<<g[p].seq, g[p].type>> : p \in (n + k + 1)..Len(g)}
    BY <2>3
  <2>7. \A r \in (k + 1)..Len(m) :
          <<m[r].seq, m[r].type>> \in {<<g[p].seq, g[p].type>> : p \in (n + k + 1)..Len(g)}
    BY <2>4
  <2> QED BY <2>5, <2>6, <2>7
<1>7. {<<j[i].tseq, j[i].type>> : i \in mine}
        = {<<g[q].seq, g[q].type>> : q \in (n + k + 1)..Len(g)}
  <2> HIDE DEF j, old, new, mine, g
  <2>1. {<<j[i].tseq, j[i].type>> : i \in mine}
          = {<<j[i].tseq, j[i].type>> : i \in old} \cup {<<j[i].tseq, j[i].type>> : i \in new}
    BY <1>2
  <2> QED BY <1>5, <1>6, <1>11, <2>1
<1>8. \A i \in old : j[i].tseq \in 1..Len(l)
  <2>1. \A q \in (n + 1)..Len(l) : l[q].seq \in 1..Len(l)
    BY <1>1 DEF Dense
  <2>2. ASSUME NEW i \in old
        PROVE  \E q \in (n + 1)..Len(l) : j[i].tseq = l[q].seq
    <3>1. <<j[i].tseq, j[i].type>> \in {<<l[q].seq, l[q].type>> : q \in (n + 1)..Len(l)}
      BY <1>5
    <3> QED BY <3>1
  <2> QED BY <2>1, <2>2
<1>9. \A i \in DOMAIN u : j[Len(s) + i].tseq = Len(l) + (k + i)
  <2>1. \A i \in DOMAIN u : k + i \in DOMAIN m
    BY <1>1
  <2> QED BY <1>3, <2>1
<1>10. ASSUME NEW i \in mine, NEW h \in mine, i < h
       PROVE  j[i].tseq < j[h].tseq
  <2>1. CASE i \in old /\ h \in old
    BY <1>2, <1>10, <2>1 DEF Merges
  <2>2. CASE i \in old /\ h \in new
    <3>1. PICK q \in DOMAIN u : h = Len(s) + q
      BY <2>2
    <3>2. j[h].tseq = Len(l) + (k + q) /\ j[i].tseq \in 1..Len(l) /\ q \in 1..Len(u)
      BY <1>1, <1>8, <1>9, <2>2, <3>1
    <3> HIDE DEF j
    <3> QED BY <1>1, <3>2
  <2>3. CASE i \in new /\ h \in old
    <3>1. PICK q \in DOMAIN u : i = Len(s) + q
      BY <2>3
    <3>2. h < i /\ h \in Int /\ i \in Int
      BY <2>3, <3>1, JoinedEntries
    <3> QED BY <1>10, <3>2
  <2>4. CASE i \in new /\ h \in new
    <3>1. PICK q \in DOMAIN u, r \in DOMAIN u : i = Len(s) + q /\ h = Len(s) + r
      BY <2>4
    <3>2. q < r /\ q \in 1..Len(u) /\ r \in 1..Len(u)
      BY <1>1, <1>10, <3>1, JoinedEntries
    <3>3. j[i].tseq = Len(l) + (k + q) /\ j[h].tseq = Len(l) + (k + r)
      BY <1>9, <3>1
    <3> HIDE DEF j
    <3> QED BY <1>1, <3>2, <3>3
  <2> QED BY <1>2, <2>1, <2>2, <2>3, <2>4
<1>12. n + k \in 0..Len(g)
  <2> HIDE DEF g
  <2> QED BY <1>1, <1>4
<1> QED BY <1>7, <1>10, <1>12 DEF Merges

(* One copy more: the run follows its event. *)
LEMMA OneCopied ==
  ASSUME NEW t, NEW s \in Seq(Copies), NEW c \in Copies, c.task = t, NEW status,
         status # "none", Tells(status, t, s), NEW e, e.type = c.type
  PROVE  RunAfter(status, e) # "none" /\ Tells(RunAfter(status, e), t, Append(s, c))
<1> DEFINE telling == {"agent.started", "task.succeeded"}
           j == Append(s, c)
           n == Len(s) + 1
           old == {i \in DOMAIN s : s[i].task = t /\ s[i].type \in telling}
           told == {i \in DOMAIN j : j[i].task = t /\ j[i].type \in telling}
<1>1. /\ DOMAIN j = DOMAIN s \cup {n} /\ j[n] = c /\ \A i \in DOMAIN s : j[i] = s[i]
      /\ \A i \in DOMAIN s : i <= n /\ ~(n <= i)
      /\ n <= n
  OBVIOUS
<1>2. told = IF c.type \in telling THEN old \cup {n} ELSE old
  BY <1>1
<1>3. /\ c.type = "agent.started" => RunAfter(status, e) = "running"
      /\ c.type = "task.succeeded" => RunAfter(status, e) = "succeeded"
      /\ c.type \notin telling => RunAfter(status, e) = status
      /\ RunAfter(status, e) # "none"
  BY DEF RunAfter
<1>4. CASE c.type \in telling
  <2>1. \A i \in told : (\A k \in told : k <= i) => i = n
    BY <1>1, <1>2, <1>4
  <2>2. RunAfter(status, e) = IF j[n].type = "agent.started" THEN "running" ELSE "succeeded"
    BY <1>1, <1>3, <1>4
  <2>3. told # {}
    BY <1>2, <1>4
  <2> QED BY <1>3, <2>1, <2>2, <2>3 DEF Tells
<1>5. CASE c.type \notin telling
  <2>1. told = old /\ \A i \in old : j[i] = s[i]
    BY <1>1, <1>2, <1>5
  <2>2. RunAfter(status, e) = status
    BY <1>3, <1>5
  <2>3. /\ old = {} => status = "created"
        /\ \A i \in old : (\A k \in old : k <= i) =>
             status = IF s[i].type = "agent.started" THEN "running" ELSE "succeeded"
    BY DEF Tells
  <2>4. /\ told = {} => status = "created"
        /\ \A i \in told : (\A k \in told : k <= i) =>
             status = IF j[i].type = "agent.started" THEN "running" ELSE "succeeded"
    BY <2>1, <2>3
  <2> QED BY <1>3, <2>2, <2>4 DEF Tells
<1> QED BY <1>4, <1>5

LEMMA NothingTold ==
  ASSUME NEW t, NEW s, NoneOf(t, s)
  PROVE  /\ Tells("created", t, s)
         /\ \A l \in Seq(Events) : Len(l) \in 0..Len(l) /\ Merges(t, s, l, Len(l))
<1>1. {i \in DOMAIN s : s[i].task = t} = {}
  BY DEF NoneOf
<1>2. ASSUME NEW l \in Seq(Events)
      PROVE  (Len(l) + 1)..Len(l) = {} /\ Len(l) \in 0..Len(l)
  OBVIOUS
<1> QED BY <1>1, <1>2 DEF Tells, Merges

-----------------------------------------------------------------------------
(* The steps that change no row.                                           *)

LEMMA NothingKnown == Known(NoTxn) /\ NoTxn.run = "none" /\ NoTxn.pc = "none"
  BY DEF NoTxn, Known

LEMMA KnownMoves ==
  ASSUME DInv, SInv, NEW w \in Writers, NEW x, txn' = [txn EXCEPT ![w] = x],
         Known(x), UNCHANGED rows, past'.orphans = past.orphans
  PROVE  SInv'
<1>1. \A v \in Writers : txn'[v] = IF v = w THEN x ELSE txn[v]
  BY DEF DInv, Typed
<1>2. ASSUME NEW v \in Writers
      PROVE  Known(txn[v])'
  <2>1. Known(txn'[v])
    BY <1>1 DEF SInv
  <2> QED BY <2>1 DEF Known, Mirrors, rows
<1>3. ASSUME NEW t \in Tasks, Merged(t)
      PROVE  Merged(t)'
  BY <1>3 DEF Merged, rows
<1> QED BY <1>2, <1>3 DEF SInv, rows

LEMMA KnownEnds ==
  ASSUME DInv, SInv, NEW w \in Writers, Rollback(w), UNCHANGED rows,
         past'.orphans = past.orphans
  PROVE  SInv'
<1>1. txn' = [txn EXCEPT ![w] = NoTxn]
  BY DEF Rollback, Put
<1> QED BY <1>1, NothingKnown, KnownMoves

LEMMA NothingSkipped ==
  ASSUME NEW x, x.events = <<>>, x.shared = <<>>, x.pc # "session"
  PROVE  Skipped(x) = 0 /\ DOMAIN x.shared = {}
<1>1. Len(<<>>) = 0 /\ DOMAIN <<>> = {}
  OBVIOUS
<1>2. Len(x.events) = 0 /\ Len(x.shared) = 0
  BY <1>1
<1>3. Skipped(x) = 0 - 0 - 0
  BY <1>2, Zenon DEF Skipped
<1> QED BY <1>1, <1>3

(* A transaction that has done nothing knows nothing. *)
LEMMA NewlyKnown ==
  ASSUME NEW x, x.holds = {}, x.events = <<>>, x.shared = <<>>, x.run = "none",
         x.pc # "session", x.op # "create"
  PROVE  Known(x)
<1>1. Skipped(x) = 0 /\ DOMAIN x.shared = {}
  BY NothingSkipped
<1> QED BY <1>1 DEF Known, Mirrors

LEMMA KnownBegins ==
  ASSUME DInv, SInv, NEW w \in Writers,
         \/ \E t \in Tasks : \/ BeginCreate(w, t) \/ BeginMessage(w, t)
                            \/ BeginWrite(w, t) \/ BeginDelete(w, t)
         \/ BeginDeleteSession(w)
  PROVE  SInv'
<1>1. ASSUME NEW t \in Tasks, BeginCreate(w, t) \/ BeginMessage(w, t)
      PROVE  SInv'
  <2>1. PICK pc \in {"link", "find"} : txn' = [txn EXCEPT ![w] = Created(pc, t)]
    BY <1>1, Zenon DEF BeginCreate, BeginMessage, Put
  <2>2. UNCHANGED rows /\ past' = past /\ task[t] = NoRow
    BY <1>1 DEF BeginCreate, BeginMessage, Fresh
  <2> DEFINE x == Created(pc, t)
  <2>3. /\ x.op = "create" /\ x.pc = pc /\ x.task = t /\ x.holds = {t} /\ ~x.rewrote
        /\ x.events = <<>> /\ x.shared = <<>> /\ x.run = "none"
    BY DEF NoTxn, Created
  <2> HIDE DEF x
  <2>4. Session \notin x.holds /\ x.pc # "session"
    BY <2>3, EventLogAssumption
  <2>5. Skipped(x) = 0 /\ DOMAIN x.shared = {}
    BY <2>3, <2>4, NothingSkipped
  <2>6. Known(x)
    BY <2>2, <2>3, <2>4, <2>5 DEF Known, Mirrors, NoRow
  <2> QED BY <2>1, <2>2, <2>6, KnownMoves DEF x
<1>2. ASSUME NEW t \in Tasks, BeginWrite(w, t)
      PROVE  SInv'
  <2> DEFINE x == [NoTxn EXCEPT !.op = "write", !.pc = "open", !.task = t]
  <2>1. txn' = [txn EXCEPT ![w] = x] /\ UNCHANGED rows /\ past' = past
    BY <1>2, Zenon DEF BeginWrite, Put
  <2>2. Known(x)
    <3>1. /\ x.op = "write" /\ x.pc = "open" /\ x.holds = {} /\ x.events = <<>>
          /\ x.shared = <<>> /\ x.run = "none"
      BY DEF NoTxn
    <3> HIDE DEF x
    <3> QED BY <3>1, NewlyKnown
  <2> HIDE DEF x
  <2> QED BY <2>1, <2>2, KnownMoves
<1>3. ASSUME NEW t \in Tasks, BeginDelete(w, t)
      PROVE  SInv'
  <2> DEFINE x == [NoTxn EXCEPT !.op = "delete_task", !.pc = "delete", !.doomed = {t}]
  <2>1. txn' = [txn EXCEPT ![w] = x] /\ UNCHANGED rows /\ past' = past
    BY <1>3, Zenon DEF BeginDelete, Put
  <2>2. Known(x)
    <3>1. /\ x.op = "delete_task" /\ x.pc = "delete" /\ x.holds = {} /\ x.events = <<>>
          /\ x.shared = <<>> /\ x.run = "none"
      BY DEF NoTxn
    <3> HIDE DEF x
    <3> QED BY <3>1, NewlyKnown
  <2> HIDE DEF x
  <2> QED BY <2>1, <2>2, KnownMoves
<1>4. CASE BeginDeleteSession(w)
  <2> DEFINE D == {u \in Tasks : There(u)}
             x == [NoTxn EXCEPT !.op = "delete_session", !.pc = "unlink", !.doomed = D]
  <2>1. txn' = [txn EXCEPT ![w] = x] /\ UNCHANGED rows /\ past' = past
    BY <1>4, Zenon DEF BeginDeleteSession, Put
  <2> HIDE DEF D
  <2>2. Known(x)
    <3>1. /\ x.op = "delete_session" /\ x.pc = "unlink" /\ x.holds = {} /\ x.events = <<>>
          /\ x.shared = <<>> /\ x.run = "none"
      BY DEF NoTxn
    <3> HIDE DEF x
    <3> QED BY <3>1, NewlyKnown
  <2> HIDE DEF x
  <2> QED BY <2>1, <2>2, KnownMoves
<1> QED BY <1>1, <1>2, <1>3, <1>4

(* A step that only moves the place, or what is carried, tells nothing new. *)
LEMMA KnownStill ==
  ASSUME NEW y, NEW x, Known(y), y.op = "create", y.pc \in {"find", "load"},
         x.pc \in {"load", "link"}, x.op = "create", x.task = y.task, x.holds = y.holds,
         x.rewrote = y.rewrote, x.events = y.events, x.shared = y.shared, x.run = y.run,
         Session \notin y.holds
  PROVE  Known(x)
<1>1. Skipped(x) = Skipped(y)
  BY DEF Skipped
<1> QED BY <1>1 DEF Known, Mirrors

LEMMA KnownFinds ==
  ASSUME DInv, SInv, NEW w \in Writers, FindSession(w) \/ LoadSession(w)
  PROVE  SInv'
<1> DEFINE y == txn[w]
<1>1. /\ UNCHANGED rows /\ past'.orphans = past.orphans
      /\ y \in Txns /\ Known(y) /\ y.op = "create" /\ y.pc \in {"find", "load"}
  <2>1. UNCHANGED rows /\ past'.orphans = past.orphans
    <3>1. past \in [refused : BOOLEAN, carried : BOOLEAN, orphans : SUBSET Tasks]
      BY DEF DInv, Typed
    <3>2. CASE FindSession(w)
      BY <3>2 DEF FindSession
    <3>3. CASE LoadSession(w)
      <4>1. UNCHANGED rows
        BY <3>3 DEF LoadSession
      <4>2. past' = past \/ past' = [past EXCEPT !.carried = @ \/ Carried(w) > 0]
        BY <3>3 DEF LoadSession
      <4> QED BY <3>1, <4>1, <4>2
    <3> QED BY <3>2, <3>3
  <2> QED BY <2>1 DEF FindSession, LoadSession, DInv, Typed, SInv, WellFormed
<1>2. Session \notin y.holds
  BY <1>1 DEF Known
<1>3. CASE Rollback(w)
  BY <1>1, <1>3, KnownEnds
<1>4. ASSUME ~Rollback(w)
      PROVE  \E x \in {[y EXCEPT !.pc = "load", !.found = TRUE, !.carry = session.seq],
                      [y EXCEPT !.pc = "link"],
                      [y EXCEPT !.pc = "link", !.carry = Carried(w)]} :
               txn' = [txn EXCEPT ![w] = x]
  BY <1>4 DEF FindSession, LoadSession, Put
<1>5. ASSUME ~Rollback(w)
      PROVE  SInv'
  <2>1. PICK x \in {[y EXCEPT !.pc = "load", !.found = TRUE, !.carry = session.seq],
                   [y EXCEPT !.pc = "link"],
                   [y EXCEPT !.pc = "link", !.carry = Carried(w)]} :
               txn' = [txn EXCEPT ![w] = x]
    BY <1>4, <1>5
  <2>2. /\ x.pc \in {"load", "link"} /\ x.op = "create" /\ x.task = y.task
        /\ x.holds = y.holds /\ x.rewrote = y.rewrote /\ x.events = y.events
        /\ x.shared = y.shared /\ x.run = y.run
    BY <1>1, <2>1 DEF Txns
  <2>3. Known(x)
    BY <1>1, <1>2, <2>2, KnownStill
  <2> QED BY <1>1, <2>1, <2>3, KnownMoves
<1> QED BY <1>3, <1>5

LEMMA KnownLinks ==
  ASSUME DInv, SInv, NEW w \in Writers, LinkSession(w)
  PROVE  SInv'
<1>1. UNCHANGED rows /\ past' = past
  BY DEF LinkSession
<1>2. CASE Rollback(w)
  BY <1>1, <1>2, KnownEnds
<1>3. CASE ~Rollback(w)
  <2> DEFINE y == txn[w]
             x == [y EXCEPT !.pc = "open", !.holds = @ \cup {Session}, !.run = "created"]
  <2>1. /\ txn' = [txn EXCEPT ![w] = x] /\ y.pc = "link" /\ y.found = There(Session)
        /\ y \in Txns /\ Known(y) /\ y.op = "create" /\ y.task \in Tasks /\ y.shared = <<>>
    BY <1>3 DEF LinkSession, Put, DInv, Typed, SInv, WellFormed
  <2>2. /\ x.op = "create" /\ x.pc = "open" /\ x.task = y.task /\ Session \in x.holds
        /\ x.rewrote = y.rewrote /\ x.found = y.found /\ x.events = y.events
        /\ x.shared = y.shared /\ x.run = "created"
    BY <2>1 DEF Txns
  <2> HIDE DEF x, y
  <2>3. task[y.task].life = "absent" /\ ~y.rewrote /\ y.task \notin past.orphans
    BY <2>1 DEF Known, SInv
  <2>4. session.life = "there" <=> x.found
    BY <2>1, <2>2 DEF There
  <2>5. Tells("created", y.task, sessionLog \o <<>>)
    <3>1. Tells("created", y.task, sessionLog)
      BY <2>1, <2>3, NothingTold DEF SInv
    <3>2. sessionLog \o <<>> = sessionLog
      BY DEF DInv, Typed
    <3> QED BY <3>1, <3>2
  <2>6. Mirrors(x)
    <3>1. Skipped(x) = Skipped(y)
      BY <2>1, <2>2 DEF Skipped
    <3> QED BY <2>1, <2>2, <3>1 DEF Known, Mirrors
  <2>7. Known(x)
    BY <2>1, <2>2, <2>3, <2>4, <2>5, <2>6 DEF Known
  <2> QED BY <1>1, <2>1, <2>7, KnownMoves DEF y
<1> QED BY <1>2, <1>3

LEMMA KnownRewrites ==
  ASSUME DInv, SInv, NEW w \in Writers, Rewrite(w)
  PROVE  SInv'
<1>1. UNCHANGED rows /\ past' = past
  BY DEF Rewrite
<1>2. CASE Rollback(w)
  BY <1>1, <1>2, KnownEnds
<1>3. CASE ~Rollback(w)
  <2> DEFINE y == txn[w]
             x == [y EXCEPT !.rewrote = TRUE, !.holds = @ \cup {y.task},
                            !.row = Rewritten(w, versions + 1)]
  <2>1. /\ txn' = [txn EXCEPT ![w] = x] /\ y.op = "write" /\ y.pc = "open"
        /\ y \in Txns /\ Known(y) /\ y.task \in Tasks
    BY <1>3 DEF Rewrite, Put, DInv, Typed, SInv, WellFormed
  <2>2. /\ x.op = y.op /\ x.pc = y.pc /\ x.task = y.task /\ (Session \in x.holds <=> Session \in y.holds)
        /\ x.found = y.found /\ x.events = y.events
        /\ x.shared = y.shared /\ x.run = y.run
    BY <2>1, EventLogAssumption DEF Txns
  <2> HIDE DEF x, y
  <2>3. Mirrors(x)
    <3>1. Skipped(x) = Skipped(y)
      BY <2>2 DEF Skipped
    <3> QED BY <2>1, <2>2, <3>1 DEF Known, Mirrors
  <2>4. Known(x)
    BY <2>1, <2>2, <2>3 DEF Known
  <2> QED BY <1>1, <2>1, <2>4, KnownMoves DEF y
<1> QED BY <1>2, <1>3

LEMMA KnownAppends ==
  ASSUME DInv, SInv, NEW w \in Writers, NEW type \in Types, AppendEvent(w, type)
  PROVE  SInv'
<1>1. UNCHANGED rows /\ past' = past
  BY DEF AppendEvent
<1>2. CASE Rollback(w)
  BY <1>1, <1>2, KnownEnds
<1>3. CASE ~Rollback(w)
  <2> DEFINE y == txn[w]
             e == [task |-> y.task, type |-> type, seq |-> Numbered(w).seq]
             x == [y EXCEPT !.pc = "session", !.holds = @ \cup {y.task},
                            !.row = Numbered(w), !.events = Append(@, e)]
  <2>1. /\ txn' = [txn EXCEPT ![w] = x] /\ y.op \in {"create", "write"} /\ y.pc = "open"
        /\ y \in Txns /\ Known(y) /\ y.task \in Tasks /\ Current(w).life = "there"
    BY <1>3 DEF AppendEvent, Put, DInv, Typed, SInv, WellFormed
  <2>2. /\ x.op = y.op /\ x.pc = "session" /\ x.task = y.task
        /\ (Session \in x.holds <=> Session \in y.holds)
        /\ x.found = y.found /\ x.rewrote = y.rewrote /\ x.events = Append(y.events, e)
        /\ x.shared = y.shared /\ x.run = y.run
    <3> HIDE DEF e
    <3> QED BY <2>1, EventLogAssumption DEF Txns
  <2>3. Numbered(w).seq \in Nat
    <3>1. Current(w) \in TaskRows
      BY <2>1 DEF Current, Txns, DInv, Typed
    <3> QED BY <3>1 DEF Numbered, TaskRows
  <2>4. e \in Events /\ e.task = y.task /\ y.events \in Seq(Events) /\ y.shared \in Seq(Copies)
    BY <2>1, <2>3 DEF Events, Txns
  <2> HIDE DEF x, y, e
  <2>5. /\ Len(x.events) = Len(y.events) + 1 /\ DOMAIN y.events \subseteq DOMAIN x.events
        /\ \A i \in DOMAIN y.events : x.events[i] = y.events[i]
        /\ \A i \in DOMAIN x.events : i \in DOMAIN y.events \/ x.events[i] = e
    BY <2>2, <2>4
  <2>6. Mirrors(x)
    <3>1. Len(y.shared) \in Nat /\ Len(y.events) \in Nat
      BY <2>4
    <3>2. Skipped(x) = Skipped(y)
      BY <2>1, <2>2, <2>5, <3>1 DEF Skipped
    <3>3. Mirrors(y)
      BY <2>1 DEF Known
    <3> QED BY <2>2, <2>5, <3>2, <3>3 DEF Mirrors
  <2>7. \A i \in DOMAIN x.events : x.events[i].task = x.task
    BY <2>1, <2>2, <2>4, <2>5 DEF Known
  <2>8. Known(x)
    BY <2>1, <2>2, <2>6, <2>7 DEF Known
  <2> QED BY <1>1, <2>1, <2>8, KnownMoves DEF y
<1> QED BY <1>2, <1>3

(* A write that finds no session is of a task that was left behind. *)
LEMMA TaskOfAppend ==
  ASSUME DInv, SInv, NEW w \in Writers, txn[w].pc = "session", txn[w].op = "write"
  PROVE  /\ task[txn[w].task].life = "there"
         /\ ~There(Session) => txn[w].task \in past.orphans /\ sessionLog = <<>>
                               /\ txn[w].shared = <<>>
<1> DEFINE y == txn[w]
<1>1. y \in Txns /\ WellFormed(y) /\ Fits(y) /\ Known(y) /\ y.task \in Tasks
  BY DEF DInv, Typed, SInv, WellFormed
<1>2. task[y.task].life = "there"
  <2>1. y.task \in y.holds
    BY <1>1 DEF WellFormed
  <2> QED BY <1>1, <2>1 DEF Fits
<1>3. ASSUME ~There(Session)
      PROVE  y.task \in past.orphans /\ sessionLog = <<>> /\ y.shared = <<>>
  <2>1. session.life # "there"
    BY <1>3 DEF There
  <2>2. Session \notin y.holds
    BY <1>1, <2>1 DEF Known
  <2> QED BY <1>1, <1>2, <2>1, <2>2 DEF SInv, WellFormed
<1> QED BY <1>2, <1>3

LEMMA KnownShares ==
  ASSUME DInv, SInv, NEW w \in Writers, AppendSessionEvent(w)
  PROVE  SInv'
<1> DEFINE y == txn[w]
           e == Last(y.events)
<1>1. /\ UNCHANGED rows /\ past' = past /\ y.pc = "session"
      /\ y \in Txns /\ WellFormed(y) /\ Fits(y) /\ Known(y) /\ y.op \in {"create", "write"}
      /\ y.task \in Tasks /\ y.events # <<>>
  BY DEF AppendSessionEvent, DInv, Typed, SInv, WellFormed
<1>2. /\ y.shared \in Seq(Copies) /\ y.events \in Seq(Events) /\ sessionLog \in Seq(Copies)
      /\ Len(y.events) \in DOMAIN y.events /\ e = y.events[Len(y.events)] /\ e \in Events
  BY <1>1, LastOne DEF Txns, DInv, Typed
<1>3. e.task = y.task
  BY <1>1, <1>2 DEF Known
<1>4. CASE There(Session) \/ y.op = "create"
  <2> DEFINE n == IF y.shared # <<>> THEN Last(y.shared).seq
                  ELSE IF y.carry > 0 THEN y.carry ELSE session.seq
             c == [task |-> e.task, type |-> e.type, tseq |-> e.seq, seq |-> n + 1]
             r == RunAfter(RunRead(w), e)
             x == [y EXCEPT !.pc = "open", !.holds = @ \cup {Session},
                            !.shared = Append(y.shared, c), !.run = r]
  <2>1. txn' = [txn EXCEPT ![w] = x]
    BY <1>4 DEF AppendSessionEvent, Put, Shared
  <2>2. /\ x.op = y.op /\ x.pc = "open" /\ x.task = y.task /\ Session \in x.holds
        /\ x.found = y.found /\ x.rewrote = y.rewrote /\ x.events = y.events
        /\ x.shared = Append(y.shared, c) /\ x.run = r
    <3> HIDE DEF c, r
    <3> QED BY <1>1 DEF Txns
  <2>3. n \in Nat
    <3>1. session.seq \in Nat /\ y.carry \in Nat
      BY <1>1 DEF DInv, Typed, Txns
    <3>2. y.shared # <<>> => Last(y.shared) \in Copies
      BY <1>2, LastOne
    <3> QED BY <3>1, <3>2 DEF Copies
  <2>4. c \in Copies /\ c.task = y.task /\ c.tseq = e.seq /\ c.type = e.type
    <3> HIDE DEF n, e, y
    <3> QED BY <1>2, <1>3, <2>3 DEF Events, Copies
  <2>5. \/ RunRead(w) = "none" /\ y.task \in past.orphans
        \/ /\ RunRead(w) # "none" /\ y.task \notin past.orphans
           /\ Tells(RunRead(w), y.task, sessionLog \o y.shared)
    <3>1. CASE y.run # "none"
      BY <1>1, <3>1 DEF RunRead, Known
    <3>2. CASE y.run = "none"
      <4>1. y.op = "write" /\ RunRead(w) = run[y.task]
        BY <1>1, <3>2 DEF RunRead, Known
      <4>2. task[y.task].life = "there"
        BY <1>1, <4>1, TaskOfAppend
      <4>3. CASE y.task \in past.orphans
        BY <4>1, <4>3 DEF SInv
      <4>4. CASE y.task \notin past.orphans
        <5>1. y.shared = <<>>
          BY <1>1, <3>2, <4>4 DEF Known
        <5>2. sessionLog \o y.shared = sessionLog
          BY <1>2, <5>1
        <5>3. run[y.task] # "none" /\ Tells(run[y.task], y.task, sessionLog)
          <6> HIDE DEF y
          <6> QED BY <1>1, <4>2, <4>4 DEF SInv
        <5> QED BY <4>1, <4>4, <5>2, <5>3
      <4> QED BY <4>3, <4>4
    <3> QED BY <3>1, <3>2
  <2>6. RunRead(w) = "none" => r = "none"
    BY DEF RunAfter
  <2>7. RunRead(w) # "none" =>
          r # "none" /\ Tells(r, y.task, sessionLog \o Append(y.shared, c))
    <3> SUFFICES ASSUME RunRead(w) # "none"
                 PROVE  r # "none" /\ Tells(r, y.task, sessionLog \o Append(y.shared, c))
      OBVIOUS
    <3>1. sessionLog \o y.shared \in Seq(Copies)
      BY <1>2
    <3>2. r # "none" /\ Tells(r, y.task, Append(sessionLog \o y.shared, c))
      <4> HIDE DEF c
      <4> QED BY <2>4, <2>5, <3>1, OneCopied
    <3>3. sessionLog \o Append(y.shared, c) = Append(sessionLog \o y.shared, c)
      <4> HIDE DEF c, y
      <4> QED BY <1>2, <2>4
    <3> HIDE DEF c, r
    <3> QED BY <3>2, <3>3
  <2> HIDE DEF c, r, x, y, n, e
  <2>8. /\ Len(x.shared) = Len(y.shared) + 1
        /\ \A i \in DOMAIN y.shared : x.shared[i] = y.shared[i]
        /\ \A i \in DOMAIN x.shared : i \in DOMAIN y.shared \/ i = Len(x.shared)
        /\ x.shared[Len(x.shared)] = c
    BY <1>2, <2>2, <2>4
  <2>9. Mirrors(x)
    <3>1. /\ Mirrors(y) /\ Len(y.shared) \in Nat /\ Len(y.events) \in Nat
          /\ Skipped(y) \in Nat
      BY <1>1, <1>2 DEF Known, Mirrors
    <3>2. Skipped(x) = Skipped(y) /\ Skipped(y) + Len(x.shared) = Len(y.events)
      <4> DEFINE a == Len(y.events)
                 b == Len(y.shared)
      <4>1. a \in Nat /\ b \in Nat /\ Len(x.shared) = b + 1
        BY <2>8, <3>1
      <4>2. Skipped(y) = a - b - 1
        BY <1>1 DEF Skipped
      <4>3. Skipped(x) = a - Len(x.shared) - 0
        BY <2>2 DEF Skipped
      <4> HIDE DEF a, b
      <4>4. Skipped(x) = Skipped(y) /\ Skipped(y) + Len(x.shared) = a
        BY <4>1, <4>2, <4>3
      <4> QED BY <4>4 DEF a
    <3>4. ASSUME NEW i \in DOMAIN x.shared
          PROVE  /\ Skipped(x) + i \in DOMAIN x.events
                 /\ x.shared[i].tseq = x.events[Skipped(x) + i].seq
                 /\ x.shared[i].type = x.events[Skipped(x) + i].type
      <4>1. CASE i \in DOMAIN y.shared
        BY <2>2, <2>8, <3>1, <3>2, <4>1 DEF Mirrors
      <4>2. CASE i = Len(x.shared)
        BY <1>2, <2>2, <2>4, <2>8, <3>2, <4>2
      <4> QED BY <2>8, <4>1, <4>2
    <3> QED BY <2>2, <3>1, <3>2, <3>4 DEF Mirrors
  <2>10. \A i \in DOMAIN x.shared : x.shared[i].task = x.task
    <3>1. \A i \in DOMAIN y.shared : y.shared[i].task = y.task
      BY <1>1 DEF Known
    <3> QED BY <2>2, <2>4, <2>8, <3>1
  <2>11. session.life = "there" <=> ~(x.op = "create" /\ ~x.found)
    <3>1. CASE y.op = "create"
      <4>1. Session \in y.holds
        BY <1>1, <3>1 DEF Known
      <4> QED BY <1>1, <2>2, <4>1 DEF Known
    <3>2. CASE y.op # "create"
      BY <1>4, <2>2, <3>2 DEF There
    <3> QED BY <3>1, <3>2
  <2>12. x.op = "create" => x.run # "none"
    <3>1. y.op = "create" => RunRead(w) # "none"
      BY <1>1 DEF Known, RunRead, y
    <3> QED BY <2>2, <2>7, <3>1
  <2>13. /\ x.run = "none" => x.task \in past.orphans
         /\ x.run # "none" => /\ x.task \notin past.orphans
                              /\ Tells(x.run, x.task, sessionLog \o x.shared)
    BY <2>2, <2>5, <2>6, <2>7
  <2>14. Known(x)
    BY <1>1, <2>2, <2>9, <2>10, <2>11, <2>12, <2>13 DEF Known
  <2> QED BY <1>1, <2>1, <2>14, KnownMoves DEF y
<1>5. CASE ~(There(Session) \/ y.op = "create")
  <2> DEFINE x == [y EXCEPT !.pc = "open"]
  <2>1. txn' = [txn EXCEPT ![w] = x]
    BY <1>5 DEF AppendSessionEvent, Put
  <2>2. /\ x.op = y.op /\ x.pc = "open" /\ x.task = y.task /\ x.holds = y.holds
        /\ x.found = y.found /\ x.rewrote = y.rewrote /\ x.events = y.events
        /\ x.shared = y.shared /\ x.run = y.run
    BY <1>1 DEF Txns
  <2>3. y.task \in past.orphans /\ sessionLog = <<>> /\ y.shared = <<>> /\ y.op = "write"
    BY <1>1, <1>5, TaskOfAppend
  <2> HIDE DEF x, y, e
  <2>4. Mirrors(x)
    <3>1. Skipped(x) \in Nat
      <4>1. Len(y.events) \in Nat /\ Len(y.shared) = 0
        BY <1>2, <2>3
      <4> QED BY <2>2, <4>1 DEF Skipped
    <3>2. DOMAIN x.shared = {} /\ NoneOf(x.task, sessionLog)
      BY <2>2, <2>3 DEF NoneOf
    <3> QED BY <2>2, <2>3, <3>1, <3>2 DEF Mirrors
  <2>5. Known(x)
    BY <1>1, <2>2, <2>3, <2>4 DEF Known
  <2> QED BY <1>1, <2>1, <2>5, KnownMoves DEF y
<1> QED BY <1>4, <1>5

LEMMA KnownLocks ==
  ASSUME DInv, SInv, NEW w \in Writers,
         DeleteSessionRow(w) \/ \E t \in Tasks : DeleteTaskRow(w, t)
  PROVE  SInv'
<1>1. UNCHANGED rows /\ past' = past
  BY DEF DeleteSessionRow, DeleteTaskRow
<1>2. CASE Rollback(w)
  BY <1>1, <1>2, KnownEnds
<1> DEFINE y == txn[w]
<1>3. y \in Txns /\ WellFormed(y) /\ Known(y)
  BY DEF DInv, Typed, SInv
<1>4. CASE DeleteSessionRow(w) /\ There(Session)
  <2> DEFINE x == [y EXCEPT !.pc = "delete", !.holds = {Session}]
  <2>1. txn' = [txn EXCEPT ![w] = x] /\ y.op = "delete_session"
    BY <1>3, <1>4 DEF DeleteSessionRow, Put, WellFormed
  <2>2. /\ x.op = y.op /\ x.pc = "delete" /\ x.task = y.task /\ x.holds = {Session}
        /\ x.found = y.found /\ x.events = y.events /\ x.shared = y.shared /\ x.run = y.run
    BY <1>3 DEF Txns
  <2> HIDE DEF x, y
  <2>3. Known(x)
    BY <1>3, <1>4, <2>1, <2>2 DEF Known, There
  <2> QED BY <1>1, <2>1, <2>3, KnownMoves DEF y
<1>5. CASE DeleteSessionRow(w) /\ ~There(Session)
  <2> DEFINE x == [y EXCEPT !.op = "delete_task", !.pc = "delete"]
  <2>1. txn' = [txn EXCEPT ![w] = x] /\ y.op = "delete_session"
    BY <1>3, <1>5 DEF DeleteSessionRow, Put, WellFormed
  <2>2. /\ x.op = "delete_task" /\ x.pc = "delete" /\ x.task = y.task /\ x.holds = y.holds
        /\ x.found = y.found /\ x.events = y.events /\ x.shared = y.shared /\ x.run = y.run
    BY <1>3 DEF Txns
  <2> HIDE DEF x, y
  <2>3. Known(x)
    BY <1>3, <2>1, <2>2 DEF Known
  <2> QED BY <1>1, <2>1, <2>3, KnownMoves DEF y
<1>6. ASSUME NEW t \in Tasks, DeleteTaskRow(w, t), ~Rollback(w)
      PROVE  SInv'
  <2> DEFINE x == [y EXCEPT !.holds = @ \cup {t}]
  <2>1. /\ txn' = [txn EXCEPT ![w] = x] /\ y.op \in {"delete_task", "delete_session"}
        /\ t # Session
    BY <1>3, <1>6, EventLogAssumption DEF DeleteTaskRow, Put, WellFormed
  <2>2. /\ x.op = y.op /\ x.pc = y.pc /\ x.task = y.task /\ x.holds = y.holds \cup {t}
        /\ x.found = y.found /\ x.events = y.events /\ x.shared = y.shared /\ x.run = y.run
    BY <1>3 DEF Txns
  <2> HIDE DEF x, y
  <2>3. Known(x)
    BY <1>3, <2>1, <2>2 DEF Known
  <2> QED BY <1>1, <2>1, <2>3, KnownMoves DEF y
<1> QED BY <1>2, <1>4, <1>5, <1>6

-----------------------------------------------------------------------------
(* Commits.                                                                *)

(* What is true of a transaction that commits, and of the rows after it. *)
LEMMA CommitFacts ==
  ASSUME DInv, SInv, NEW w \in Writers, Commit(w), ~Taken(w)
  PROVE  LET x == txn[w]
             t == txn[w].task
         IN /\ x \in Txns /\ WellFormed(x) /\ Fits(x) /\ Known(x) /\ t \in Tasks /\ t \in x.holds
            /\ x.op \in {"create", "write"} /\ x.pc = "open" /\ past' = past
            /\ task'[t].life = "there" /\ log'[t] = log[t] \o x.events
            /\ run'[t] = IF x.run = "none" THEN run[t] ELSE x.run
            /\ \A u \in Tasks \ {t} : /\ task'[u] = task[u] /\ log'[u] = log[u]
                                      /\ run'[u] = run[u]
            /\ sessionLog' = sessionLog \o x.shared
            /\ x.shared = <<>> => session' = session /\ sessionLog' = sessionLog
            /\ x.shared # <<>> => session'.life = "there"
            /\ x.op = "create" => x.shared # <<>>
            /\ task[t].life = IF x.op = "create" THEN "absent" ELSE "there"
            /\ \A v \in Writers : txn'[v] = IF v = w THEN NoTxn ELSE txn[v]
<1> DEFINE x == txn[w]
           t == txn[w].task
<1>1. /\ x \in Txns /\ WellFormed(x) /\ Fits(x) /\ Known(x) /\ t \in Tasks /\ t \in x.holds
      /\ x.op \in {"create", "write"} /\ x.pc = "open" /\ x.row.life = "there"
      /\ x.events # <<>> \/ x.rewrote
  BY DEF DInv, Typed, SInv, WellFormed, Commit, Complete
<1>2. /\ task' = [task EXCEPT ![t] = x.row] /\ log' = [log EXCEPT ![t] = @ \o x.events]
      /\ sessionLog' = sessionLog \o x.shared /\ past' = past
      /\ session' = IF x.shared = <<>> THEN session
                    ELSE [life |-> "there", seq |-> Last(x.shared).seq,
                          born |-> session.born + (IF There(Session) THEN 0 ELSE 1)]
      /\ txn' = [txn EXCEPT ![w] = NoTxn]
      /\ run' = [run EXCEPT ![t] = IF x.run = "none" THEN @ ELSE x.run]
  BY CommitEffects
<1>3. /\ task'[t].life = "there" /\ log'[t] = log[t] \o x.events
      /\ \A u \in Tasks \ {t} : task'[u] = task[u] /\ log'[u] = log[u]
  BY <1>1, <1>2 DEF DInv, Typed
<1>4. /\ run'[t] = IF x.run = "none" THEN run[t] ELSE x.run
      /\ \A u \in Tasks \ {t} : run'[u] = run[u]
  BY <1>1, <1>2 DEF DInv, Typed
<1>5. \A v \in Writers : txn'[v] = IF v = w THEN NoTxn ELSE txn[v]
  BY <1>2 DEF DInv, Typed
<1>6. x.shared = <<>> => session' = session /\ sessionLog' = sessionLog
  <2>1. sessionLog \in Seq(Copies)
    BY DEF DInv, Typed
  <2> QED BY <1>2, <2>1
<1>7. task[t].life = IF x.op = "create" THEN "absent" ELSE "there"
  BY <1>1 DEF Known, Fits
<1>8. x.shared # <<>> => session'.life = "there"
  BY <1>2
<1>9. ASSUME x.op = "create"
      PROVE  x.shared # <<>>
  <2>1. x.events # <<>> /\ Skipped(x) = 0
    BY <1>1, <1>7, <1>9 DEF Known, Mirrors, SInv
  <2>2. x.events \in Seq(Events) /\ x.shared \in Seq(Copies)
    BY <1>1 DEF Txns
  <2> DEFINE a == Len(x.events)
             b == Len(x.shared)
  <2>3. a \in Nat /\ b \in Nat /\ a # 0
    BY <2>1, <2>2
  <2>4. a - b - 0 = 0
    BY <1>1, <2>1 DEF Skipped
  <2>5. b # 0
    <3> HIDE DEF a, b
    <3> QED BY <2>3, <2>4
  <2> QED BY <2>5
<1> QED BY <1>1, <1>2, <1>3, <1>4, <1>5, <1>6, <1>7, <1>8, <1>9

(* The transactions beside one that commits. *)
LEMMA KnownBeside ==
  ASSUME DInv, SInv, NEW w \in Writers, Commit(w), ~Taken(w), NEW v \in Writers, v # w
  PROVE  Known(txn[v])'
<1> DEFINE x == txn[w]
           y == txn[v]
<1>1. /\ x \in Txns /\ WellFormed(x) /\ Known(x) /\ x.task \in Tasks /\ x.task \in x.holds
      /\ \A u \in Tasks \ {x.task} : task'[u] = task[u]
      /\ x.shared = <<>> => session' = session /\ sessionLog' = sessionLog
      /\ sessionLog' = sessionLog \o x.shared /\ past' = past
      /\ txn'[v] = y
  BY CommitFacts
<1>2. y \in Txns /\ WellFormed(y) /\ Known(y) /\ y.holds \cap x.holds = {}
  BY DEF DInv, Typed, Exclusive, SInv
<1>3. Session \in y.holds => session' = session /\ sessionLog' = sessionLog
  BY <1>1, <1>2 DEF WellFormed
<1>4. y.op = "create" => y.task \in Tasks \ {x.task}
  BY <1>1, <1>2 DEF WellFormed
<1>5. y.run # "none" => Tells(y.run, y.task, sessionLog' \o y.shared)
  BY <1>2, <1>3 DEF Known
<1>6. Session \in y.holds => (session'.life = "there" <=> ~(y.op = "create" /\ ~y.found))
  BY <1>2, <1>3 DEF Known
<1>7. y.op = "create" => task'[y.task].life = "absent"
  BY <1>1, <1>2, <1>4 DEF Known
<1>8. ASSUME y.op \in {"create", "write"}, Skipped(y) # 0
      PROVE  NoneOf(y.task, sessionLog')
  <2>1. Mirrors(y) /\ NoneOf(y.task, sessionLog)
    BY <1>2, <1>8 DEF Known, Mirrors
  <2>2. y.events # <<>>
    <3> SUFFICES ASSUME y.events = <<>>
                 PROVE  FALSE
      OBVIOUS
    <3>1. y.pc # "session" /\ y.shared \in Seq(Copies) /\ Skipped(y) \in Nat
      BY <1>2, <2>1 DEF WellFormed, Txns, Mirrors
    <3> DEFINE b == Len(y.shared)
    <3>2. Len(<<>>) = 0
      OBVIOUS
    <3>3. Skipped(y) = 0 - b - 0 /\ b \in Nat
      BY <3>1, <3>2 DEF Skipped
    <3> HIDE DEF b
    <3> QED BY <1>8, <3>1, <3>3
  <2>3. y.task # x.task
    BY <1>1, <1>2, <2>2 DEF WellFormed
  <2>4. \A i \in DOMAIN x.shared : x.shared[i].task # y.task
    BY <1>1, <2>3 DEF Known
  <2>5. ToSet(sessionLog') = ToSet(sessionLog) \cup ToSet(x.shared)
    <3>1. sessionLog \in Seq(Copies) /\ x.shared \in Seq(Copies)
      BY <1>1 DEF Txns, DInv, Typed
    <3> QED BY <1>1, <3>1, JoinedSet
  <2>6. \A c \in ToSet(sessionLog') : c.task # y.task
    BY <2>1, <2>4, <2>5 DEF ToSet, NoneOf
  <2> QED BY <2>6 DEF ToSet, NoneOf
<1>9. y.op \in {"create", "write"} => Mirrors(y)'
  <2>1. y' = y
    BY <1>1
  <2> HIDE DEF y
  <2> QED BY <1>1, <1>2, <1>8, <2>1 DEF Known, Mirrors
<1>10. Known(y)'
  <2>1. y' = y
    BY <1>1
  <2> HIDE DEF y
  <2> QED BY <1>1, <1>2, <1>5, <1>6, <1>7, <1>9, <2>1 DEF Known
<1> QED BY <1>10

(* The task of a transaction that commits, before it does. *)
LEMMA MergedBefore ==
  ASSUME DInv, SInv, NEW w \in Writers, Commit(w), ~Taken(w)
  PROVE  \E n \in 0..Len(log[txn[w].task]) :
           /\ txn[w].task \notin past.orphans => n = 0
           /\ Skipped(txn[w]) = 0 \/ n = Len(log[txn[w].task])
           /\ Merges(txn[w].task, sessionLog, log[txn[w].task], n)
<1> DEFINE x == txn[w]
           t == txn[w].task
           k == Skipped(txn[w])
<1>1. /\ x \in Txns /\ Known(x) /\ t \in Tasks /\ x.op \in {"create", "write"}
      /\ task[t].life = IF x.op = "create" THEN "absent" ELSE "there"
      /\ log[t] \in Seq(Events)
  BY CommitFacts DEF DInv, Typed
<1>2. Mirrors(x)
  BY <1>1 DEF Known
<1>3. CASE k # 0
  <2>1. t \in past.orphans /\ NoneOf(t, sessionLog)
    BY <1>2, <1>3 DEF Mirrors
  <2>2. Len(log[t]) \in 0..Len(log[t]) /\ Merges(t, sessionLog, log[t], Len(log[t]))
    BY <1>1, <2>1, NothingTold
  <2> HIDE DEF t, k, x
  <2> QED BY <2>1, <2>2 DEF t, k, x
<1>4. CASE k = 0 /\ x.op = "create"
  <2>1. task[t] = NoRow /\ NoneOf(t, sessionLog)
    BY <1>1, <1>4 DEF SInv
  <2>2. Len(log[t]) = 0
    BY <1>1, <2>1 DEF DInv, AllDense, Dense, NoRow
  <2>3. Len(log[t]) \in 0..Len(log[t]) /\ Merges(t, sessionLog, log[t], Len(log[t]))
    BY <1>1, <2>1, NothingTold
  <2> HIDE DEF t, k, x
  <2> QED BY <1>4, <2>2, <2>3 DEF t, k, x
<1>5. CASE k = 0 /\ x.op = "write"
  <2>1. Merged(t)
    BY <1>1, <1>5 DEF SInv
  <2> HIDE DEF k
  <2> QED BY <1>5, <2>1 DEF Merged, k
<1> QED BY <1>1, <1>3, <1>4, <1>5

LEMMA KnownCommits ==
  ASSUME DInv, SInv, NEW w \in Writers, Commit(w), ~Taken(w)
  PROVE  SInv'
<1> DEFINE x == txn[w]
           t == txn[w].task
<1>1. /\ x \in Txns /\ WellFormed(x) /\ Fits(x) /\ Known(x) /\ t \in Tasks /\ t \in x.holds
      /\ x.op \in {"create", "write"} /\ x.pc = "open" /\ past' = past
      /\ task'[t].life = "there" /\ log'[t] = log[t] \o x.events
      /\ run'[t] = IF x.run = "none" THEN run[t] ELSE x.run
      /\ \A u \in Tasks \ {t} : task'[u] = task[u] /\ log'[u] = log[u] /\ run'[u] = run[u]
      /\ sessionLog' = sessionLog \o x.shared
      /\ x.shared = <<>> => session' = session /\ sessionLog' = sessionLog
      /\ x.shared # <<>> => session'.life = "there"
      /\ x.op = "create" => x.shared # <<>>
      /\ task[t].life = IF x.op = "create" THEN "absent" ELSE "there"
      /\ \A v \in Writers : txn'[v] = IF v = w THEN NoTxn ELSE txn[v]
  BY CommitFacts
<1>2. /\ sessionLog \in Seq(Copies) /\ x.shared \in Seq(Copies) /\ x.events \in Seq(Events)
      /\ log[t] \in Seq(Events) /\ session.life \in Lives /\ past.orphans \subseteq Tasks
  BY <1>1 DEF Txns, DInv, Typed
<1>3. \A i \in DOMAIN x.shared : x.shared[i].task = t
  BY <1>1 DEF Known
<1>4. ASSUME NEW u \in Tasks, task'[u].life = "absent"
      PROVE  task'[u] = NoRow /\ NoneOf(u, sessionLog') /\ u \notin past'.orphans
  <2>1. u # t /\ task'[u] = task[u]
    BY <1>1, <1>4
  <2>2. task[u] = NoRow /\ NoneOf(u, sessionLog) /\ u \notin past.orphans
    BY <1>4, <2>1 DEF SInv
  <2>3. \A c \in ToSet(sessionLog') : c.task # u
    <3>1. ToSet(sessionLog') = ToSet(sessionLog) \cup ToSet(x.shared)
      BY <1>1, <1>2, JoinedSet
    <3> QED BY <1>3, <2>1, <2>2, <3>1 DEF ToSet, NoneOf
  <2> QED BY <1>1, <2>1, <2>2, <2>3 DEF ToSet, NoneOf
<1>5. session'.life # "there" => sessionLog' = <<>>
  BY <1>1 DEF SInv
<1>6. ASSUME NEW u \in past'.orphans
      PROVE  run'[u] = "none"
  <2>1. u \in Tasks /\ run[u] = "none"
    BY <1>1, <1>2, <1>6 DEF SInv
  <2>2. u = t => x.run = "none"
    BY <1>1, <1>6 DEF Known
  <2> QED BY <1>1, <2>1, <2>2
<1>7. ASSUME NEW u \in Tasks \ past'.orphans, task'[u].life = "there"
      PROVE  session'.life = "there" /\ run'[u] # "none" /\ Tells(run'[u], u, sessionLog')
  <2>1. CASE u # t
    <3>1. session.life = "there" /\ run[u] # "none" /\ Tells(run[u], u, sessionLog)
      BY <1>1, <1>7, <2>1 DEF SInv
    <3>2. \A i \in DOMAIN x.shared : x.shared[i].task # u
      BY <1>3, <2>1
    <3>3. Tells(run[u], u, sessionLog')
      <4> HIDE DEF x
      <4> QED BY <1>1, <1>2, <3>1, <3>2, OthersCopied
    <3> QED BY <1>1, <2>1, <3>1, <3>3
  <2>2. CASE u = t
    <3>1. session'.life = "there"
      <4>1. task[t].life = "there" => session.life = "there"
        BY <1>1, <1>7, <2>2 DEF SInv
      <4> QED BY <1>1, <4>1
    <3>2. CASE x.run # "none"
      BY <1>1, <2>2, <3>1, <3>2 DEF Known
    <3>3. CASE x.run = "none"
      <4>1. x.shared = <<>> /\ x.op = "write" /\ run'[t] = run[t]
        BY <1>1, <1>7, <2>2, <3>3 DEF Known
      <4>2. task[t].life = "there" /\ sessionLog' = sessionLog
        BY <1>1, <4>1
      <4>3. run[t] # "none" /\ Tells(run[t], t, sessionLog)
        BY <1>1, <1>7, <2>2, <4>2 DEF SInv
      <4> QED BY <2>2, <3>1, <4>1, <4>2, <4>3
    <3> QED BY <3>2, <3>3
  <2> QED BY <2>1, <2>2
<1>8. ASSUME NEW u \in Tasks, task'[u].life = "there"
      PROVE  Merged(u)'
  <2>1. CASE u # t
    <3>1. Merged(u)
      BY <1>1, <1>8, <2>1 DEF SInv
    <3>2. PICK n \in 0..Len(log[u]) : /\ u \notin past.orphans => n = 0
                                      /\ Merges(u, sessionLog, log[u], n)
      BY <3>1 DEF Merged
    <3>3. \A i \in DOMAIN x.shared : x.shared[i].task # u
      BY <1>3, <2>1
    <3>4. Merges(u, sessionLog', log[u], n)
      <4> HIDE DEF x
      <4> QED BY <1>1, <1>2, <3>2, <3>3, OthersCopied
    <3> QED BY <1>1, <2>1, <3>2, <3>4 DEF Merged
  <2>2. CASE u = t
    <3> DEFINE k == Skipped(x)
    <3>1. PICK n \in 0..Len(log[t]) :
             /\ t \notin past.orphans => n = 0
             /\ k = 0 \/ n = Len(log[t])
             /\ Merges(t, sessionLog, log[t], n)
      BY MergedBefore
    <3>2. /\ k \in Nat /\ (k # 0 => t \in past.orphans)
          /\ \A i \in DOMAIN x.shared : /\ x.shared[i].tseq = x.events[k + i].seq
                                        /\ x.shared[i].type = x.events[k + i].type
      BY <1>1 DEF Known, Mirrors
    <3>3. Len(x.events) = k + Len(x.shared)
      <4> DEFINE a == Len(x.events)
                 b == Len(x.shared)
      <4>1. a \in Nat /\ b \in Nat
        BY <1>2
      <4>2. k = a - b - 0
        BY <1>1 DEF Skipped
      <4> HIDE DEF a, b, k
      <4>3. a = k + b
        BY <4>1, <4>2
      <4> QED BY <4>3 DEF a, b
    <3>4. /\ Dense(Len(log[t]), log[t])
          /\ \A i \in DOMAIN x.events : x.events[i].seq = Len(log[t]) + i
      <4>1. Dense(Len(log[t]), log[t])
        BY <1>1 DEF DInv, AllDense, Dense
      <4>2. CASE x.events = <<>>
        BY <4>1, <4>2
      <4>3. CASE x.events # <<>>
        BY <1>1, <4>1, <4>3 DEF WellFormed, Fits
      <4> QED BY <4>2, <4>3
    <3> HIDE DEF x, t, k
    <3>5. /\ n + k \in 0..Len(log[t] \o x.events)
          /\ Merges(t, sessionLog \o x.shared, log[t] \o x.events, n + k)
      BY <1>2, <1>3, <3>1, <3>2, <3>3, <3>4, OwnCopied
    <3>6. t \notin past.orphans => n + k = 0
      BY <3>1, <3>2
    <3> QED BY <1>1, <2>2, <3>5, <3>6 DEF Merged
  <2> QED BY <2>1, <2>2
<1>9. ASSUME NEW v \in Writers
      PROVE  Known(txn[v])'
  <2>1. CASE v = w
    <3>1. txn'[v] = NoTxn
      BY <1>1, <2>1
    <3> QED BY <3>1 DEF Known, NoTxn
  <2> QED BY <2>1, KnownBeside
<1> QED BY <1>4, <1>5, <1>6, <1>7, <1>8, <1>9 DEF SInv

LEMMA KnownDeletes ==
  ASSUME DInv, SInv, NEW w \in Writers, CommitDelete(w)
  PROVE  SInv'
<1> DEFINE x == txn[w]
           gone == txn[w].doomed
<1>1. /\ x \in Txns /\ WellFormed(x) /\ Fits(x) /\ Known(x) /\ x.pc = "delete"
      /\ gone \subseteq x.holds /\ gone \subseteq Tasks
      /\ x.op \in {"delete_task", "delete_session"}
      /\ \A t \in gone : task'[t].life = "deleted"
      /\ \A t \in Tasks \ gone : task'[t] = task[t] /\ log'[t] = log[t]
      /\ \A v \in Writers : txn'[v] = IF v = w THEN NoTxn ELSE txn[v]
  <2>1. /\ x \in Txns /\ WellFormed(x) /\ Fits(x) /\ Known(x) /\ x.pc = "delete"
        /\ gone \subseteq x.holds
    BY DEF DInv, Typed, SInv, CommitDelete
  <2>2. gone \subseteq Tasks /\ x.op \in {"delete_task", "delete_session"}
    BY <2>1 DEF Txns, WellFormed
  <2>3. task' = [t \in Tasks |-> IF t \in gone THEN [NoRow EXCEPT !.life = "deleted"]
                                               ELSE task[t]]
    BY DEF CommitDelete
  <2>4. log' = [t \in Tasks |-> IF t \in gone THEN <<>> ELSE log[t]]
    BY DEF CommitDelete
  <2>5. \A v \in Writers : txn'[v] = IF v = w THEN NoTxn ELSE txn[v]
    BY DEF CommitDelete, Rollback, Put, DInv, Typed
  <2>6. [NoRow EXCEPT !.life = "deleted"].life = "deleted"
    BY DEF NoRow
  <2> HIDE DEF gone
  <2> QED BY <2>1, <2>2, <2>3, <2>4, <2>5, <2>6
<1>2. \/ UNCHANGED <<session, sessionLog, run, past>>
      \/ /\ session'.life = "deleted" /\ sessionLog' = <<>> /\ Session \in x.holds
         /\ \A t \in Tasks : run'[t] = "none"
         /\ past'.orphans = past.orphans \cup {t \in Tasks \ gone : There(t)}
  <2>1. CASE x.op = "delete_session"
    <3>1. /\ session' = [session EXCEPT !.life = "deleted", !.seq = 0] /\ sessionLog' = <<>>
          /\ run' = [t \in Tasks |-> "none"]
          /\ past' = [past EXCEPT !.orphans = @ \cup {t \in Tasks \ gone : There(t)}]
      BY <2>1 DEF CommitDelete
    <3>2. session'.life = "deleted" /\ \A t \in Tasks : run'[t] = "none"
      BY <3>1 DEF DInv, Typed
    <3>3. past'.orphans = past.orphans \cup {t \in Tasks \ gone : There(t)}
      <4> HIDE DEF gone
      <4> QED BY <3>1 DEF DInv, Typed
    <3>4. Session \in x.holds
      BY <1>1, <2>1 DEF WellFormed
    <3> QED BY <3>1, <3>2, <3>3, <3>4
  <2>2. CASE x.op # "delete_session"
    BY <2>2 DEF CommitDelete
  <2> QED BY <2>1, <2>2
<1>3. \A t \in Tasks : task'[t].life # "deleted" => /\ t \notin gone /\ task'[t] = task[t]
                                                   /\ log'[t] = log[t]
  BY <1>1
<1>0. past.orphans \subseteq Tasks /\ \A t \in Tasks : There(t) <=> task[t].life = "there"
  BY EventLogAssumption DEF DInv, Typed, There
<1> HIDE DEF gone
<1>4. ASSUME NEW t \in Tasks, task'[t].life = "absent"
      PROVE  task'[t] = NoRow /\ NoneOf(t, sessionLog') /\ t \notin past'.orphans
  <2>1. /\ task'[t] = task[t] /\ task[t] = NoRow /\ NoneOf(t, sessionLog)
        /\ t \notin past.orphans /\ task[t].life # "there"
    BY <1>3, <1>4 DEF SInv
  <2>2. NoneOf(t, <<>>)
    BY DEF NoneOf
  <2> QED BY <1>0, <1>2, <2>1, <2>2
<1>5. session'.life # "there" => sessionLog' = <<>>
  BY <1>2 DEF SInv
<1>6. \A t \in past'.orphans : run'[t] = "none"
  BY <1>0, <1>2 DEF SInv
<1>7. ASSUME NEW t \in Tasks \ past'.orphans, task'[t].life = "there"
      PROVE  session'.life = "there" /\ run'[t] # "none" /\ Tells(run'[t], t, sessionLog')
  <2>1. task[t].life = "there" /\ t \notin gone
    BY <1>3, <1>7
  <2>2. UNCHANGED <<session, sessionLog, run, past>>
    BY <1>0, <1>2, <1>7, <2>1
  <2> QED BY <1>7, <2>1, <2>2 DEF SInv
<1>8. ASSUME NEW t \in Tasks, task'[t].life = "there"
      PROVE  Merged(t)'
  <2>1. task[t].life = "there" /\ t \notin gone /\ log'[t] = log[t] /\ log[t] \in Seq(Events)
    BY <1>3, <1>8 DEF DInv, Typed
  <2>2. CASE UNCHANGED <<session, sessionLog, run, past>>
    <3>1. Merged(t)
      BY <2>1 DEF SInv
    <3> QED BY <2>1, <2>2, <3>1 DEF Merged
  <2>3. CASE /\ sessionLog' = <<>>
             /\ past'.orphans = past.orphans \cup {u \in Tasks \ gone : There(u)}
    <3>1. t \in past'.orphans
      BY <1>0, <2>1, <2>3
    <3>2. Len(log[t]) \in 0..Len(log[t]) /\ Merges(t, <<>>, log[t], Len(log[t]))
      <4>1. NoneOf(t, <<>>)
        BY DEF NoneOf
      <4> QED BY <2>1, <4>1, NothingTold
    <3> QED BY <2>1, <2>3, <3>1, <3>2 DEF Merged
  <2> QED BY <1>2, <2>2, <2>3
<1>9. ASSUME NEW v \in Writers
      PROVE  Known(txn[v])'
  <2>1. CASE v = w
    <3>1. txn'[v] = NoTxn
      BY <1>1, <2>1
    <3> QED BY <3>1 DEF Known, NoTxn
  <2>2. CASE v # w
    <3> DEFINE y == txn[v]
    <3>1. /\ y \in Txns /\ WellFormed(y) /\ Known(y) /\ y.holds \cap x.holds = {}
          /\ txn'[v] = y
      BY <1>1, <2>2 DEF DInv, Typed, Exclusive, SInv
    <3>2. Session \in y.holds => UNCHANGED <<session, sessionLog, past>>
      BY <1>2, <3>1
    <3>3. y.op = "create" => y.task \in Tasks \ gone
      BY <1>1, <3>1 DEF WellFormed, gone
    <3>4. y.op = "create" => task'[y.task].life = "absent"
      BY <1>1, <3>1, <3>3 DEF Known
    <3>5. y.run # "none" => /\ Tells(y.run, y.task, sessionLog' \o y.shared)
                            /\ y.task \notin past'.orphans
      BY <3>1, <3>2 DEF Known
    <3>6. Session \in y.holds => (session'.life = "there" <=> ~(y.op = "create" /\ ~y.found))
      BY <3>1, <3>2 DEF Known
    <3>7. past.orphans \subseteq past'.orphans
      BY <1>2
    <3>8. Skipped(y) # 0 /\ NoneOf(y.task, sessionLog) => NoneOf(y.task, sessionLog')
      BY <1>2 DEF NoneOf
    <3>9. y' = y
      BY <3>1
    <3> HIDE DEF y
    <3>10. y.op \in {"create", "write"} => Mirrors(y)'
      BY <3>1, <3>7, <3>8, <3>9 DEF Known, Mirrors
    <3>11. Known(y)'
      BY <3>1, <3>4, <3>5, <3>6, <3>7, <3>9, <3>10 DEF Known
    <3> QED BY <3>11 DEF y
  <2> QED BY <2>1, <2>2
<1> QED BY <1>4, <1>5, <1>6, <1>7, <1>8, <1>9 DEF SInv

-----------------------------------------------------------------------------
(* The logs and the runs agree in every reachable state.                   *)

LEMMA StartsAgreed == Init => SInv
<1> SUFFICES ASSUME Init
             PROVE  SInv
  OBVIOUS
<1>1. \A w \in Writers : txn[w] = NoTxn
  BY DEF Init
<1>2. \A t \in Tasks : task[t] = NoRow
  BY DEF Init
<1>3. past.orphans = {} /\ sessionLog = <<>> /\ \A t \in Tasks : NoneOf(t, <<>>)
  BY DEF Init, NoneOf
<1> QED BY <1>1, <1>2, <1>3, NothingKnown, Empty DEF SInv

LEMMA StepsKeepAgreed == DInv /\ SInv /\ [Next]_vars => SInv'
<1> SUFFICES ASSUME DInv, SInv, [Next]_vars
             PROVE  SInv'
  OBVIOUS
<1>1. ASSUME NEW w \in bound.writers, Progress(w)
      PROVE  SInv'
  <2>1. w \in Writers
    BY WriterInBounds
  <2>8. CASE FindSession(w) \/ LoadSession(w)
    BY <2>1, <2>8, KnownFinds
  <2>2. CASE LinkSession(w)
    BY <2>1, <2>2, KnownLinks
  <2>3. CASE AppendSessionEvent(w)
    BY <2>1, <2>3, KnownShares
  <2>4. CASE Commit(w)
    <3>1. CASE Taken(w)
      <4>1. UNCHANGED rows /\ Rollback(w) /\ past' = [past EXCEPT !.refused = TRUE]
        BY <2>1, <2>4, <3>1, CommitRefused
      <4>2. past'.orphans = past.orphans
        BY <4>1 DEF DInv, Typed
      <4> QED BY <2>1, <4>1, <4>2, KnownEnds
    <3> QED BY <2>1, <2>4, <3>1, KnownCommits
  <2>5. CASE DeleteSessionRow(w) \/ \E t \in Tasks : DeleteTaskRow(w, t)
    BY <2>1, <2>5, KnownLocks
  <2>6. CASE CommitDelete(w)
    BY <2>1, <2>6, KnownDeletes
  <2>7. CASE BreakDeadlock(w)
    BY <2>1, <2>7, KnownEnds DEF BreakDeadlock
  <2> QED BY <1>1, <2>2, <2>3, <2>4, <2>5, <2>6, <2>7, <2>8 DEF Progress
<1>2. ASSUME NEW w \in bound.writers, Transaction(w)
      PROVE  SInv'
  <2>1. w \in Writers
    BY WriterInBounds
  <2>2. CASE \/ \E t \in Tasks : \/ BeginCreate(w, t) \/ BeginMessage(w, t)
                                \/ BeginWrite(w, t) \/ BeginDelete(w, t)
             \/ BeginDeleteSession(w)
    BY <2>1, <2>2, KnownBegins
  <2>3. CASE Rewrite(w)
    BY <2>1, <2>3, KnownRewrites
  <2>4. ASSUME NEW type \in Types, AppendEvent(w, type)
        PROVE  SInv'
    BY <2>1, <2>4, KnownAppends
  <2>5. CASE Fail(w)
    BY <2>1, <2>5, KnownEnds DEF Fail
  <2>6. bound.tasks \subseteq Tasks /\ bound.types \subseteq Types
    BY EventLogAssumption DEF DInv, Typed
  <2> QED BY <1>2, <2>2, <2>3, <2>4, <2>5, <2>6 DEF Transaction
<1>3. ASSUME UNCHANGED store
      PROVE  SInv'
  <2>1. UNCHANGED <<task, session, log, sessionLog, run, txn, past>>
    BY <1>3 DEF store, rows
  <2>2. ASSUME NEW t \in Tasks, Merged(t)
        PROVE  Merged(t)'
    BY <2>1, <2>2 DEF Merged
  <2>3. ASSUME NEW v \in Writers
        PROVE  Known(txn[v])'
    BY <2>1 DEF SInv, Known, Mirrors
  <2> QED BY <2>1, <2>2, <2>3 DEF SInv
<1>4. CASE Browser
  BY <1>3, <1>4 DEF Browser, Follow, Signal, StreamBreaks, CloseStream, Poll, Receive, Reconnect
<1>5. CASE UNCHANGED vars
  BY <1>3, <1>5 DEF vars, store, rows
<1> QED BY <1>1, <1>2, <1>4, <1>5 DEF Next

LEMMA Agreement == Spec => [](DInv /\ SInv)
<1>1. Init => DInv /\ SInv
  BY Starts, StartsAgreed
<1>2. DInv /\ SInv /\ [Next]_vars => (DInv /\ SInv)'
  BY StepsKeepLogs, StepsKeepAgreed
<1> QED BY <1>1, <1>2, PTL DEF Spec

(* The session's log is an interleaving of its tasks' logs, for any number   *)
(* of transactions that create, append, roll back, delete and deadlock       *)
(* (append_session_event under the lock of the session row).                 *)
THEOREM LogsAreMerged == Spec => []SessionLogMergesTaskLogs
<1>1. DInv /\ SInv => SessionLogMergesTaskLogs
  BY EventLogAssumption DEF SInv, Merged, SessionLogMergesTaskLogs, Merges, There
<1> QED BY <1>1, Agreement, PTL

(* A run says what the last telling event in the session's log says          *)
(* (update_run_from_event, in the transaction that numbers the event).       *)
THEOREM RunsFollow == Spec => []RunFollowsLog
<1>1. DInv /\ SInv => RunFollowsLog
  BY EventLogAssumption DEF SInv, RunFollowsLog, Tells, There
<1> QED BY <1>1, Agreement, PTL

-----------------------------------------------------------------------------
(* What the browser shows.                                                 *)

Entries == Events \cup Copies

(* The numbers of the visible events of a log after a and up to b. *)
Seen(l, a, b) == {e.seq : e \in {e \in ToSet(l) : Visible(e) /\ a < e.seq /\ e.seq <= b}}

Views ==
  [of : Tasks \cup {Session, None}, born : Nat, open : BOOLEAN, retry : BOOLEAN, closing : BOOLEAN,
   cursor : Nat, shown : Seq(Nat), sent : Nat, wire : Seq(Entries)]

Life(x) == IF x = Session THEN session.life ELSE task[x].life

(* What is shown of the log l ends at the cursor, what is on the wire comes
   next, and the generator has read no further than the log goes.           *)
Level(v, l) ==
  /\ v.cursor <= Len(l)
  /\ v.shown = Ordered(Seen(l, 0, v.cursor))
  /\ v.open =>
       /\ v.cursor <= v.sent /\ v.sent <= Len(l)
       /\ \A i, j \in DOMAIN v.wire : i < j => v.wire[i].seq < v.wire[j].seq
       /\ \A i \in DOMAIN v.wire : v.wire[i] \in ToSet(l)
       /\ {v.wire[i].seq : i \in DOMAIN v.wire} = Seen(l, v.cursor, v.sent)

(* A stream still reads the log that it was opened on, numbered as it was.  *)
Tracked(x) ==
  Life(x) = "there" /\ (x = Session => view.born = session.born /\ ~past.carried)

(* A log once followed has been there; it is gone or what is shown is its.  *)
Following ==
  \A x \in Tasks \cup {Session} : view.of = x =>
    Life(x) # "absent" /\ (Tracked(x) => Level(view, LogOf(x)))

VInv ==
  /\ view \in Views /\ moves \in 0..bound.moves
  /\ ~(view.open /\ view.retry)
  /\ view.of = None => view = NoView
  /\ view.born <= session.born
  /\ Following

LEMMA OrderedSet ==
  ASSUME NEW S \in SUBSET Nat, IsFiniteSet(S)
  PROVE  /\ Ordered(S) \in Seq(Nat) /\ Len(Ordered(S)) = Cardinality(S)
         /\ \A i, j \in DOMAIN Ordered(S) : i < j => Ordered(S)[i] < Ordered(S)[j]
         /\ ToSet(Ordered(S)) = S
         /\ Ordered(S) = <<>> <=> S = {}
<1> DEFINE n == Cardinality(S)
           s == Ordered(S)
<1>1. n \in Nat
  BY FS_CardinalityType
<1>2. s \in [1..n -> S] /\ \A i, j \in DOMAIN s : i < j => s[i] < s[j]
  <2>1. \E z \in [1..n -> S] : \A i, j \in DOMAIN z : i < j => z[i] < z[j]
    <3>1. PICK z \in [1..n -> S] : \A i, j \in 1..n : i < j => z[i] < z[j]
      BY Enumeration
    <3>2. DOMAIN z = 1..n
      OBVIOUS
    <3> QED BY <3>1, <3>2
  <2> QED BY <2>1 DEF Ordered
<1> HIDE DEF s
<1>3. DOMAIN s = 1..n /\ \A i, j \in 1..n : i < j => s[i] < s[j]
  BY <1>2
<1>4. \A x \in S : \E i \in 1..n : s[i] = x
  BY <1>2, <1>3, EnumeratesAll
<1>5. ToSet(s) = S
  <2>1. \A i \in 1..n : s[i] \in S
    BY <1>2
  <2> HIDE DEF n
  <2> QED BY <1>3, <1>4, <2>1 DEF ToSet
<1>6. s \in Seq(Nat) /\ Len(s) = n
  <2>1. s \in [1..n -> Nat]
    BY <1>2
  <2> HIDE DEF n
  <2>2. s \in Seq(Nat)
    BY <1>1, <2>1
  <2> QED BY <1>1, <1>3, <2>2
<1>7. s = <<>> <=> S = {}
  <2>1. s = <<>> => ToSet(s) = {}
    BY DEF ToSet
  <2>2. S = {} => n = 0
    BY FS_EmptySet
  <2>3. n = 0 => s = <<>>
    <3> HIDE DEF n
    <3> QED BY <1>6
  <2> QED BY <1>5, <2>1, <2>2, <2>3
<1> QED BY <1>2, <1>5, <1>6, <1>7 DEF s

(* In a dense log the n-th event is the one numbered n. *)
LEMMA SeenFacts ==
  ASSUME NEW l \in Seq(Entries), Dense(Len(l), l)
  PROVE  /\ \A a, b \in Nat : /\ Seen(l, a, b) \in SUBSET Nat
                              /\ IsFiniteSet(Seen(l, a, b))
         /\ \A a, b \in Nat : \A n : n \in Seen(l, a, b) <=>
              n \in 1..Len(l) /\ Visible(l[n]) /\ a < n /\ n <= b
<1>1. Len(l) \in Nat /\ DOMAIN l = 1..Len(l)
  OBVIOUS
<1>2. \A n \in 1..Len(l) : l[n].seq = n
  BY <1>1 DEF Dense
<1>3. ASSUME NEW a \in Nat, NEW b \in Nat, NEW n
      PROVE  n \in Seen(l, a, b) <=> n \in 1..Len(l) /\ Visible(l[n]) /\ a < n /\ n <= b
  <2>1. n \in Seen(l, a, b) <=>
          \E i \in 1..Len(l) : Visible(l[i]) /\ a < l[i].seq /\ l[i].seq <= b /\ l[i].seq = n
    BY <1>1 DEF Seen, ToSet
  <2> QED BY <1>2, <2>1
<1>4. ASSUME NEW a \in Nat, NEW b \in Nat
      PROVE  Seen(l, a, b) \in SUBSET Nat /\ IsFiniteSet(Seen(l, a, b))
  <2>1. Seen(l, a, b) \subseteq 1..Len(l)
    BY <1>3
  <2>2. IsFiniteSet(1..Len(l))
    BY <1>1, FS_Interval
  <2>3. IsFiniteSet(Seen(l, a, b))
    BY <2>1, <2>2, FS_Subset
  <2> QED BY <1>1, <2>1, <2>3
<1> QED BY <1>3, <1>4

LEMMA LogFacts ==
  ASSUME DInv, NEW x \in Tasks \cup {Session}
  PROVE  /\ LogOf(x) \in Seq(Entries) /\ Len(LogOf(x)) \in Nat
         /\ Tracked(x) => Dense(Len(LogOf(x)), LogOf(x))
<1>1. CASE x = Session
  <2>1. sessionLog \in Seq(Copies)
    BY DEF DInv, Typed
  <2>2. sessionLog \in Seq(Entries)
    BY <2>1 DEF Entries
  <2>3. Tracked(x) => Dense(Len(sessionLog), sessionLog)
    BY <1>1 DEF Tracked, DInv, Ordinary, Dense
  <2> QED BY <1>1, <2>1, <2>2, <2>3 DEF LogOf
<1>2. CASE x # Session
  <2>1. log[x] \in Seq(Events) /\ Dense(Len(log[x]), log[x])
    BY <1>2 DEF DInv, Typed, AllDense, Dense
  <2>2. log[x] \in Seq(Entries)
    BY <2>1 DEF Entries
  <2> QED BY <1>2, <2>1, <2>2 DEF LogOf
<1> QED BY <1>1, <1>2

(* A log that grows: its browser is as level as before. *)
LEMMA LogGrows ==
  ASSUME NEW l \in Seq(Entries), NEW m \in Seq(Entries), Dense(Len(l), l),
         Dense(Len(l \o m), l \o m), NEW v \in Views, Level(v, l)
  PROVE  Level(v, l \o m)
<1> DEFINE j == l \o m
<1>1. /\ j \in Seq(Entries) /\ Len(j) = Len(l) + Len(m) /\ Len(l) \in Nat /\ Len(m) \in Nat
      /\ \A i \in 1..Len(l) : j[i] = l[i]
  BY Joined
<1>2. ToSet(l) \subseteq ToSet(j)
  BY JoinedSet
<1> HIDE DEF j
<1>3. Len(l) <= Len(j) /\ v.cursor \in Nat /\ v.sent \in Nat
  BY <1>1 DEF Views
<1>4. \A a, b \in Nat : b <= Len(l) => Seen(j, a, b) = Seen(l, a, b)
  <2> SUFFICES ASSUME NEW a \in Nat, NEW b \in Nat, b <= Len(l), NEW n
               PROVE  n \in Seen(j, a, b) <=> n \in Seen(l, a, b)
    OBVIOUS
  <2>1. n \in Seen(j, a, b) <=> n \in 1..Len(j) /\ Visible(j[n]) /\ a < n /\ n <= b
    BY <1>1, SeenFacts DEF j
  <2>2. n \in Seen(l, a, b) <=> n \in 1..Len(l) /\ Visible(l[n]) /\ a < n /\ n <= b
    BY SeenFacts
  <2>3. n \in 1..Len(j) /\ n <= b <=> n \in 1..Len(l) /\ n <= b
    BY <1>1, <1>3
  <2>4. n \in 1..Len(l) => j[n] = l[n]
    BY <1>1
  <2> QED BY <2>1, <2>2, <2>3, <2>4
<1>5. v.cursor <= Len(j) /\ v.shown = Ordered(Seen(j, 0, v.cursor))
  <2>1. v.cursor <= Len(l) /\ v.shown = Ordered(Seen(l, 0, v.cursor))
    BY DEF Level
  <2>2. Seen(j, 0, v.cursor) = Seen(l, 0, v.cursor)
    BY <1>3, <1>4, <2>1
  <2>3. v.cursor <= Len(j)
    BY <1>1, <1>3, <2>1
  <2> QED BY <2>1, <2>2, <2>3
<1>6. v.open => /\ v.cursor <= v.sent /\ v.sent <= Len(j)
                /\ \A i, k \in DOMAIN v.wire : i < k => v.wire[i].seq < v.wire[k].seq
                /\ \A i \in DOMAIN v.wire : v.wire[i] \in ToSet(j)
                /\ {v.wire[i].seq : i \in DOMAIN v.wire} = Seen(j, v.cursor, v.sent)
  <2> SUFFICES ASSUME v.open
               PROVE  /\ v.cursor <= v.sent /\ v.sent <= Len(j)
                      /\ \A i, k \in DOMAIN v.wire : i < k => v.wire[i].seq < v.wire[k].seq
                      /\ \A i \in DOMAIN v.wire : v.wire[i] \in ToSet(j)
                      /\ {v.wire[i].seq : i \in DOMAIN v.wire} = Seen(j, v.cursor, v.sent)
    OBVIOUS
  <2>1. /\ v.cursor <= v.sent /\ v.sent <= Len(l)
        /\ \A i, k \in DOMAIN v.wire : i < k => v.wire[i].seq < v.wire[k].seq
        /\ \A i \in DOMAIN v.wire : v.wire[i] \in ToSet(l)
        /\ {v.wire[i].seq : i \in DOMAIN v.wire} = Seen(l, v.cursor, v.sent)
    BY DEF Level
  <2>2. Seen(j, v.cursor, v.sent) = Seen(l, v.cursor, v.sent)
    BY <1>3, <1>4, <2>1
  <2>3. v.sent <= Len(j)
    BY <1>1, <1>3, <2>1
  <2> QED BY <1>2, <2>1, <2>2, <2>3
<1> QED BY <1>5, <1>6 DEF Level, j

(* Nothing on the wire: closed, or opened after the cursor. *)
LEMMA NothingSent ==
  ASSUME NEW l \in Seq(Entries), Dense(Len(l), l), NEW v, v.cursor \in Nat,
         v.cursor <= Len(l), v.shown = Ordered(Seen(l, 0, v.cursor)),
         v.open => v.sent = v.cursor /\ v.wire = <<>>
  PROVE  Level(v, l)
<1>1. Seen(l, v.cursor, v.cursor) = {}
  <2>1. \A n : n \in Seen(l, v.cursor, v.cursor) =>
          n \in 1..Len(l) /\ v.cursor < n /\ n <= v.cursor
    BY SeenFacts
  <2>2. Len(l) \in Nat
    OBVIOUS
  <2> QED BY <2>1, <2>2
<1>2. v.wire = <<>> => {v.wire[i].seq : i \in DOMAIN v.wire} = {}
  OBVIOUS
<1>3. v.cursor <= v.cursor
  OBVIOUS
<1> QED BY <1>1, <1>2, <1>3 DEF Level

(* What a poll finds: the visible events after those sent, in order. *)
Batch(l, a) ==
  LET found == {e \in ToSet(l) : Visible(e) /\ e.seq > a}
      order == Ordered({e.seq : e \in found})
  IN [k \in DOMAIN order |-> CHOOSE e \in found : e.seq = order[k]]

LEMMA FiniteEntries ==
  ASSUME NEW S, NEW s \in Seq(S)
  PROVE  IsFiniteSet(ToSet(s))
<1>1. Len(s) \in Nat /\ DOMAIN s = 1..Len(s)
  OBVIOUS
<1>2. IsFiniteSet(DOMAIN s)
  BY <1>1, FS_Interval
<1>3. s \in Surjection(DOMAIN s, ToSet(s))
  <2>1. s \in [DOMAIN s -> ToSet(s)]
    BY <1>1 DEF ToSet
  <2>2. \A n \in ToSet(s) : \E i \in DOMAIN s : s[i] = n
    BY DEF ToSet
  <2> QED BY <2>1, <2>2 DEF Surjection
<1> QED BY <1>2, <1>3, FS_Surjection

(* A poll finds entries of the log, whatever its numbers are. *)
LEMMA BatchTyped ==
  ASSUME NEW l \in Seq(Entries), NEW a \in Nat
  PROVE  Batch(l, a) \in Seq(Entries)
<1> DEFINE found == {e \in ToSet(l) : Visible(e) /\ e.seq > a}
           S == {e.seq : e \in found}
           order == Ordered(S)
           b == [k \in DOMAIN order |-> CHOOSE e \in found : e.seq = order[k]]
<1>1. found \subseteq ToSet(l) /\ ToSet(l) \subseteq Entries
  BY DEF ToSet
<1>2. Batch(l, a) = b
  BY DEF Batch
<1> HIDE DEF found
<1>3. S \in SUBSET Nat
  BY <1>1 DEF Entries, Events, Copies
<1>4. IsFiniteSet(S)
  <2>1. IsFiniteSet(found)
    BY <1>1, FiniteEntries, FS_Subset
  <2> DEFINE f == [e \in found |-> e.seq]
  <2>2. f \in Surjection(found, S)
    <3>1. f \in [found -> S]
      OBVIOUS
    <3>2. \A n \in S : \E e \in found : f[e] = n
      OBVIOUS
    <3> HIDE DEF f, S
    <3> QED BY <3>1, <3>2 DEF Surjection
  <2> HIDE DEF f, S
  <2> QED BY <2>1, <2>2, FS_Surjection
<1>5. order \in Seq(Nat) /\ ToSet(order) = S
  <2> HIDE DEF S
  <2> QED BY <1>3, <1>4, OrderedSet
<1>6. Len(order) \in Nat /\ DOMAIN order = 1..Len(order) /\ \A k \in DOMAIN order : order[k] \in S
  <2> HIDE DEF order, S
  <2> QED BY <1>5 DEF ToSet
<1> HIDE DEF order
<1>7. \A k \in DOMAIN order : \E e \in found : e.seq = order[k]
  BY <1>6
<1>8. \A k \in DOMAIN order : b[k] \in Entries
  <2> SUFFICES ASSUME NEW k \in DOMAIN order
               PROVE  b[k] \in Entries
    BY Zenon
  <2>1. b[k] \in found
    BY <1>7
  <2> QED BY <1>1, <2>1
<1>9. b \in [1..Len(order) -> Entries]
  BY <1>6, <1>8
<1> HIDE DEF b
<1> QED BY <1>2, <1>6, <1>9

LEMMA OneBatch ==
  ASSUME NEW l \in Seq(Entries), Dense(Len(l), l), NEW a \in Nat,
         NEW batch, batch = Batch(l, a)
  PROVE  /\ batch \in Seq(Entries)
         /\ \A i \in DOMAIN batch : batch[i] \in ToSet(l)
         /\ \A i, k \in DOMAIN batch : i < k => batch[i].seq < batch[k].seq
         /\ {batch[i].seq : i \in DOMAIN batch} = Seen(l, a, Len(l))
<1> DEFINE S == Seen(l, a, Len(l))
           found == {e \in ToSet(l) : Visible(e) /\ e.seq > a}
           order == Ordered(S)
           n == Len(order)
           b == [k \in DOMAIN order |-> CHOOSE e \in found : e.seq = order[k]]
<1>1. Len(l) \in Nat
  OBVIOUS
<1>2. {e.seq : e \in found} = S
  <2>1. \A e \in ToSet(l) : e.seq \in 1..Len(l)
    BY DEF ToSet, Dense
  <2>2. \A e \in ToSet(l) : e.seq > a <=> a < e.seq /\ e.seq <= Len(l)
    BY <1>1, <2>1
  <2>3. found = {e \in ToSet(l) : Visible(e) /\ a < e.seq /\ e.seq <= Len(l)}
    BY <2>2
  <2> QED BY <2>3 DEF Seen
<1>3. Batch(l, a) = b
  <2> DEFINE numbers == {e.seq : e \in found}
             first == Ordered(numbers)
  <2>1. Batch(l, a) = [k \in DOMAIN first |-> CHOOSE e \in found : e.seq = first[k]]
    BY DEF Batch
  <2>2. first = order
    <3> HIDE DEF S
    <3> QED BY <1>2
  <2> HIDE DEF first, order, found
  <2> QED BY <2>1, <2>2
<1>4. S \in SUBSET Nat /\ IsFiniteSet(S)
  BY <1>1, SeenFacts
<1>5. /\ order \in Seq(Nat) /\ n \in Nat /\ DOMAIN order = 1..n /\ ToSet(order) = S
      /\ \A i, k \in 1..n : i < k => order[i] < order[k]
  <2>1. order \in Seq(Nat) /\ ToSet(order) = S
    BY <1>4, OrderedSet
  <2>2. \A i, k \in DOMAIN order : i < k => order[i] < order[k]
    BY <1>4, OrderedSet
  <2> HIDE DEF order
  <2> QED BY <2>1, <2>2
<1> HIDE DEF order
<1>6. \A k \in 1..n : order[k] \in S
  BY <1>5 DEF ToSet
<1>7. b = [k \in 1..n |-> CHOOSE e \in found : e.seq = order[k]]
  BY <1>5
<1> HIDE DEF b, n, S
<1>8. ASSUME NEW k \in 1..n
      PROVE  b[k] \in found /\ b[k].seq = order[k]
  <2>1. \E e \in found : e.seq = order[k]
    <3>1. order[k] \in {e.seq : e \in found}
      BY <1>2, <1>6
    <3> QED BY <3>1
  <2> HIDE DEF found
  <2> QED BY <1>7, <2>1
<1>9. \A k \in 1..n : b[k] \in ToSet(l)
  BY <1>8
<1>10. DOMAIN b = 1..n
  <2> HIDE DEF found
  <2> QED BY <1>7
<1>11. b \in Seq(Entries)
  <2>1. ToSet(l) \subseteq Entries
    BY DEF ToSet
  <2>2. \A k \in 1..n : b[k] \in Entries
    BY <1>9, <2>1
  <2>3. b \in [1..n -> Entries]
    <3> HIDE DEF found
    <3> QED BY <1>7, <2>2
  <2>4. n \in Nat
    BY <1>5
  <2> QED BY <2>3, <2>4
<1>12. \A i, k \in DOMAIN b : i < k => b[i].seq < b[k].seq
  BY <1>5, <1>8, <1>10
<1>13. {b[i].seq : i \in DOMAIN b} = S
  <2>1. \A i \in DOMAIN b : b[i].seq \in S
    BY <1>6, <1>8, <1>10
  <2>2. ASSUME NEW s \in S
        PROVE  \E i \in DOMAIN b : b[i].seq = s
    <3>1. PICK i \in 1..n : order[i] = s
      BY <1>5 DEF ToSet
    <3> QED BY <1>8, <1>10, <3>1
  <2> QED BY <2>1, <2>2
<1>14. batch = b
  BY <1>3
<1> QED BY <1>9, <1>10, <1>11, <1>12, <1>13, <1>14 DEF S

(* One poll: the wire goes on with all visible events after those sent. *)
LEMMA Polled ==
  ASSUME NEW l \in Seq(Entries), Dense(Len(l), l), NEW v \in Views, Level(v, l), v.open,
         NEW batch \in Seq(Entries), \A i \in DOMAIN batch : batch[i] \in ToSet(l),
         \A i, k \in DOMAIN batch : i < k => batch[i].seq < batch[k].seq,
         {batch[i].seq : i \in DOMAIN batch} = Seen(l, v.sent, Len(l)), batch # <<>>,
         NEW z \in Views, z.cursor = v.cursor, z.shown = v.shown, z.wire = v.wire \o batch,
         z.sent = Last(batch).seq
  PROVE  Level(z, l)
<1> DEFINE S == Seen(l, v.sent, Len(l))
           n == Len(batch)
           top == batch[n].seq
           j == v.wire \o batch
<1>1. /\ v.cursor \in Nat /\ v.sent \in Nat /\ Len(l) \in Nat /\ v.wire \in Seq(Entries)
      /\ v.cursor <= v.sent /\ v.sent <= Len(l) /\ v.cursor <= Len(l)
      /\ v.shown = Ordered(Seen(l, 0, v.cursor))
      /\ \A i, k \in DOMAIN v.wire : i < k => v.wire[i].seq < v.wire[k].seq
      /\ \A i \in DOMAIN v.wire : v.wire[i] \in ToSet(l)
      /\ {v.wire[i].seq : i \in DOMAIN v.wire} = Seen(l, v.cursor, v.sent)
  BY DEF Level, Views
<1>2. /\ batch \in Seq(Entries)
      /\ \A i \in DOMAIN batch : batch[i] \in ToSet(l)
      /\ \A i, k \in DOMAIN batch : i < k => batch[i].seq < batch[k].seq
      /\ {batch[i].seq : i \in DOMAIN batch} = S
  OBVIOUS
<1>3. n \in Nat /\ DOMAIN batch = 1..n /\ n \in 1..n /\ Last(batch) = batch[n]
  <2>1. n \in Nat /\ DOMAIN batch = 1..n
    BY <1>2
  <2>2. Last(batch) = batch[n] /\ n \in DOMAIN batch
    BY <1>2, LastOne
  <2> QED BY <2>1, <2>2
<1>4. \A k \in 1..n : batch[k].seq \in S
  BY <1>2, <1>3
<1>5. S \in SUBSET Nat
  BY <1>1, SeenFacts
<1> HIDE DEF n, S
<1>9. z.sent = top
  BY <1>3
<1>10. /\ top \in Nat /\ top \in S
       /\ \A s \in S : s \in Nat /\ s <= top
  <2>1. \A k \in 1..n : batch[k].seq \in Nat
    BY <1>4, <1>5
  <2>2. \A k \in 1..n : batch[k].seq <= top
    <3> SUFFICES ASSUME NEW k \in 1..n
                 PROVE  batch[k].seq <= batch[n].seq
      OBVIOUS
    <3>1. k = n \/ k < n
      BY <1>3
    <3>2. k < n => batch[k].seq < batch[n].seq
      BY <1>2, <1>3
    <3> QED BY <1>3, <2>1, <3>1, <3>2
  <2>3. \A s \in S : \E k \in 1..n : s = batch[k].seq
    <3> SUFFICES ASSUME NEW s \in S
                 PROVE  \E k \in 1..n : s = batch[k].seq
      OBVIOUS
    <3>1. s \in {batch[i].seq : i \in DOMAIN batch}
      BY <1>2
    <3> QED BY <1>3, <3>1
  <2> QED BY <1>3, <1>4, <1>5, <2>2, <2>3
<1> HIDE DEF top
<1>11. \A s : s \in S <=> s \in 1..Len(l) /\ Visible(l[s]) /\ v.sent < s /\ s <= Len(l)
  BY <1>1, SeenFacts DEF S
<1>12. top \in 1..Len(l) /\ v.sent < top
  BY <1>10, <1>11
<1>13. Seen(l, v.cursor, top) = Seen(l, v.cursor, v.sent) \cup S
  <2> SUFFICES ASSUME NEW s
               PROVE  s \in Seen(l, v.cursor, top) <=> s \in Seen(l, v.cursor, v.sent) \/ s \in S
    OBVIOUS
  <2>1. /\ s \in Seen(l, v.cursor, top) <=>
             s \in 1..Len(l) /\ Visible(l[s]) /\ v.cursor < s /\ s <= top
        /\ s \in Seen(l, v.cursor, v.sent) <=>
             s \in 1..Len(l) /\ Visible(l[s]) /\ v.cursor < s /\ s <= v.sent
    BY <1>1, <1>10, SeenFacts
  <2>2. s \in S => s <= top
    BY <1>10
  <2>3. s \in 1..Len(l) => (v.cursor < s /\ s <= top /\ ~(s <= v.sent) => v.sent < s /\ s <= Len(l))
    BY <1>1, <1>12
  <2>4. s \in 1..Len(l) => (s <= v.sent => s <= top) /\ (v.sent < s => v.cursor < s)
    BY <1>1, <1>12
  <2> QED BY <1>11, <2>1, <2>2, <2>3, <2>4
<1>14. /\ DOMAIN j = DOMAIN v.wire \cup {Len(v.wire) + i : i \in 1..n}
       /\ \A i \in DOMAIN v.wire : j[i] = v.wire[i]
       /\ \A i \in 1..n : j[Len(v.wire) + i] = batch[i]
       /\ \A i \in DOMAIN v.wire, k \in 1..n : ~(Len(v.wire) + k < i)
       /\ \A i, k \in 1..n : Len(v.wire) + i < Len(v.wire) + k <=> i < k
  <2>1. /\ DOMAIN j = DOMAIN v.wire \cup {Len(v.wire) + i : i \in DOMAIN batch}
        /\ \A i \in DOMAIN v.wire : j[i] = v.wire[i]
        /\ \A i \in DOMAIN batch : j[Len(v.wire) + i] = batch[i]
        /\ \A i \in DOMAIN v.wire, k \in DOMAIN batch : i < Len(v.wire) + k
        /\ \A i, k \in DOMAIN batch : (Len(v.wire) + i < Len(v.wire) + k <=> i < k)
    <3>1. v.wire \in Seq(Entries) /\ batch \in Seq(Entries)
      BY <1>1, <1>2
    <3> DEFINE s == v.wire
    <3> HIDE DEF s, j
    <3>2. j = s \o batch /\ s \in Seq(Entries)
      BY <3>1 DEF s, j
    <3>3. DOMAIN j = DOMAIN s \cup {Len(s) + i : i \in DOMAIN batch}
      <4>1. DOMAIN (s \o batch) = DOMAIN s \cup {Len(s) + i : i \in DOMAIN batch}
        BY <3>1, <3>2, JoinedEntries
      <4> QED BY <3>2, <4>1
    <3>5. \A i \in DOMAIN s : j[i] = s[i]
      BY <3>1, <3>2, JoinedEntries
    <3>6. \A i \in DOMAIN batch : j[Len(s) + i] = batch[i]
      <4>1. \A i \in DOMAIN batch : (s \o batch)[Len(s) + i] = batch[i]
        BY <3>1, <3>2, JoinedEntries
      <4> QED BY <3>2, <4>1
    <3>4. /\ \A i \in DOMAIN s, k \in DOMAIN batch : i < Len(s) + k
          /\ \A i, k \in DOMAIN batch : (Len(s) + i < Len(s) + k <=> i < k)
      BY <3>1, <3>2, JoinedEntries
    <3> QED BY <3>3, <3>4, <3>5, <3>6 DEF s
  <2>2. \A i \in DOMAIN v.wire, k \in 1..n : i \in Nat /\ Len(v.wire) + k \in Nat
    BY <1>1, <1>3
  <2> HIDE DEF j
  <2>3. \A i \in DOMAIN v.wire, k \in 1..n : ~(Len(v.wire) + k < i)
    BY <1>3, <2>1, <2>2
  <2> QED BY <1>3, <2>1, <2>3
<1>15. \A i \in DOMAIN v.wire : v.wire[i].seq \in Nat /\ v.wire[i].seq <= v.sent
  <2>1. \A i \in DOMAIN v.wire : v.wire[i].seq \in Seen(l, v.cursor, v.sent)
    BY <1>1
  <2> QED BY <1>1, <2>1, SeenFacts
<1> HIDE DEF j
<1>16. ASSUME NEW i \in DOMAIN j, NEW k \in DOMAIN j, i < k
       PROVE  j[i].seq < j[k].seq
  <2>1. CASE i \in DOMAIN v.wire /\ k \in DOMAIN v.wire
    BY <1>1, <1>14, <1>16, <2>1
  <2>2. CASE i \in DOMAIN v.wire /\ k \notin DOMAIN v.wire
    <3>1. PICK q \in 1..n : k = Len(v.wire) + q
      BY <1>14, <2>2
    <3>2. j[k].seq \in S
      BY <1>4, <1>14, <3>1
    <3>3. v.sent < j[k].seq /\ j[k].seq \in Nat
      BY <1>11, <3>2
    <3>4. j[i].seq \in Nat /\ j[i].seq <= v.sent
      BY <1>14, <1>15, <2>2
    <3> QED BY <1>1, <3>3, <3>4
  <2>3. CASE i \notin DOMAIN v.wire /\ k \in DOMAIN v.wire
    <3>1. PICK q \in 1..n : i = Len(v.wire) + q
      BY <1>14, <2>3
    <3> QED BY <1>14, <1>16, <2>3, <3>1
  <2>4. CASE i \notin DOMAIN v.wire /\ k \notin DOMAIN v.wire
    <3>1. PICK q \in 1..n, r \in 1..n : i = Len(v.wire) + q /\ k = Len(v.wire) + r
      BY <1>14, <2>4
    <3>2. q < r /\ j[i] = batch[q] /\ j[k] = batch[r]
      BY <1>14, <1>16, <3>1
    <3> QED BY <1>2, <1>3, <3>2
  <2> QED BY <2>1, <2>2, <2>3, <2>4
<1>17. \A i \in DOMAIN j : j[i] \in ToSet(l)
  <2> SUFFICES ASSUME NEW i \in DOMAIN j
               PROVE  j[i] \in ToSet(l)
    OBVIOUS
  <2>1. CASE i \in DOMAIN v.wire
    BY <1>1, <1>14, <2>1
  <2>2. CASE i \notin DOMAIN v.wire
    <3>1. PICK q \in 1..n : i = Len(v.wire) + q
      BY <1>14, <2>2
    <3>2. batch[q] \in ToSet(l)
      BY <1>2, <1>3
    <3>3. j[i] = batch[q]
      BY <1>14, <3>1
    <3> QED BY <3>2, <3>3
  <2> QED BY <2>1, <2>2
<1>18. {j[i].seq : i \in DOMAIN j} = Seen(l, v.cursor, v.sent) \cup S
  <2>1. ASSUME NEW i \in DOMAIN j
        PROVE  j[i].seq \in Seen(l, v.cursor, v.sent) \cup S
    <3>1. CASE i \in DOMAIN v.wire
      BY <1>1, <1>14, <3>1
    <3>2. CASE i \notin DOMAIN v.wire
      <4>1. PICK q \in 1..n : i = Len(v.wire) + q
        BY <1>14, <3>2
      <4>2. j[i] = batch[q]
        BY <1>14, <4>1
      <4> QED BY <1>4, <4>2
    <3> QED BY <3>1, <3>2
  <2>2. ASSUME NEW s \in Seen(l, v.cursor, v.sent)
        PROVE  \E i \in DOMAIN j : j[i].seq = s
    <3>1. PICK i \in DOMAIN v.wire : v.wire[i].seq = s
      BY <1>1
    <3> QED BY <1>14, <3>1
  <2>3. ASSUME NEW s \in S
        PROVE  \E i \in DOMAIN j : j[i].seq = s
    <3>1. s \in {batch[i].seq : i \in DOMAIN batch}
      BY <1>2
    <3>2. PICK k \in 1..n : batch[k].seq = s
      BY <1>3, <3>1
    <3>3. Len(v.wire) + k \in DOMAIN j
      BY <1>14
    <3>4. j[Len(v.wire) + k] = batch[k]
      BY <1>14
    <3> QED BY <3>2, <3>3, <3>4
  <2> QED BY <2>1, <2>2, <2>3
<1>19. z.cursor <= z.sent /\ z.sent <= Len(l)
  BY <1>1, <1>9, <1>12
<1>20. z.wire = j
  BY DEF j
<1>21. z.cursor <= Len(l) /\ z.shown = Ordered(Seen(l, 0, z.cursor))
  BY <1>1
<1>22. Seen(l, z.cursor, z.sent) = Seen(l, v.cursor, v.sent) \cup S
  BY <1>9, <1>13
<1>23. \A i, k \in DOMAIN z.wire : i < k => z.wire[i].seq < z.wire[k].seq
  BY <1>16, <1>20
<1>24. \A i \in DOMAIN z.wire : z.wire[i] \in ToSet(l)
  BY <1>17, <1>20
<1>25. {z.wire[i].seq : i \in DOMAIN z.wire} = Seen(l, z.cursor, z.sent)
  BY <1>18, <1>20, <1>22
<1> QED BY <1>19, <1>21, <1>23, <1>24, <1>25 DEF Level

(* One event is handled: it is the next one, and it is shown last. *)
LEMMA Received ==
  ASSUME NEW l \in Seq(Entries), Dense(Len(l), l), NEW v \in Views, Level(v, l), v.open,
         v.wire # <<>>, NEW z \in Views, z.sent = v.sent, z.wire = Tail(v.wire),
         LET e == Head(v.wire)
         IN /\ z.cursor = IF e.seq > v.cursor THEN e.seq ELSE v.cursor
            /\ z.shown = IF Contains(v.shown, e.seq) THEN v.shown
                         ELSE Ordered(ToSet(v.shown) \cup {e.seq})
  PROVE  Level(z, l)
<1> DEFINE e == Head(v.wire)
           c == e.seq
           rest == Tail(v.wire)
<1>1. /\ v.cursor \in Nat /\ v.sent \in Nat /\ Len(l) \in Nat /\ v.wire \in Seq(Entries)
      /\ v.cursor <= v.sent /\ v.sent <= Len(l) /\ v.shown \in Seq(Nat)
      /\ v.shown = Ordered(Seen(l, 0, v.cursor))
      /\ \A i, k \in DOMAIN v.wire : i < k => v.wire[i].seq < v.wire[k].seq
      /\ \A i \in DOMAIN v.wire : v.wire[i] \in ToSet(l)
      /\ {v.wire[i].seq : i \in DOMAIN v.wire} = Seen(l, v.cursor, v.sent)
  BY DEF Level, Views
<1>2. /\ 1 \in DOMAIN v.wire /\ e = v.wire[1] /\ Len(v.wire) \in Nat
      /\ DOMAIN v.wire = 1..Len(v.wire)
      /\ DOMAIN rest = 1..(Len(v.wire) - 1)
      /\ \A i \in DOMAIN rest : rest[i] = v.wire[i + 1] /\ i + 1 \in DOMAIN v.wire
  BY <1>1
<1>3. c \in Seen(l, v.cursor, v.sent)
  BY <1>1, <1>2
<1>4. /\ c \in 1..Len(l) /\ Visible(l[c]) /\ v.cursor < c /\ c <= v.sent
      /\ c \in Nat
  BY <1>1, <1>3, SeenFacts
<1> HIDE DEF e, c, rest
<1>5. \A i \in DOMAIN v.wire : i # 1 => c < v.wire[i].seq
  <2>1. \A i \in DOMAIN v.wire : i # 1 => 1 < i
    BY <1>2
  <2> QED BY <1>1, <1>2, <2>1 DEF c
<1>6. /\ \A d \in Seen(l, v.cursor, v.sent) : d \in Nat /\ (d = c \/ c < d)
      /\ \A d \in Nat : d \in Seen(l, v.cursor, v.sent) <=>
           d \in 1..Len(l) /\ Visible(l[d]) /\ v.cursor < d /\ d <= v.sent
  <2>1. \A d \in Seen(l, v.cursor, v.sent) : d = c \/ c < d
    <3>1. \A i \in DOMAIN v.wire : v.wire[i].seq = c \/ c < v.wire[i].seq
      BY <1>2, <1>5 DEF c
    <3>2. \A d \in {v.wire[i].seq : i \in DOMAIN v.wire} : d = c \/ c < d
      BY <3>1
    <3> QED BY <1>1, <3>2
  <2> QED BY <1>1, <2>1, SeenFacts
<1>7. Seen(l, c, v.sent) = Seen(l, v.cursor, v.sent) \ {c}
  <2> SUFFICES ASSUME NEW d
               PROVE  d \in Seen(l, c, v.sent) <=> d \in Seen(l, v.cursor, v.sent) /\ d # c
    OBVIOUS
  <2>1. d \in Seen(l, c, v.sent) <=> d \in 1..Len(l) /\ Visible(l[d]) /\ c < d /\ d <= v.sent
    BY <1>1, <1>4, SeenFacts
  <2>2. d \in 1..Len(l) /\ c < d => d \in Nat /\ v.cursor < d /\ d # c
    BY <1>1, <1>4
  <2>3. d \in Seen(l, v.cursor, v.sent) => d \in 1..Len(l) /\ Visible(l[d]) /\ d <= v.sent
    BY <1>1, SeenFacts
  <2> QED BY <1>6, <2>1, <2>2, <2>3
<1>8. Seen(l, 0, c) = Seen(l, 0, v.cursor) \cup {c}
  <2> SUFFICES ASSUME NEW d
               PROVE  d \in Seen(l, 0, c) <=> d \in Seen(l, 0, v.cursor) \/ d = c
    OBVIOUS
  <2>1. /\ d \in Seen(l, 0, c) <=> d \in 1..Len(l) /\ Visible(l[d]) /\ 0 < d /\ d <= c
        /\ d \in Seen(l, 0, v.cursor) <=> d \in 1..Len(l) /\ Visible(l[d]) /\ 0 < d /\ d <= v.cursor
    BY <1>1, <1>4, SeenFacts
  <2>2. CASE d = c
    <3>1. 0 < d /\ d <= c
      BY <1>4, <2>2
    <3> QED BY <1>4, <2>1, <2>2, <3>1
  <2>3. CASE d # c
    <3>1. ASSUME d \in 1..Len(l), Visible(l[d]), d <= c, ~(d <= v.cursor)
          PROVE  FALSE
      <4>1. d \in Nat /\ v.cursor < d /\ d <= v.sent /\ ~(c < d)
        BY <1>1, <1>4, <3>1
      <4>2. d \in Seen(l, v.cursor, v.sent)
        BY <1>6, <3>1, <4>1
      <4> QED BY <1>6, <2>3, <4>1, <4>2
    <3>2. d \in 1..Len(l) /\ d <= v.cursor => d <= c
      BY <1>1, <1>4
    <3> QED BY <2>1, <2>3, <3>1, <3>2
  <2> QED BY <2>2, <2>3
<1>9. ToSet(v.shown) = Seen(l, 0, v.cursor)
  BY <1>1, SeenFacts, OrderedSet
<1>10. ~Contains(v.shown, c)
  <2>1. c \notin Seen(l, 0, v.cursor)
    <3>1. c \in Seen(l, 0, v.cursor) => c <= v.cursor
      BY <1>1, SeenFacts
    <3> QED BY <1>1, <1>4, <3>1
  <2>2. DOMAIN v.shown = 1..Len(v.shown)
    BY <1>1
  <2>3. \A i \in DOMAIN v.shown : v.shown[i] # c
    BY <1>9, <2>1 DEF ToSet
  <2> QED BY <2>2, <2>3 DEF Contains
<1>11. z.cursor = c /\ z.shown = Ordered(Seen(l, 0, c))
  <2>1. c > v.cursor
    BY <1>1, <1>4
  <2> QED BY <1>8, <1>9, <1>10, <2>1 DEF c, e
<1>12. z.cursor <= z.sent /\ z.sent <= Len(l) /\ z.cursor <= Len(l)
  BY <1>1, <1>4, <1>11
<1>13. \A i, k \in DOMAIN rest : i < k => rest[i].seq < rest[k].seq
  <2> SUFFICES ASSUME NEW i \in DOMAIN rest, NEW k \in DOMAIN rest, i < k
               PROVE  rest[i].seq < rest[k].seq
    OBVIOUS
  <2>1. i + 1 < k + 1
    BY <1>2
  <2> QED BY <1>1, <1>2, <2>1
<1>14. \A i \in DOMAIN rest : rest[i] \in ToSet(l)
  BY <1>1, <1>2
<1>15. {rest[i].seq : i \in DOMAIN rest} = Seen(l, v.cursor, v.sent) \ {c}
  <2>1. ASSUME NEW i \in DOMAIN rest
        PROVE  rest[i].seq \in Seen(l, v.cursor, v.sent) /\ rest[i].seq # c
    <3>1. i + 1 \in DOMAIN v.wire /\ i + 1 # 1 /\ rest[i] = v.wire[i + 1]
      BY <1>2
    <3>2. rest[i].seq \in Seen(l, v.cursor, v.sent) /\ c < rest[i].seq
      BY <1>1, <1>5, <3>1
    <3> QED BY <1>4, <3>2
  <2>2. ASSUME NEW d \in Seen(l, v.cursor, v.sent), d # c
        PROVE  \E i \in DOMAIN rest : rest[i].seq = d
    <3>1. PICK k \in DOMAIN v.wire : v.wire[k].seq = d
      BY <1>1
    <3>2. k # 1
      BY <1>2, <2>2, <3>1 DEF c
    <3>3. k - 1 \in DOMAIN rest /\ (k - 1) + 1 = k
      BY <1>2, <3>2
    <3> QED BY <1>2, <3>1, <3>3
  <2> QED BY <2>1, <2>2
<1>16. z.wire = rest
  BY DEF rest
<1>17. \A i, k \in DOMAIN z.wire : i < k => z.wire[i].seq < z.wire[k].seq
  BY <1>13, <1>16
<1>18. \A i \in DOMAIN z.wire : z.wire[i] \in ToSet(l)
  BY <1>14, <1>16
<1>19. {z.wire[i].seq : i \in DOMAIN z.wire} = Seen(l, z.cursor, z.sent)
  <2>1. {z.wire[i].seq : i \in DOMAIN z.wire} = Seen(l, v.cursor, v.sent) \ {c}
    BY <1>15, <1>16
  <2>2. z.cursor = c /\ z.sent = v.sent
    BY <1>11
  <2> QED BY <1>7, <2>1, <2>2
<1>20. z.shown = Ordered(Seen(l, 0, z.cursor))
  BY <1>11
<1> QED BY <1>12, <1>17, <1>18, <1>19, <1>20 DEF Level

-----------------------------------------------------------------------------
(* The steps of the store, seen by the browser.                            *)

LEMMA LogFactsNext ==
  ASSUME DInv', NEW x \in Tasks \cup {Session}
  PROVE  /\ LogOf(x)' \in Seq(Entries)
         /\ Tracked(x)' => Dense(Len(LogOf(x)'), LogOf(x)')
<1>1. CASE x = Session
  <2>1. sessionLog' \in Seq(Copies)
    BY DEF DInv, Typed
  <2>2. sessionLog' \in Seq(Entries)
    BY <2>1 DEF Entries
  <2>3. Tracked(x)' => Dense(Len(sessionLog'), sessionLog')
    BY <1>1 DEF Tracked, DInv, Ordinary, Dense
  <2> QED BY <1>1, <2>1, <2>2, <2>3 DEF LogOf
<1>2. CASE x # Session
  <2>1. log'[x] \in Seq(Events) /\ Dense(Len(log'[x]), log'[x])
    BY <1>2 DEF DInv, Typed, AllDense, Dense
  <2>2. log'[x] \in Seq(Entries)
    BY <2>1 DEF Entries
  <2> QED BY <1>2, <2>1, <2>2 DEF LogOf
<1> QED BY <1>1, <1>2

(* A commit and a deletion, for the stream of a task or of the session: a
   stream that no longer reads its log does not come to read it again.      *)
LEMMA CommitGrows ==
  ASSUME DInv, SInv, NEW w \in Writers, Commit(w), ~Taken(w), NEW x \in Tasks \cup {Session},
         view' = view, view.born \in Nat, view.born <= session.born, Life(x) # "absent"
  PROVE  /\ Life(x)' # "absent" /\ (Tracked(x)' => Tracked(x))
         /\ session.born <= session'.born
         /\ \E m \in Seq(Entries) : LogOf(x)' = LogOf(x) \o m
<1> DEFINE y == txn[w]
           t == txn[w].task
<1>1. /\ y \in Txns /\ t \in Tasks /\ past' = past
      /\ task'[t].life = "there" /\ log'[t] = log[t] \o y.events
      /\ \A u \in Tasks \ {t} : task'[u] = task[u] /\ log'[u] = log[u]
      /\ sessionLog' = sessionLog \o y.shared
      /\ y.shared = <<>> => session' = session
      /\ y.shared # <<>> => session'.life = "there"
      /\ task[t].life = IF y.op = "create" THEN "absent" ELSE "there"
  <2> HIDE DEF y, t
  <2> QED BY CommitFacts DEF y, t
<1>2. y.events \in Seq(Entries) /\ y.shared \in Seq(Entries)
  <2>1. y.events \in Seq(Events) /\ y.shared \in Seq(Copies)
    BY <1>1 DEF Txns
  <2> HIDE DEF y
  <2> QED BY <2>1 DEF Entries
<1>6. /\ session.born \in Nat /\ session'.born \in Nat /\ session.born <= session'.born
      /\ session.life # "there" /\ session'.life = "there" => session.born < session'.born
  <2>1. session.born \in Nat
    BY DEF DInv, Typed
  <2>2. CASE y.shared = <<>>
    BY <1>1, <2>1, <2>2
  <2>3. CASE y.shared # <<>>
    <3>1. session' = [life |-> "there", seq |-> Last(y.shared).seq,
                      born |-> session.born + (IF There(Session) THEN 0 ELSE 1)]
      BY <2>3, CommitEffects
    <3> DEFINE n == Last(y.shared).seq
    <3> HIDE DEF n, y
    <3>2. session'.born = session.born + (IF There(Session) THEN 0 ELSE 1)
      BY <3>1 DEF n
    <3>3. There(Session) <=> session.life = "there"
      BY DEF There
    <3> QED BY <2>1, <3>2, <3>3
  <2> QED BY <2>2, <2>3
<1> HIDE DEF y, t
<1>3. CASE x = Session
  <2>1. LogOf(x)' = LogOf(x) \o y.shared
    BY <1>1, <1>3 DEF LogOf
  <2>2. Life(x) = session.life /\ Life(x)' = session'.life
    BY <1>3 DEF Life
  <2>3. Life(x)' # "absent"
    BY <1>1, <2>2
  <2>4. Tracked(x)' => Tracked(x)
    <3> SUFFICES ASSUME Tracked(x)'
                 PROVE  Tracked(x)
      OBVIOUS
    <3>1. session'.life = "there" /\ view.born = session'.born /\ ~past.carried
      BY <1>1, <1>3, <2>2 DEF Tracked
    <3>2. session.born = session'.born /\ ~(session.born < session'.born)
      BY <1>6, <3>1
    <3>3. session.life = "there" /\ view.born = session.born
      BY <1>6, <3>1, <3>2
    <3> QED BY <1>3, <2>2, <3>1, <3>3 DEF Tracked
  <2> QED BY <1>2, <1>6, <2>1, <2>3, <2>4
<1>4. CASE x = t /\ x # Session
  <2>1. LogOf(x)' = LogOf(x) \o y.events
    BY <1>1, <1>4 DEF LogOf
  <2>2. Life(x) = task[t].life /\ Life(x)' = task'[t].life
    BY <1>4 DEF Life
  <2> QED BY <1>1, <1>2, <1>4, <1>6, <2>1, <2>2 DEF Tracked
<1>5. CASE x # t /\ x # Session
  <2>1. LogOf(x)' = LogOf(x) \o <<>>
    <3>1. log'[x] = log[x] /\ log[x] \in Seq(Events)
      BY <1>1, <1>5 DEF DInv, Typed
    <3> QED BY <1>5, <3>1 DEF LogOf
  <2>2. Life(x) = task[x].life /\ Life(x)' = task[x].life
    BY <1>1, <1>5 DEF Life
  <2>3. <<>> \in Seq(Entries)
    OBVIOUS
  <2> QED BY <1>5, <1>6, <2>1, <2>2, <2>3 DEF Tracked
<1> QED BY <1>3, <1>4, <1>5

LEMMA DeleteEnds ==
  ASSUME DInv, SInv, NEW w \in Writers, CommitDelete(w), NEW x \in Tasks \cup {Session}
  PROVE  /\ \/ Life(x)' = "deleted"
            \/ Life(x)' = Life(x) /\ LogOf(x)' = LogOf(x)
         /\ session'.born = session.born /\ past'.carried = past.carried
<1> DEFINE gone == txn[w].doomed
           deleted == [NoRow EXCEPT !.life = "deleted"]
           left == {t \in Tasks \ gone : There(t)}
<1>1. /\ task' = [t \in Tasks |-> IF t \in gone THEN deleted ELSE task[t]]
      /\ log' = [t \in Tasks |-> IF t \in gone THEN <<>> ELSE log[t]]
      /\ \/ UNCHANGED <<session, sessionLog, past>>
         \/ /\ session' = [session EXCEPT !.life = "deleted", !.seq = 0]
            /\ past' = [past EXCEPT !.orphans = @ \cup left]
  BY DEF CommitDelete
<1>2. deleted.life = "deleted"
  BY DEF NoRow
<1> HIDE DEF gone, deleted, left
<1>5. /\ UNCHANGED <<session, sessionLog>> \/ session'.life = "deleted"
      /\ session'.born = session.born /\ past'.carried = past.carried
  <2>1. /\ session \in [life : Lives, seq : Nat, born : Nat]
        /\ past \in [refused : BOOLEAN, carried : BOOLEAN, orphans : SUBSET Tasks]
    BY DEF DInv, Typed
  <2> QED BY <1>1, <2>1
<1>3. CASE x = Session
  BY <1>3, <1>5 DEF Life, LogOf
<1>4. CASE x # Session
  <2>1. task'[x].life = "deleted" \/ (task'[x] = task[x] /\ log'[x] = log[x])
    BY <1>1, <1>2, <1>4
  <2> QED BY <1>4, <1>5, <2>1 DEF Life, LogOf
<1> QED BY <1>3, <1>4

LEMMA FollowsOn ==
  ASSUME DInv, DInv', SInv, VInv, NEW w \in Writers,
         UNCHANGED rows \/ (Commit(w) /\ ~Taken(w)) \/ CommitDelete(w),
         UNCHANGED rows => (past.carried => past'.carried), UNCHANGED client
  PROVE  VInv'
<1>1. view' = view /\ moves' = moves /\ bound' = bound
  BY DEF client
<1>4. /\ session.born \in Nat /\ session'.born \in Nat
      /\ view.born \in Nat /\ view.born <= session.born
  BY DEF DInv, Typed, VInv, Views
<1>2. ASSUME NEW x \in Tasks \cup {Session}, view.of = x
      PROVE  Life(x)' # "absent" /\ (Tracked(x)' => Level(view', LogOf(x)'))
  <2>1. Life(x) # "absent" /\ (Tracked(x) => Level(view, LogOf(x)))
    BY <1>2 DEF VInv, Following
  <2>2. LogOf(x) \in Seq(Entries) /\ (Tracked(x) => Dense(Len(LogOf(x)), LogOf(x)))
    BY LogFacts
  <2>3. CASE UNCHANGED rows
    <3>1. Life(x)' = Life(x) /\ LogOf(x)' = LogOf(x)
      BY <2>3 DEF rows, Life, LogOf
    <3>2. Tracked(x)' => Tracked(x)
      BY <1>1, <2>3, <3>1 DEF rows, Tracked
    <3> QED BY <1>1, <2>1, <3>1, <3>2
  <2>4. CASE CommitDelete(w)
    <3>1. CASE Life(x)' = "deleted"
      BY <3>1 DEF Tracked
    <3>2. CASE Life(x)' = Life(x) /\ LogOf(x)' = LogOf(x)
      <4>1. Tracked(x)' => Tracked(x)
        BY <1>1, <2>4, <3>2, DeleteEnds DEF Tracked
      <4> QED BY <1>1, <2>1, <3>2, <4>1
    <3> QED BY <2>4, <3>1, <3>2, DeleteEnds
  <2>5. CASE Commit(w) /\ ~Taken(w)
    <3>1. Life(x)' # "absent" /\ (Tracked(x)' => Tracked(x))
      BY <1>1, <1>4, <2>1, <2>5, CommitGrows
    <3>2. PICK m \in Seq(Entries) : LogOf(x)' = LogOf(x) \o m
      BY <1>1, <1>4, <2>1, <2>5, CommitGrows
    <3>3. ASSUME Tracked(x)'
          PROVE  Level(view, LogOf(x) \o m)
      <4> DEFINE l == LogOf(x)
      <4>1. view \in Views /\ Dense(Len(l \o m), l \o m)
        BY <3>2, <3>3, LogFactsNext DEF VInv
      <4>2. l \in Seq(Entries) /\ Dense(Len(l), l) /\ Level(view, l)
        BY <2>1, <2>2, <3>1, <3>3
      <4> HIDE DEF l
      <4>3. Level(view, l \o m)
        BY <4>1, <4>2, LogGrows
      <4> QED BY <4>3 DEF l
    <3> QED BY <1>1, <3>1, <3>2, <3>3
  <2> QED BY <2>3, <2>4, <2>5
<1>3. Following'
  BY <1>1, <1>2 DEF Following
<1>5. view'.born <= session'.born
  <2>1. CASE UNCHANGED rows
    BY <1>1, <1>4, <2>1 DEF rows
  <2>2. CASE CommitDelete(w)
    <3>1. session'.born = session.born
      BY <2>2, DeleteEnds
    <3> QED BY <1>1, <1>4, <3>1
  <2>3. CASE Commit(w) /\ ~Taken(w)
    <3>1. session.born <= session'.born
      <4>1. CASE txn[w].shared = <<>>
        <5>1. session' = session
          BY <2>3, <4>1, CommitFacts
        <5> QED BY <1>4, <5>1
      <4>2. CASE txn[w].shared # <<>>
        <5> DEFINE n == Last(txn[w].shared).seq
        <5>1. session' = [life |-> "there", seq |-> n,
                          born |-> session.born + (IF There(Session) THEN 0 ELSE 1)]
          BY <2>3, <4>2, CommitEffects
        <5> HIDE DEF n
        <5>2. session'.born = session.born + (IF There(Session) THEN 0 ELSE 1)
          BY <5>1
        <5> QED BY <1>4, <5>2
      <4> QED BY <4>1, <4>2
    <3> QED BY <1>1, <1>4, <3>1
  <2> QED BY <2>1, <2>2, <2>3
<1> QED BY <1>1, <1>3, <1>5 DEF VInv, NoView

-----------------------------------------------------------------------------
(* The steps of the browser.                                               *)

LEMMA FlagsSet ==
  ASSUME NEW v \in Views, NEW b \in BOOLEAN
  PROVE  /\ [v EXCEPT !.open = b] \in Views
         /\ [v EXCEPT !.retry = b] \in Views
         /\ [v EXCEPT !.closing = b] \in Views
  BY DEF Views
LEMMA NumbersSet ==
  ASSUME NEW v \in Views, NEW n \in Nat
  PROVE  /\ [v EXCEPT !.cursor = n] \in Views
         /\ [v EXCEPT !.sent = n] \in Views
  BY DEF Views
LEMMA WireSet ==
  ASSUME NEW v \in Views, NEW s \in Seq(Entries)
  PROVE  [v EXCEPT !.wire = s] \in Views
  BY DEF Views
LEMMA ShownSet ==
  ASSUME NEW v \in Views, NEW s \in Seq(Nat)
  PROVE  [v EXCEPT !.shown = s] \in Views
  BY DEF Views

LEMMA ViewMoves ==
  ASSUME VInv, NEW v \in Views, view' = v, UNCHANGED store, moves' \in 0..bound.moves,
         ~(v.open /\ v.retry), NEW x \in Tasks \cup {Session}, v.of = x,
         v.born <= session.born, Life(x) # "absent",
         Life(x) = "there" /\ (x = Session => v.born = session.born /\ ~past.carried)
           => Level(v, LogOf(x))
  PROVE  VInv'
<1>1. UNCHANGED <<task, session, log, sessionLog, bound, past>>
  BY DEF store, rows
<1>2. Life(x)' = Life(x) /\ LogOf(x)' = LogOf(x)
  BY <1>1 DEF Life, LogOf
<1>3. Following'
  BY <1>1, <1>2 DEF Following, Tracked
<1>4. v.of # None
  BY EventLogAssumption
<1> QED BY <1>1, <1>3, <1>4 DEF VInv

(* The stream the browser is on, when it is on one. *)
LEMMA OnStream ==
  ASSUME DInv, VInv, view.of # None
  PROVE  LET x == view.of
         IN /\ x \in Tasks \cup {Session} /\ Life(x) # "absent"
            /\ Tracked(x) => Level(view, LogOf(x)) /\ Dense(Len(LogOf(x)), LogOf(x))
            /\ There(x) <=> Life(x) = "there"
            /\ LogOf(x) \in Seq(Entries)
<1>1. view.of \in Tasks \cup {Session}
  BY DEF VInv, Views
<1> DEFINE x == view.of
<1>2. Life(x) # "absent" /\ (Tracked(x) => Level(view, LogOf(x)))
  BY <1>1 DEF VInv, Following
<1>3. There(x) <=> Life(x) = "there"
  BY DEF There, Life
<1> QED BY <1>1, <1>2, <1>3, LogFacts

LEMMA ViewOpens ==
  ASSUME DInv, VInv, NEW x \in Tasks \cup {Session}, Follow(x)
  PROVE  VInv'
<1> DEFINE b == session.born
           v == [of |-> x, born |-> b, open |-> TRUE, retry |-> FALSE, closing |-> FALSE,
                 cursor |-> 0, shown |-> <<>>, sent |-> 0, wire |-> <<>>]
           l == LogOf(x)
<1>1. view' = v /\ UNCHANGED store /\ moves' = moves + 1 /\ moves < bound.moves /\ There(x)
  BY DEF Follow, NoView
<1>9. b \in Nat
  BY DEF DInv, Typed
<1> HIDE DEF b
<1>2. v \in Views
  BY <1>9 DEF Views
<1>3. Life(x) = "there"
  BY <1>1 DEF There, Life
<1>4. l \in Seq(Entries) /\ (Tracked(x)' => Dense(Len(l), l))
  <2>1. l \in Seq(Entries)
    BY LogFacts
  <2>2. CASE x = Session
    <3>1. Tracked(x)' => ~past.carried
      BY <1>1, <2>2 DEF Tracked, store
    <3> QED BY <2>1, <2>2, <3>1 DEF LogOf, DInv, Ordinary, Dense
  <2>3. CASE x # Session
    <3>1. Tracked(x)
      BY <1>3, <2>3 DEF Tracked
    <3> QED BY <2>1, <3>1, LogFacts
  <2> QED BY <2>2, <2>3
<1>5. moves' \in 0..bound.moves
  <2>1. moves \in 0..bound.moves /\ bound.moves \in Nat
    BY EventLogAssumption DEF VInv, DInv, Typed
  <2> QED BY <1>1, <2>1
<1>7. /\ v.cursor = 0 /\ v.shown = <<>> /\ v.sent = 0 /\ v.wire = <<>> /\ v.of = x
      /\ ~v.retry /\ v.born = b
  OBVIOUS
<1> HIDE DEF l, v
<1>8. ASSUME x = Session => ~past.carried
      PROVE  Level(v, l)
  <2>1. l \in Seq(Entries) /\ Dense(Len(l), l)
    <3>1. Tracked(x)'
      <4>1. Life(x)' = "there"
        BY <1>1, <1>3 DEF store, rows, Life
      <4>2. past' = past /\ view'.born = session'.born
        BY <1>1, <1>7 DEF store, rows, b
      <4> QED BY <1>8, <4>1, <4>2 DEF Tracked
    <3> QED BY <1>4, <3>1
  <2>2. Ordered(Seen(l, 0, 0)) = <<>>
    <3>1. Seen(l, 0, 0) = {}
      <4>1. \A n : n \in Seen(l, 0, 0) => n \in 1..Len(l) /\ n <= 0
        BY <2>1, SeenFacts
      <4> QED BY <2>1, <4>1
    <3> QED BY <3>1, OrderedSet, FS_EmptySet
  <2>3. v.cursor \in Nat /\ v.cursor <= Len(l) /\ v.shown = Ordered(Seen(l, 0, v.cursor))
    BY <2>1, <2>2, <1>7
  <2> QED BY <1>7, <2>1, <2>3, NothingSent
<1>10. v.born <= session.born
  BY <1>7, <1>9 DEF b
<1> QED BY <1>1, <1>2, <1>3, <1>5, <1>7, <1>8, <1>10, ViewMoves DEF l

(* A stream closed, or opened again after the cursor: what is shown stays. *)
LEMMA ViewStays ==
  ASSUME DInv, VInv, view.of # None, NEW v \in Views, view' = v, UNCHANGED store,
         moves' \in 0..bound.moves, ~(v.open /\ v.retry), v.of = view.of, v.born = view.born,
         v.cursor = view.cursor, v.shown = view.shown, v.wire = <<>>,
         v.open => v.sent = v.cursor
  PROVE  VInv'
<1> DEFINE x == view.of
           l == LogOf(x)
<1>1. /\ x \in Tasks \cup {Session} /\ Life(x) # "absent" /\ v.of = x
      /\ Tracked(x) => Level(view, l) /\ Dense(Len(l), l)
      /\ l \in Seq(Entries)
  BY OnStream
<1> HIDE DEF x, l
<1>2. Tracked(x) => Level(v, l)
  <2> SUFFICES ASSUME Tracked(x)
               PROVE  Level(v, l)
    OBVIOUS
  <2>1. view.cursor <= Len(l) /\ view.shown = Ordered(Seen(l, 0, view.cursor))
    BY <1>1 DEF Level
  <2>2. v.cursor \in Nat /\ v.cursor <= Len(l) /\ v.shown = Ordered(Seen(l, 0, v.cursor))
    BY <2>1 DEF Views
  <2> QED BY <1>1, <2>2, NothingSent
<1>3. v.born <= session.born
  BY DEF VInv
<1> QED BY <1>1, <1>2, <1>3, ViewMoves DEF l, Tracked

LEMMA ViewReopens ==
  ASSUME DInv, VInv, Signal \/ StreamBreaks \/ CloseStream \/ Reconnect
  PROVE  VInv'
<1>1. /\ view \in Views /\ moves \in 0..bound.moves /\ bound.moves \in Nat
      /\ ~(view.open /\ view.retry)
  BY EventLogAssumption DEF VInv, DInv, Typed
<1>2. view.of # None
  BY DEF VInv, NoView, Signal, StreamBreaks, CloseStream, Reconnect
<1> DEFINE v == view'
<1>3. UNCHANGED store /\ moves' \in 0..bound.moves
  BY <1>1 DEF Signal, StreamBreaks, CloseStream, Reconnect
<1>4. /\ ~(v.open /\ v.retry) /\ v.of = view.of /\ v.born = view.born
      /\ v.cursor = view.cursor /\ v.shown = view.shown /\ v.wire = <<>>
      /\ v.open => v.sent = v.cursor
  <2>1. CASE Signal \/ Reconnect
    BY <1>1, <2>1 DEF Signal, Reconnect, Reconnected, Views
  <2>2. CASE StreamBreaks
    BY <1>1, <2>2 DEF StreamBreaks, Broken, Views
  <2>3. CASE CloseStream
    BY <1>1, <2>3 DEF CloseStream, Views
  <2> QED BY <2>1, <2>2, <2>3
<1>5. v \in Views
  <2>1. <<>> \in Seq(Entries) /\ view.cursor \in Nat /\ view.closing \in BOOLEAN
    BY <1>1 DEF Views
  <2>2. Reconnected \in Views
    BY <1>1, <2>1, FlagsSet, NumbersSet, WireSet DEF Reconnected
  <2>3. [Reconnected EXCEPT !.closing = view.closing] \in Views
    BY <2>1, <2>2, FlagsSet
  <2>4. Broken \in Views
    BY <1>1, <2>1, FlagsSet, WireSet DEF Broken
  <2>5. [view EXCEPT !.open = FALSE, !.wire = <<>>, !.closing = FALSE] \in Views
    BY <1>1, <2>1, FlagsSet, WireSet
  <2> QED BY <2>2, <2>3, <2>4, <2>5 DEF Signal, Reconnect, StreamBreaks, CloseStream
<1> HIDE DEF v
<1> QED BY <1>2, <1>3, <1>4, <1>5, ViewStays DEF v

LEMMA AfterIsBatch ==
  ASSUME NEW x, NEW n
  PROVE  After(x, n) = Batch(LogOf(x), n)
  BY DEF After, Batch

LEMMA ViewPolls ==
  ASSUME DInv, VInv, Poll
  PROVE  VInv'
<1> DEFINE x == view.of
           l == LogOf(x)
           batch == Batch(l, view.sent)
           v == [view EXCEPT !.wire = @ \o batch, !.sent = Last(batch).seq]
<1>1. /\ view \in Views /\ moves \in 0..bound.moves /\ ~(view.open /\ view.retry)
  BY DEF VInv
<1>2. /\ view.open /\ There(x) /\ batch # <<>> /\ view' = v
      /\ UNCHANGED <<store, moves, bound>>
  BY AfterIsBatch DEF Poll, store
<1>3. view.of # None
  BY <1>2 DEF VInv, NoView
<1>4. /\ x \in Tasks \cup {Session} /\ Life(x) = "there"
      /\ Tracked(x) => Level(view, l) /\ Dense(Len(l), l)
      /\ l \in Seq(Entries)
  BY <1>2, <1>3, OnStream
<1> HIDE DEF x, l
<1>11. batch \in Seq(Entries)
  BY <1>1, <1>4, BatchTyped DEF Views
<1>5. ASSUME Tracked(x)
      PROVE
      /\ \A i \in DOMAIN batch : batch[i] \in ToSet(l)
      /\ \A i, k \in DOMAIN batch : i < k => batch[i].seq < batch[k].seq
      /\ {batch[i].seq : i \in DOMAIN batch} = Seen(l, view.sent, Len(l))
  <2>1. view.sent \in Nat
    BY <1>1 DEF Views
  <2> QED BY <1>4, <1>5, <2>1, OneBatch
<1> HIDE DEF batch
<1>6. Last(batch) \in Entries /\ Last(batch).seq \in Nat
  <2>1. Last(batch) \in Entries
    BY <1>2, <1>11, LastOne
  <2> QED BY <2>1 DEF Entries, Events, Copies
<1>7. v \in Views
  <2>1. view.wire \in Seq(Entries)
    BY <1>1 DEF Views
  <2>2. view.wire \o batch \in Seq(Entries)
    BY <1>11, <2>1
  <2> QED BY <1>1, <1>6, <2>2, WireSet, NumbersSet
<1>8. /\ v.cursor = view.cursor /\ v.shown = view.shown /\ v.of = view.of /\ v.born = view.born
      /\ v.open = view.open /\ v.retry = view.retry
      /\ v.wire = view.wire \o batch /\ v.sent = Last(batch).seq
  BY <1>1 DEF Views
<1> HIDE DEF v
<1>9. Tracked(x) => Level(v, l)
  <2> SUFFICES ASSUME Tracked(x)
               PROVE  Level(v, l)
    OBVIOUS
  <2> QED BY <1>1, <1>2, <1>4, <1>5, <1>7, <1>8, <1>11, Polled
<1>10. moves' \in 0..bound.moves /\ v.of = x /\ ~(v.open /\ v.retry)
  BY <1>1, <1>2, <1>8 DEF x
<1>12. v.born <= session.born
  BY <1>8 DEF VInv
<1> QED BY <1>2, <1>4, <1>7, <1>8, <1>9, <1>10, <1>12, ViewMoves DEF l, Tracked

LEMMA ViewReceives ==
  ASSUME DInv, VInv, Receive
  PROVE  VInv'
<1> DEFINE x == view.of
           l == LogOf(x)
           e == Head(view.wire)
           cursor == IF e.seq > view.cursor THEN e.seq ELSE view.cursor
           shown == IF Contains(view.shown, e.seq) THEN view.shown
                    ELSE Ordered(ToSet(view.shown) \cup {e.seq})
           closing == view.closing \/ (x # Session /\ Terminal(e))
           v == [view EXCEPT !.wire = Tail(view.wire), !.cursor = cursor,
                             !.shown = shown, !.closing = closing]
<1>1. /\ view \in Views /\ moves \in 0..bound.moves /\ ~(view.open /\ view.retry)
      /\ view.wire \in Seq(Entries) /\ view.shown \in Seq(Nat) /\ view.cursor \in Nat
  BY DEF VInv, Views
<1>2. /\ view.open /\ view.wire # <<>> /\ view' = v
      /\ UNCHANGED <<store, moves, bound>>
  BY DEF Receive, store
<1>3. view.of # None
  BY <1>2 DEF VInv, NoView
<1>4. /\ x \in Tasks \cup {Session} /\ Life(x) # "absent"
      /\ Tracked(x) => Level(view, l) /\ Dense(Len(l), l)
      /\ l \in Seq(Entries)
  BY <1>3, OnStream
<1> HIDE DEF x, l
<1>5. e \in Entries /\ e.seq \in Nat /\ Tail(view.wire) \in Seq(Entries)
  <2>1. e \in Entries /\ Tail(view.wire) \in Seq(Entries)
    BY <1>1, <1>2
  <2> HIDE DEF e
  <2> QED BY <2>1 DEF Entries, Events, Copies
<1> HIDE DEF e
<1>6. shown \in Seq(Nat)
  <2> DEFINE S == ToSet(view.shown) \cup {e.seq}
  <2>1. S \in SUBSET Nat
    BY <1>1, <1>5 DEF ToSet
  <2>2. IsFiniteSet(S)
    <3>1. IsFiniteSet(ToSet(view.shown))
      BY <1>1, FiniteEntries
    <3> QED BY <3>1, FS_AddElement
  <2>3. Ordered(S) \in Seq(Nat)
    BY <2>1, <2>2, OrderedSet
  <2> HIDE DEF S
  <2> QED BY <1>1, <2>3 DEF S
<1>7. cursor \in Nat /\ closing \in BOOLEAN
  BY <1>1, <1>5 DEF Views, Terminal
<1>8. v \in Views
  <2> HIDE DEF cursor, shown, closing
  <2> QED BY <1>1, <1>5, <1>6, <1>7, WireSet, NumbersSet, ShownSet, FlagsSet
<1>9. /\ v.cursor = cursor /\ v.shown = shown /\ v.of = view.of /\ v.sent = view.sent
      /\ v.born = view.born
      /\ v.open = view.open /\ v.retry = view.retry /\ v.wire = Tail(view.wire)
  <2> HIDE DEF cursor, shown, closing
  <2> QED BY <1>1 DEF Views
<1> HIDE DEF v
<1>10. Tracked(x) => Level(v, l)
  <2> SUFFICES ASSUME Tracked(x)
               PROVE  Level(v, l)
    OBVIOUS
  <2> QED BY <1>1, <1>2, <1>4, <1>8, <1>9, Received DEF e
<1>11. moves' \in 0..bound.moves /\ v.of = x /\ ~(v.open /\ v.retry)
  BY <1>1, <1>2, <1>9 DEF x
<1>12. v.born <= session.born
  BY <1>9 DEF VInv
<1> QED BY <1>2, <1>4, <1>8, <1>9, <1>10, <1>11, <1>12, ViewMoves DEF l, Tracked

LEMMA StartsShown == Init => VInv
<1> SUFFICES ASSUME Init
             PROVE  VInv
  OBVIOUS
<1>1. view = NoView /\ moves = 0 /\ bound.moves \in Nat
  BY EventLogAssumption DEF Init
<1>2. NoView \in Views /\ NoView.of = None /\ ~NoView.open /\ NoView.born = 0
  BY DEF NoView, Views
<1>4. session.born = 0
  BY DEF Init
<1>3. Following
  BY <1>1, <1>2, EventLogAssumption DEF Following
<1> QED BY <1>1, <1>2, <1>3, <1>4 DEF VInv

LEMMA StepsKeepShown == DInv /\ SInv /\ VInv /\ [Next]_vars => VInv'
<1> SUFFICES ASSUME DInv, SInv, VInv, [Next]_vars
             PROVE  VInv'
  OBVIOUS
<1>1. DInv'
  BY StepsKeepLogs
<1>2. ASSUME NEW w \in bound.writers, Progress(w) \/ Transaction(w)
      PROVE  VInv'
  <2>1. w \in Writers
    BY WriterInBounds
  <2>2. UNCHANGED client
    BY <1>2 DEF Progress, Transaction, BeginCreate, BeginMessage, BeginWrite, BeginDelete,
         BeginDeleteSession, Rewrite, AppendEvent, Fail, FindSession, LoadSession, LinkSession,
         AppendSessionEvent, Commit, DeleteSessionRow, DeleteTaskRow, CommitDelete, BreakDeadlock
  <2>3. CASE Commit(w)
    <3>1. Taken(w) => UNCHANGED rows /\ past.carried /\ past' = [past EXCEPT !.refused = TRUE]
      BY <2>1, <2>3, CommitRefused
    <3>2. Taken(w) => UNCHANGED rows /\ (past.carried => past'.carried)
      BY <3>1 DEF DInv, Typed
    <3>3. ~Taken(w) => past' = past
      BY <2>1, <2>3, CommitEffects
    <3> QED BY <1>1, <2>1, <2>2, <2>3, <3>2, <3>3, FollowsOn
  <2>4. CASE CommitDelete(w)
    <3>1. past'.carried = past.carried
      BY <2>1, <2>4, DeleteEnds
    <3> QED BY <1>1, <2>1, <2>2, <2>4, <3>1, FollowsOn
  <2>5. CASE ~Commit(w) /\ ~CommitDelete(w)
    <3>1. UNCHANGED rows
      BY <1>2, <2>5 DEF Progress, Transaction, BeginCreate, BeginMessage, BeginWrite, BeginDelete,
         BeginDeleteSession, Rewrite, AppendEvent, Fail, FindSession, LoadSession, LinkSession,
         AppendSessionEvent, DeleteSessionRow, DeleteTaskRow, BreakDeadlock
    <3>2. past.carried => past'.carried
      <4>1. past' = past \/ LoadSession(w)
        BY <1>2, <2>5 DEF Progress, Transaction, BeginCreate, BeginMessage, BeginWrite, BeginDelete,
           BeginDeleteSession, Rewrite, AppendEvent, Fail, FindSession, LinkSession,
           AppendSessionEvent, DeleteSessionRow, DeleteTaskRow, BreakDeadlock
      <4>2. ASSUME LoadSession(w), past.carried
            PROVE  past'.carried
        <5>1. past' = past \/ past' = [past EXCEPT !.carried = @ \/ Carried(w) > 0]
          BY <4>2 DEF LoadSession
        <5> QED BY <4>2, <5>1 DEF DInv, Typed
      <4> QED BY <4>1, <4>2
    <3> QED BY <1>1, <2>1, <2>2, <3>1, <3>2, FollowsOn
  <2> QED BY <2>3, <2>4, <2>5
<1>3. CASE Browser
  BY <1>3, ViewOpens, ViewReopens, ViewPolls, ViewReceives DEF Browser
<1>4. CASE UNCHANGED vars
  <2>1. UNCHANGED <<task, session, log, sessionLog, past, bound, view, moves>>
    BY <1>4 DEF vars
  <2>2. Following'
    BY <2>1 DEF VInv, Following, Tracked, Life, LogOf
  <2> QED BY <2>1, <2>2 DEF VInv, NoView
<1> QED BY <1>2, <1>3, <1>4 DEF Next

LEMMA Shown == Spec => [](DInv /\ SInv /\ VInv)
<1>1. Init => VInv
  BY StartsShown
<1>2. DInv /\ SInv /\ VInv /\ [Next]_vars => VInv'
  BY StepsKeepShown
<1> QED BY <1>1, <1>2, Agreement, PTL DEF Spec

(* What the user sees is the visible part of the log up to the cursor,       *)
(* after any number of broken connections, reconnect signals, closing timers *)
(* and changes of stream (useTaskEvents, iter_event_stream).                 *)
THEOREM ThePrefixIsShown == Spec => []ShownIsThePrefix
<1>1. DInv /\ VInv => ShownIsThePrefix
  <2> SUFFICES ASSUME DInv, VInv, view.of # None, There(view.of),
                      view.of = Session => view.born = session.born /\ ~past.carried
               PROVE  view.shown = Ordered({e.seq : e \in {e \in ToSet(LogOf(view.of)) :
                                                           Visible(e) /\ e.seq <= view.cursor}})
    BY DEF ShownIsThePrefix
  <2> DEFINE l == LogOf(view.of)
  <2>1. Level(view, l) /\ l \in Seq(Entries) /\ Dense(Len(l), l)
    BY OnStream DEF Tracked
  <2> HIDE DEF l
  <2>2. \A e \in ToSet(l) : 0 < e.seq
    BY <2>1 DEF ToSet, Dense
  <2>3. Seen(l, 0, view.cursor)
          = {e.seq : e \in {e \in ToSet(l) : Visible(e) /\ e.seq <= view.cursor}}
    <3>1. {e \in ToSet(l) : Visible(e) /\ 0 < e.seq /\ e.seq <= view.cursor}
            = {e \in ToSet(l) : Visible(e) /\ e.seq <= view.cursor}
      BY <2>2
    <3> QED BY <3>1 DEF Seen
  <2>4. view.shown = Ordered(Seen(l, 0, view.cursor))
    BY <2>1 DEF Level
  <2> QED BY <2>3, <2>4 DEF l
<1> QED BY <1>1, Shown, PTL

-----------------------------------------------------------------------------
(* Types.                                                                  *)

(* No row runs ahead of the events appended and the versions given, and what
   a transaction has not written is NoRow.                                  *)
Bounded ==
  /\ issued \in 0..bound.events /\ versions \in 0..bound.rewrites
  /\ \A t \in Tasks : task[t].seq <= issued /\ task[t].version <= versions
  /\ \A w \in Writers : txn[w].row.seq <= issued /\ txn[w].row.version <= versions
  /\ \A w \in Writers : txn[w].row = NoRow \/ txn[w].row.life = "there"

LEMMA BoundsAre ==
  ASSUME DInv
  PROVE  bound.events \in Nat /\ bound.rewrites \in Nat
  BY EventLogAssumption DEF DInv, Typed

(* The bounds grow with what is appended or rewritten. *)
LEMMA RowMoves ==
  ASSUME DInv, Bounded, NEW w \in Writers, NEW x, txn' = [txn EXCEPT ![w] = x],
         UNCHANGED <<task, bound>>,
         issued' \in Nat, issued <= issued', issued' <= bound.events,
         versions' \in Nat, versions <= versions', versions' <= bound.rewrites,
         x.row.seq \in Nat, x.row.seq <= issued',
         x.row.version \in Nat, x.row.version <= versions',
         x.row = NoRow \/ x.row.life = "there"
  PROVE  Bounded'
<1>1. /\ issued \in Nat /\ versions \in Nat
      /\ bound.events \in Nat /\ bound.rewrites \in Nat
  BY BoundsAre DEF Bounded
<1>2. ASSUME NEW t \in Tasks
      PROVE  task[t].seq <= issued' /\ task[t].version <= versions'
  <2>1. /\ task[t].seq \in Nat /\ task[t].version \in Nat
        /\ task[t].seq <= issued /\ task[t].version <= versions
    BY DEF DInv, Typed, TaskRows, Bounded
  <2> QED BY <1>1, <2>1
<1>3. ASSUME NEW v \in Writers
      PROVE  /\ txn'[v].row.seq <= issued' /\ txn'[v].row.version <= versions'
             /\ txn'[v].row = NoRow \/ txn'[v].row.life = "there"
  <2>1. CASE v = w
    BY <2>1 DEF DInv, Typed
  <2>2. CASE v # w
    <3>1. txn'[v] = txn[v]
      BY <2>2 DEF DInv, Typed
    <3>2. /\ txn[v].row.seq \in Nat /\ txn[v].row.version \in Nat
          /\ txn[v].row.seq <= issued /\ txn[v].row.version <= versions
          /\ txn[v].row = NoRow \/ txn[v].row.life = "there"
      BY DEF DInv, Typed, Txns, TaskRows, Bounded
    <3> QED BY <1>1, <3>1, <3>2
  <2> QED BY <2>1, <2>2
<1>4. issued' \in 0..bound.events /\ versions' \in 0..bound.rewrites
  BY <1>1
<1> QED BY <1>2, <1>3, <1>4 DEF Bounded

LEMMA RowStays ==
  ASSUME DInv, Bounded, NEW w \in Writers, NEW x, txn' = [txn EXCEPT ![w] = x],
         UNCHANGED <<task, bound, versions>>, issued' \in {issued, issued + 1},
         issued' <= bound.events,
         x.row \in {txn[w].row, NoRow, [NoRow EXCEPT !.life = "there"]}
  PROVE  Bounded'
<1>1. issued \in Nat /\ versions \in Nat /\ versions <= bound.rewrites
  BY BoundsAre DEF Bounded
<1>2. /\ txn[w].row.seq \in Nat /\ txn[w].row.version \in Nat
      /\ txn[w].row.seq <= issued /\ txn[w].row.version <= versions
      /\ txn[w].row = NoRow \/ txn[w].row.life = "there"
  BY DEF DInv, Typed, Txns, TaskRows, Bounded
<1> DEFINE made == [NoRow EXCEPT !.life = "there"]
<1>3. /\ NoRow.seq = 0 /\ NoRow.version = 0
      /\ made.seq = 0 /\ made.version = 0 /\ made.life = "there"
  BY DEF NoRow
<1>6. x.row = txn[w].row \/ x.row = NoRow \/ x.row = made
  OBVIOUS
<1> HIDE DEF made
<1>4. /\ x.row.seq \in Nat /\ x.row.version \in Nat
      /\ x.row.seq <= issued /\ x.row.version <= versions
      /\ x.row = NoRow \/ x.row.life = "there"
  <2>1. CASE x.row = txn[w].row
    BY <1>2, <2>1
  <2>2. CASE x.row = NoRow \/ x.row = made
    <3>1. x.row.seq = 0 /\ x.row.version = 0 /\ (x.row = NoRow \/ x.row.life = "there")
      BY <1>3, <2>2
    <3> QED BY <1>1, <3>1
  <2> QED BY <1>6, <2>1, <2>2
<1>5. issued' \in Nat /\ issued <= issued' /\ x.row.seq <= issued'
  BY <1>1, <1>4
<1>7. /\ versions' \in Nat /\ versions <= versions' /\ versions' <= bound.rewrites
      /\ x.row.version <= versions' /\ UNCHANGED <<task, bound>>
  BY <1>1, <1>4
<1> QED BY <1>1, <1>4, <1>5, <1>7, RowMoves

LEMMA CurrentRow ==
  ASSUME DInv, Bounded, NEW w \in Writers, txn[w].task \in Tasks
  PROVE  /\ Current(w) \in TaskRows
         /\ Current(w).seq <= issued /\ Current(w).version <= versions
<1>1. txn[w].row \in TaskRows /\ task[txn[w].task] \in TaskRows
  BY DEF DInv, Typed, Txns
<1> QED BY <1>1 DEF Current, Bounded

LEMMA RewriteBounded ==
  ASSUME DInv, Bounded, NEW w \in Writers, Rewrite(w)
  PROVE  Bounded'
<1>1. /\ UNCHANGED <<task, bound, issued>> /\ txn[w].task \in Tasks
      /\ versions < bound.rewrites /\ txn[w] \in Txns
  BY DEF Rewrite, rows, client, DInv, Typed, WellFormed
<1>2. issued \in Nat /\ versions \in Nat /\ issued <= bound.events /\ bound.rewrites \in Nat
  BY BoundsAre DEF Bounded
<1>3. CASE ~There(txn[w].task)
  <2>1. txn' = [txn EXCEPT ![w] = NoTxn] /\ UNCHANGED versions /\ NoTxn.row = NoRow
    BY <1>3, Empty DEF Rewrite, Rollback, Put
  <2> QED BY <1>1, <1>2, <2>1, RowStays
<1>4. CASE There(txn[w].task)
  <2> DEFINE r == Rewritten(w, versions + 1)
             x == [txn[w] EXCEPT !.rewrote = TRUE, !.holds = @ \cup {txn[w].task}, !.row = r]
  <2>1. txn' = [txn EXCEPT ![w] = x] /\ versions' = versions + 1
    BY <1>4 DEF Rewrite, Put
  <2>2. /\ Current(w) \in TaskRows /\ Current(w).seq <= issued
        /\ Current(w).life = "there"
    <3>1. task[txn[w].task].life = "there"
      BY <1>1, <1>4, EventLogAssumption DEF There
    <3> QED BY <1>1, <3>1, CurrentRow DEF Current
  <2>3. /\ r.seq = Current(w).seq /\ r.version = versions + 1 /\ r.life = "there"
        /\ Current(w).seq \in Nat
    BY <1>2, <2>2 DEF Rewritten, TaskRows
  <2> HIDE DEF r
  <2>4. x.row = r
    BY <1>1 DEF Txns
  <2> HIDE DEF x
  <2>5. /\ versions' \in Nat /\ versions <= versions' /\ versions' <= bound.rewrites
        /\ r.version \in Nat /\ r.version <= versions'
    BY <1>1, <1>2, <2>1, <2>3
  <2>6. /\ issued' \in Nat /\ issued <= issued' /\ issued' <= bound.events
        /\ r.seq \in Nat /\ r.seq <= issued'
    BY <1>1, <1>2, <2>2, <2>3
  <2> QED BY <1>1, <2>1, <2>3, <2>4, <2>5, <2>6, RowMoves
<1> QED BY <1>3, <1>4

LEMMA AppendBounded ==
  ASSUME DInv, Bounded, NEW w \in Writers, NEW type \in Types, AppendEvent(w, type)
  PROVE  Bounded'
<1>1. /\ UNCHANGED <<task, bound, versions>> /\ txn[w].task \in Tasks
      /\ issued < bound.events /\ txn[w] \in Txns /\ issued' = issued + 1
  BY DEF AppendEvent, rows, client, DInv, Typed, WellFormed
<1>2. issued \in Nat /\ versions \in Nat /\ versions <= bound.rewrites /\ bound.events \in Nat
  BY BoundsAre DEF Bounded
<1>3. issued' \in Nat /\ issued <= issued' /\ issued' <= bound.events
  BY <1>1, <1>2
<1>4. CASE Current(w).life # "there"
  <2>1. txn' = [txn EXCEPT ![w] = NoTxn] /\ NoTxn.row = NoRow
    BY <1>4, Empty DEF AppendEvent, Rollback, Put
  <2> QED BY <1>1, <1>3, <2>1, RowStays
<1>5. CASE Current(w).life = "there"
  <2> DEFINE r == Numbered(w)
             x == [txn[w] EXCEPT !.pc = "session", !.holds = @ \cup {txn[w].task}, !.row = r,
                                 !.events = Append(@, [task |-> txn[w].task, type |-> type,
                                                       seq |-> r.seq])]
  <2>1. txn' = [txn EXCEPT ![w] = x]
    BY <1>5 DEF AppendEvent, Put
  <2>2. Current(w) \in TaskRows /\ Current(w).seq <= issued /\ Current(w).version <= versions
    BY <1>1, CurrentRow
  <2>3. /\ r.seq = Current(w).seq + 1 /\ r.version = Current(w).version /\ r.life = "there"
        /\ Current(w).seq \in Nat /\ Current(w).version \in Nat
    BY <1>5, <2>2 DEF Numbered, TaskRows
  <2> HIDE DEF r
  <2>4. x.row = r
    BY <1>1 DEF Txns
  <2> HIDE DEF x
  <2>5. r.seq \in Nat /\ r.seq <= issued'
    BY <1>1, <1>2, <2>2, <2>3
  <2>6. /\ versions' \in Nat /\ versions <= versions' /\ versions' <= bound.rewrites
        /\ r.version \in Nat /\ r.version <= versions'
    BY <1>1, <1>2, <2>2, <2>3
  <2> QED BY <1>1, <1>3, <2>1, <2>3, <2>4, <2>5, <2>6, RowMoves
<1> QED BY <1>4, <1>5

(* A commit and a deletion leave rows that were in bounds. *)
LEMMA CommitBounded ==
  ASSUME DInv, Bounded, NEW w \in Writers, NEW f \in [Tasks -> TaskRows],
         task' = f, \A t \in Tasks : f[t].seq <= issued /\ f[t].version <= versions,
         txn' = [txn EXCEPT ![w] = NoTxn], UNCHANGED <<issued, versions, bound>>
  PROVE  Bounded'
<1>1. NoTxn.row = NoRow /\ NoRow.seq = 0 /\ NoRow.version = 0
  BY DEF NoTxn, NoRow
<1>2. ASSUME NEW v \in Writers
      PROVE  /\ txn'[v].row.seq <= issued /\ txn'[v].row.version <= versions
             /\ txn'[v].row = NoRow \/ txn'[v].row.life = "there"
  <2>1. CASE v = w
    <3>1. txn'[v] = NoTxn
      BY <2>1 DEF DInv, Typed
    <3>2. 0 <= issued /\ 0 <= versions
      BY BoundsAre DEF Bounded
    <3> QED BY <1>1, <3>1, <3>2
  <2>2. CASE v # w
    <3>1. txn'[v] = txn[v]
      BY <2>2 DEF DInv, Typed
    <3> QED BY <3>1 DEF Bounded
  <2> QED BY <2>1, <2>2
<1> QED BY <1>2 DEF Bounded

LEMMA StepsKeepBounded == DInv /\ Bounded /\ [Next]_vars => Bounded'
<1> SUFFICES ASSUME DInv, Bounded, [Next]_vars
             PROVE  Bounded'
  OBVIOUS
<1>2. ASSUME NEW w \in bound.writers, Progress(w) \/ Transaction(w)
      PROVE  Bounded'
  <2>1. /\ w \in Writers /\ txn[w] \in Txns
        /\ bound.tasks \subseteq Tasks /\ bound.types \subseteq Types
    BY WriterInBounds, EventLogAssumption DEF DInv, Typed
  <2>2. issued <= bound.events
    BY BoundsAre DEF Bounded
  <2>3. CASE Rewrite(w)
    BY <2>1, <2>3, RewriteBounded
  <2>4. ASSUME NEW type \in Types, AppendEvent(w, type)
        PROVE  Bounded'
    BY <2>1, <2>4, AppendBounded
  <2>5. ASSUME UNCHANGED <<task, bound, versions, issued>>,
               NEW x, txn' = [txn EXCEPT ![w] = x],
               x.row \in {txn[w].row, NoRow, [NoRow EXCEPT !.life = "there"]}
        PROVE  Bounded'
    BY <2>1, <2>2, <2>5, RowStays
  <2>6. NoTxn.row = NoRow
    BY DEF NoTxn
  <2>7. CASE Fail(w) \/ BreakDeadlock(w)
    <3>1. txn' = [txn EXCEPT ![w] = NoTxn] /\ UNCHANGED <<task, bound, versions, issued>>
      BY <2>7 DEF Fail, BreakDeadlock, Rollback, Put, rows, client
    <3> QED BY <2>5, <2>6, <3>1
  <2>8. ASSUME NEW t \in Tasks,
               \/ BeginCreate(w, t) \/ BeginMessage(w, t)
               \/ BeginWrite(w, t) \/ BeginDelete(w, t)
        PROVE  Bounded'
    <3>1. UNCHANGED <<task, bound, versions, issued>>
      BY <2>8 DEF BeginCreate, BeginMessage, BeginWrite, BeginDelete, rows, client
    <3>2. CASE BeginCreate(w, t) \/ BeginMessage(w, t)
      <4>1. PICK pc \in {"link", "find"} : txn' = [txn EXCEPT ![w] = Created(pc, t)]
        BY <3>2, Zenon DEF BeginCreate, BeginMessage, Put
      <4> DEFINE x == Created(pc, t)
      <4>2. x.row = [NoRow EXCEPT !.life = "there"]
        BY DEF NoTxn, Created
      <4> HIDE DEF x
      <4> QED BY <2>5, <3>1, <4>1, <4>2 DEF x
    <3>3. CASE BeginWrite(w, t)
      <4> DEFINE x == [NoTxn EXCEPT !.op = "write", !.pc = "open", !.task = t]
      <4>1. txn' = [txn EXCEPT ![w] = x]
        BY <3>3, Zenon DEF BeginWrite, Put
      <4>2. x.row = NoRow
        BY DEF NoTxn
      <4> HIDE DEF x
      <4> QED BY <2>5, <3>1, <4>1, <4>2
    <3>4. CASE BeginDelete(w, t)
      <4> DEFINE x == [NoTxn EXCEPT !.op = "delete_task", !.pc = "delete", !.doomed = {t}]
      <4>1. txn' = [txn EXCEPT ![w] = x]
        BY <3>4, Zenon DEF BeginDelete, Put
      <4>2. x.row = NoRow
        BY DEF NoTxn
      <4> HIDE DEF x
      <4> QED BY <2>5, <3>1, <4>1, <4>2
    <3> QED BY <2>8, <3>2, <3>3, <3>4
  <2>9. CASE BeginDeleteSession(w)
    <3> DEFINE x == [NoTxn EXCEPT !.op = "delete_session", !.pc = "unlink",
                                  !.doomed = {t \in Tasks : There(t)}]
    <3>1. txn' = [txn EXCEPT ![w] = x] /\ UNCHANGED <<task, bound, versions, issued>>
      BY <2>9, Zenon DEF BeginDeleteSession, Put, rows, client
    <3>2. x.row = NoRow
      BY DEF NoTxn
    <3> HIDE DEF x
    <3> QED BY <2>5, <3>1, <3>2
  <2>10. CASE \/ FindSession(w) \/ LoadSession(w) \/ LinkSession(w)
              \/ AppendSessionEvent(w) \/ DeleteSessionRow(w)
    <3>1. UNCHANGED <<task, bound, versions, issued>>
      BY <2>10 DEF FindSession, LoadSession, LinkSession, AppendSessionEvent, DeleteSessionRow,
                   rows, client
    <3>2. \E x : txn' = [txn EXCEPT ![w] = x] /\ x.row \in {txn[w].row, NoRow}
      <4>1. CASE LinkSession(w)
        BY <2>1, <2>6, <4>1 DEF LinkSession, Rollback, Put, Txns
      <4>2. CASE AppendSessionEvent(w)
        BY <2>1, <2>6, <4>2 DEF AppendSessionEvent, Put, Txns
      <4>3. CASE DeleteSessionRow(w)
        BY <2>1, <2>6, <4>3 DEF DeleteSessionRow, Rollback, Put, Txns
      <4>4. CASE FindSession(w)
        BY <2>1, <2>6, <4>4 DEF FindSession, Put, Txns
      <4>5. CASE LoadSession(w)
        BY <2>1, <2>6, <4>5 DEF LoadSession, Rollback, Put, Txns
      <4> QED BY <2>10, <4>1, <4>2, <4>3, <4>4, <4>5
    <3> QED BY <2>5, <3>1, <3>2
  <2>11. ASSUME NEW t \in Tasks, DeleteTaskRow(w, t)
         PROVE  Bounded'
    <3>1. UNCHANGED <<task, bound, versions, issued>>
      BY <2>11 DEF DeleteTaskRow, rows, client
    <3>2. \E x : txn' = [txn EXCEPT ![w] = x] /\ x.row \in {txn[w].row, NoRow}
      BY <2>1, <2>6, <2>11 DEF DeleteTaskRow, Rollback, Put, Txns
    <3> QED BY <2>5, <3>1, <3>2
  <2>12. CASE Commit(w) /\ Taken(w)
    <3>1. txn' = [txn EXCEPT ![w] = NoTxn] /\ UNCHANGED <<task, bound, versions, issued>>
      BY <2>1, <2>12, CommitRefused DEF Rollback, Put, Commit, rows
    <3> QED BY <2>5, <2>6, <3>1
  <2>14. CASE Commit(w) /\ ~Taken(w)
    <3> DEFINE t == txn[w].task
               f == [task EXCEPT ![t] = txn[w].row]
    <3>1. task' = f /\ txn' = [txn EXCEPT ![w] = NoTxn]
      BY <2>1, <2>14, CommitEffects
    <3>2. UNCHANGED <<issued, versions, bound>>
      BY <2>14 DEF Commit, client
    <3>3. f \in [Tasks -> TaskRows] /\ txn[w].row \in TaskRows
      BY <2>1 DEF DInv, Typed, Txns
    <3>4. \A u \in Tasks : f[u].seq <= issued /\ f[u].version <= versions
      BY <2>1, <3>3 DEF Bounded, DInv, Typed
    <3> HIDE DEF f
    <3> QED BY <2>1, <3>1, <3>2, <3>3, <3>4, CommitBounded
  <2>13. CASE CommitDelete(w)
    <3> DEFINE gone == txn[w].doomed
               deleted == [NoRow EXCEPT !.life = "deleted"]
               f == [t \in Tasks |-> IF t \in gone THEN deleted ELSE task[t]]
    <3>1. task' = f /\ txn' = [txn EXCEPT ![w] = NoTxn]
      BY <2>13 DEF CommitDelete, Rollback, Put
    <3>2. UNCHANGED <<issued, versions, bound>>
      BY <2>13 DEF CommitDelete, client
    <3>3. deleted \in TaskRows /\ deleted.seq = 0 /\ deleted.version = 0
      BY DEF NoRow, TaskRows, Lives
    <3>4. 0 <= issued /\ 0 <= versions
      BY BoundsAre DEF Bounded
    <3> HIDE DEF deleted, gone
    <3>5. f \in [Tasks -> TaskRows]
      BY <3>3 DEF DInv, Typed
    <3>6. \A t \in Tasks : f[t].seq <= issued /\ f[t].version <= versions
      BY <3>3, <3>4 DEF Bounded
    <3> HIDE DEF f
    <3> QED BY <2>1, <3>1, <3>2, <3>5, <3>6, CommitBounded
  <2> QED BY <1>2, <2>1, <2>3, <2>4, <2>7, <2>8, <2>9, <2>10, <2>11, <2>12, <2>13, <2>14
             DEF Progress, Transaction
<1>3. CASE Browser \/ UNCHANGED vars
  <2>1. UNCHANGED store
    BY <1>3 DEF Browser, Follow, Signal, StreamBreaks, CloseStream, Poll, Receive, Reconnect,
                vars, store, rows
  <2> QED BY <2>1 DEF store, rows, Bounded
<1> QED BY <1>2, <1>3 DEF Next

LEMMA StartsBounded == Init => Bounded
<1> SUFFICES ASSUME Init
             PROVE  Bounded
  OBVIOUS
<1>1. bound.events \in Nat /\ bound.rewrites \in Nat
  BY EventLogAssumption DEF Init
<1>2. NoTxn.row = NoRow /\ NoRow.seq = 0 /\ NoRow.version = 0
  BY DEF NoTxn, NoRow
<1> QED BY <1>1, <1>2 DEF Init, Bounded

(* A session that was never inserted is absent. *)
Inserted == session.born = 0 <=> session.life = "absent"

LEMMA StepsKeepInserted == DInv /\ SInv /\ Inserted /\ [Next]_vars => Inserted'
<1> SUFFICES ASSUME DInv, SInv, Inserted, [Next]_vars, session' # session
             PROVE  Inserted'
  BY DEF Inserted
<1>1. PICK w \in bound.writers : Commit(w) \/ CommitDelete(w)
  <2>1. ~UNCHANGED rows /\ ~UNCHANGED vars
    BY DEF rows, vars
  <2> QED BY <2>1 DEF Next, Browser, Progress, Transaction, Follow, Signal, StreamBreaks,
       CloseStream, Poll, Receive, Reconnect, BeginCreate, BeginWrite, BeginDelete,
       BeginMessage, BeginDeleteSession, Rewrite, AppendEvent, Fail, FindSession, LoadSession,
       LinkSession, AppendSessionEvent, DeleteSessionRow, DeleteTaskRow, BreakDeadlock, store
<1>2. w \in Writers /\ session \in [life : Lives, seq : Nat, born : Nat]
  BY WriterInBounds DEF DInv, Typed
<1>3. CASE Commit(w)
  <2>1. ~Taken(w)
    BY <1>3 DEF Commit, rows
  <2>2. /\ session'.life = "there"
        /\ session'.born = session.born + (IF There(Session) THEN 0 ELSE 1)
    <3> DEFINE b == session.born + (IF There(Session) THEN 0 ELSE 1)
               s == Last(txn[w].shared).seq
    <3>1. session' = IF txn[w].shared = <<>> THEN session
                     ELSE [life |-> "there", seq |-> s, born |-> b]
      BY <1>2, <1>3, <2>1, CommitEffects
    <3> HIDE DEF b, s
    <3>2. session' = [life |-> "there", seq |-> s, born |-> b]
      BY <3>1
    <3>3. session'.life = "there" /\ session'.born = b
      BY <3>2
    <3> QED BY <3>3 DEF b
  <2>3. session'.born # 0
    <3>1. session.born \in Nat
      BY <1>2
    <3>2. There(Session) => session.born # 0
      BY DEF Inserted, There
    <3> QED BY <2>2, <3>1, <3>2
  <2> QED BY <2>2, <2>3 DEF Inserted
<1>4. CASE CommitDelete(w)
  <2>1. txn[w].op = "delete_session" /\ txn[w].pc = "delete"
    BY <1>4 DEF CommitDelete
  <2>2. session.life = "there"
    BY <1>2, <2>1 DEF DInv, WellFormed, SInv, Known
  <2>3. session' = [session EXCEPT !.life = "deleted", !.seq = 0]
    BY <1>4, <2>1 DEF CommitDelete
  <2>4. session'.life = "deleted" /\ session'.born = session.born
    BY <1>2, <2>3
  <2> QED BY <2>2, <2>4 DEF Inserted
<1> QED BY <1>1, <1>3, <1>4

(* Types: a transaction holds the rows it has written, and the hook waits to *)
(* reconnect only when no stream is open (append_event's FOR UPDATE, onError *)
(* in useTaskEvents).                                                        *)
THEOREM TypesHold == Spec => []TypeOK
<1>1. Init => Bounded
  BY StartsBounded
<1>2. DInv /\ Bounded /\ [Next]_vars => Bounded'
  BY StepsKeepBounded
<1>3. DInv /\ VInv /\ Bounded /\ Inserted => TypeOK
  <2> SUFFICES ASSUME DInv, VInv, Bounded, Inserted
               PROVE  TypeOK
    OBVIOUS
  <2>1. task \in [Tasks -> RowType]
    <3>1. ASSUME NEW t \in Tasks
          PROVE  task[t] \in RowType
      <4>1. task[t] \in TaskRows /\ task[t].seq <= issued /\ task[t].version <= versions
        BY DEF DInv, Typed, Bounded
      <4>2. /\ issued \in Nat /\ issued <= bound.events /\ bound.events \in Nat
            /\ versions \in Nat /\ versions <= bound.rewrites /\ bound.rewrites \in Nat
        BY BoundsAre DEF Bounded
      <4>3. task[t].seq \in 0..bound.events /\ task[t].version \in 0..bound.rewrites
        BY <4>1, <4>2 DEF TaskRows
      <4> QED BY <4>1, <4>3 DEF TaskRows, Lives, RowType
    <3> QED BY <3>1 DEF DInv, Typed
  <2>2. /\ session.life \in {"absent", "there", "deleted"} /\ session.seq \in Nat
        /\ session.born \in Nat /\ run \in [Tasks -> Statuses]
        /\ past \in [refused : BOOLEAN, carried : BOOLEAN, orphans : SUBSET Tasks]
    BY DEF DInv, Typed, Lives
  <2>3. /\ issued \in 0..bound.events /\ versions \in 0..bound.rewrites
        /\ moves \in 0..bound.moves
    BY DEF Bounded, VInv
  <2>4. ASSUME NEW w \in Writers
        PROVE  /\ txn[w].row # NoRow => txn[w].task \in txn[w].holds
               /\ txn[w].shared # <<>> => Session \in txn[w].holds
    BY DEF DInv, WellFormed, Bounded
  <2>5. view.of \in Tasks \cup {Session, None} /\ ~(view.open /\ view.retry)
    BY DEF VInv, Views
  <2>6. session.born = 0 <=> session.life = "absent"
    BY DEF Inserted
  <2> QED BY <2>1, <2>2, <2>3, <2>4, <2>5, <2>6 DEF TypeOK
<1>4. Init => Inserted
  BY DEF Init, Inserted
<1> QED BY <1>1, <1>2, <1>3, <1>4, StepsKeepInserted, Shown, PTL DEF Spec

-----------------------------------------------------------------------------
(* The rows implement the journal.                                         *)

TypesOf(s) == [i \in DOMAIN s |-> s[i].type]
StoryOf(s) == [i \in DOMAIN s |-> [task |-> s[i].task, type |-> s[i].type]]

(* What a transaction is for decides what it may append. *)
Purpose(x) ==
  /\ x.op = "create" => /\ Len(x.events) <= 1
                        /\ \A i \in DOMAIN x.events : x.events[i].type = "task.created"
  /\ x.op = "write" => \A i \in DOMAIN x.events : x.events[i].type # "task.created"
JInv == \A w \in Writers : Purpose(txn[w])

LEMMA PurposeMoves ==
  ASSUME DInv, JInv, NEW w \in Writers, NEW x, txn' = [txn EXCEPT ![w] = x], Purpose(x)
  PROVE  JInv'
<1>1. ASSUME NEW v \in Writers
      PROVE  txn'[v] = IF v = w THEN x ELSE txn[v]
  BY DEF DInv, Typed
<1> QED BY <1>1 DEF JInv, Purpose

LEMMA PurposeStays ==
  ASSUME DInv, JInv, NEW w \in Writers, NEW x, txn' = [txn EXCEPT ![w] = x],
         x.op = txn[w].op, x.events = txn[w].events
  PROVE  JInv'
<1>1. Purpose(txn[w])
  BY DEF JInv
<1>2. Purpose(x)
  BY <1>1 DEF Purpose
<1> QED BY <1>2, PurposeMoves

LEMMA PurposeEnds ==
  ASSUME DInv, JInv, NEW w \in Writers, Rollback(w)
  PROVE  JInv'
<1>1. Purpose(NoTxn)
  BY DEF Purpose, NoTxn
<1>2. txn' = [txn EXCEPT ![w] = NoTxn]
  BY DEF Rollback, Put
<1> QED BY <1>1, <1>2, PurposeMoves

LEMMA PurposeAppends ==
  ASSUME DInv, JInv, NEW w \in Writers, NEW type \in Types, AppendEvent(w, type)
  PROVE  JInv'
<1> DEFINE e == [task |-> txn[w].task, type |-> type, seq |-> Numbered(w).seq]
           x == [txn[w] EXCEPT !.pc = "session", !.holds = @ \cup {txn[w].task},
                               !.row = Numbered(w), !.events = Append(@, e)]
           s == txn[w].events
<1>1. txn[w] \in Txns /\ Purpose(txn[w]) /\ s \in Seq(Events)
  BY DEF DInv, Typed, JInv, Txns
<1>2. Rollback(w) \/ txn' = [txn EXCEPT ![w] = x]
  BY DEF AppendEvent, Put
<1>3. x.op = txn[w].op /\ x.events = Append(s, e)
  BY <1>1 DEF Txns
<1>4. /\ Len(Append(s, e)) = Len(s) + 1 /\ DOMAIN Append(s, e) = 1..(Len(s) + 1)
      /\ \A i \in DOMAIN s : Append(s, e)[i] = s[i]
      /\ Append(s, e)[Len(s) + 1] = e /\ DOMAIN s = 1..Len(s) /\ Len(s) \in Nat
  BY <1>1
<1>5. e.type = type
  OBVIOUS
<1>6. IF txn[w].op = "create" THEN type = "task.created" /\ s = <<>> ELSE type # "task.created"
  BY DEF AppendEvent
<1> HIDE DEF e, x
<1>7. \A i \in DOMAIN Append(s, e) : Append(s, e)[i].type = type \/ i \in DOMAIN s
  BY <1>4, <1>5
<1>8. Purpose(x)
  <2>1. CASE x.op = "create"
    <3>1. Len(s) = 0 /\ DOMAIN s = {}
      BY <1>3, <1>4, <1>6, <2>1
    <3> HIDE DEF s
    <3> QED BY <1>3, <1>4, <1>6, <1>7, <2>1, <3>1 DEF Purpose
  <2>2. CASE x.op = "write"
    <3>1. \A i \in DOMAIN s : s[i].type # "task.created"
      BY <1>1, <1>3, <2>2 DEF Purpose
    <3>2. type # "task.created"
      BY <1>3, <1>6, <2>2
    <3> HIDE DEF s
    <3> QED BY <1>3, <1>4, <1>7, <2>2, <3>1, <3>2 DEF Purpose
  <2>3. CASE x.op \notin {"create", "write"}
    BY <1>1, <1>3, <2>3 DEF Purpose
  <2> QED BY <2>1, <2>2, <2>3
<1> QED BY <1>2, <1>8, PurposeMoves, PurposeEnds

LEMMA PurposeBegins ==
  ASSUME DInv, JInv, NEW w \in Writers,
         \/ \E t \in Tasks : \/ BeginCreate(w, t) \/ BeginMessage(w, t)
                            \/ BeginWrite(w, t) \/ BeginDelete(w, t)
         \/ BeginDeleteSession(w)
  PROVE  JInv'
<1>1. ASSUME NEW t \in Tasks, BeginCreate(w, t) \/ BeginMessage(w, t)
      PROVE  JInv'
  <2>1. PICK pc \in {"link", "find"} : txn' = [txn EXCEPT ![w] = Created(pc, t)]
    BY <1>1, Zenon DEF BeginCreate, BeginMessage, Put
  <2> DEFINE x == Created(pc, t)
  <2>2. x.op = "create" /\ x.events = <<>>
    BY DEF NoTxn, Created
  <2>4. Len(<<>>) = 0 /\ DOMAIN <<>> = {}
    OBVIOUS
  <2> HIDE DEF x
  <2>3. Purpose(x)
    BY <2>2, <2>4 DEF Purpose
  <2> QED BY <2>1, <2>3, PurposeMoves DEF x
<1>2. ASSUME NEW t \in Tasks, BeginWrite(w, t)
      PROVE  JInv'
  <2> DEFINE x == [NoTxn EXCEPT !.op = "write", !.pc = "open", !.task = t]
  <2>1. txn' = [txn EXCEPT ![w] = x]
    BY <1>2, Zenon DEF BeginWrite, Put
  <2>2. Purpose(x)
    BY DEF Purpose, NoTxn
  <2> QED BY <2>1, <2>2, PurposeMoves
<1>3. ASSUME NEW t \in Tasks, BeginDelete(w, t)
      PROVE  JInv'
  <2> DEFINE x == [NoTxn EXCEPT !.op = "delete_task", !.pc = "delete", !.doomed = {t}]
  <2>1. txn' = [txn EXCEPT ![w] = x]
    BY <1>3, Zenon DEF BeginDelete, Put
  <2>2. Purpose(x)
    BY DEF Purpose, NoTxn
  <2> QED BY <2>1, <2>2, PurposeMoves
<1>4. CASE BeginDeleteSession(w)
  <2> DEFINE x == [NoTxn EXCEPT !.op = "delete_session", !.pc = "unlink",
                                !.doomed = {t \in Tasks : There(t)}]
  <2>1. txn' = [txn EXCEPT ![w] = x]
    BY <1>4, Zenon DEF BeginDeleteSession, Put
  <2>2. Purpose(x)
    BY DEF Purpose, NoTxn
  <2> QED BY <2>1, <2>2, PurposeMoves
<1> QED BY <1>1, <1>2, <1>3, <1>4

LEMMA PurposeGoesOn ==
  ASSUME DInv, JInv, NEW w \in Writers,
         \/ FindSession(w) \/ LoadSession(w) \/ LinkSession(w) \/ AppendSessionEvent(w)
         \/ DeleteSessionRow(w) \/ Rewrite(w)
         \/ \E t \in Tasks : DeleteTaskRow(w, t)
  PROVE  JInv'
<1>1. \/ Rollback(w)
      \/ \E x : txn' = [txn EXCEPT ![w] = x] /\ x.op = txn[w].op /\ x.events = txn[w].events
      \/ \E x : txn' = [txn EXCEPT ![w] = x] /\ x.op = "delete_task"
  <2>0. txn[w] \in Txns
    BY DEF DInv, Typed
  <2>1. CASE LinkSession(w)
    BY <2>0, <2>1 DEF LinkSession, Put, Txns
  <2>2. CASE AppendSessionEvent(w)
    BY <2>0, <2>2 DEF AppendSessionEvent, Put, Txns
  <2>3. CASE DeleteSessionRow(w)
    <3> DEFINE held == [txn[w] EXCEPT !.pc = "delete", !.holds = {Session}]
               late == [txn[w] EXCEPT !.op = "delete_task", !.pc = "delete"]
    <3>1. txn' = [txn EXCEPT ![w] = held] \/ txn' = [txn EXCEPT ![w] = late]
      BY <2>3 DEF DeleteSessionRow, Put
    <3>2. /\ held.op = txn[w].op /\ held.events = txn[w].events
          /\ late.op = "delete_task"
      BY <2>0 DEF Txns
    <3> HIDE DEF held, late
    <3> QED BY <3>1, <3>2
  <2>4. CASE Rewrite(w)
    BY <2>0, <2>4 DEF Rewrite, Put, Txns
  <2>5. ASSUME NEW t \in Tasks, DeleteTaskRow(w, t)
        PROVE  \/ Rollback(w)
               \/ \E x : /\ txn' = [txn EXCEPT ![w] = x] /\ x.op = txn[w].op
                         /\ x.events = txn[w].events
    BY <2>0, <2>5 DEF DeleteTaskRow, Put, Txns
  <2>6. CASE FindSession(w)
    BY <2>0, <2>6 DEF FindSession, Put, Txns
  <2>7. CASE LoadSession(w)
    BY <2>0, <2>7 DEF LoadSession, Put, Txns
  <2> QED BY <2>1, <2>2, <2>3, <2>4, <2>5, <2>6, <2>7
<1>2. ASSUME NEW x, x.op = "delete_task" PROVE Purpose(x)
  BY <1>2 DEF Purpose
<1> QED BY <1>1, <1>2, PurposeEnds, PurposeStays, PurposeMoves

LEMMA PurposesStay == DInv /\ JInv /\ [Next]_vars => JInv'
<1> SUFFICES ASSUME DInv, JInv, [Next]_vars
             PROVE  JInv'
  OBVIOUS
<1>1. ASSUME NEW w \in bound.writers, Progress(w)
      PROVE  JInv'
  <2>1. w \in Writers
    BY WriterInBounds
  <2>2. CASE Commit(w) \/ CommitDelete(w) \/ BreakDeadlock(w)
    BY <2>1, <2>2, PurposeEnds DEF Commit, CommitDelete, BreakDeadlock
  <2> QED BY <1>1, <2>1, <2>2, PurposeGoesOn DEF Progress
<1>2. ASSUME NEW w \in bound.writers, Transaction(w)
      PROVE  JInv'
  <2>1. w \in Writers /\ bound.tasks \subseteq Tasks /\ bound.types \subseteq Types
    BY WriterInBounds, EventLogAssumption DEF DInv, Typed
  <2> QED BY <1>2, <2>1, PurposeGoesOn, PurposeBegins, PurposeAppends, PurposeEnds
          DEF Transaction, Fail
<1>3. ASSUME UNCHANGED txn
      PROVE  JInv'
  BY <1>3 DEF JInv, Purpose
<1>4. CASE Browser
  BY <1>3, <1>4 DEF Browser, Follow, Signal, StreamBreaks, CloseStream, Poll, Receive, Reconnect,
     store
<1>5. CASE UNCHANGED vars
  BY <1>3, <1>5 DEF vars
<1> QED BY <1>1, <1>2, <1>4, <1>5 DEF Next

(* Two sequences that go on in the same way are equal. *)
LEMMA SameSequence ==
  ASSUME NEW S, NEW s \in Seq(S), NEW u \in Seq(S), NEW v \in Seq(S),
         Len(v) = Len(s) + Len(u), \A i \in 1..Len(s) : v[i] = s[i],
         \A i \in 1..Len(u) : v[Len(s) + i] = u[i]
  PROVE  v = s \o u
<1>1. s \o u \in Seq(S) /\ Len(s \o u) = Len(v)
  OBVIOUS
<1>2. ASSUME NEW i \in 1..Len(v)
      PROVE  v[i] = (s \o u)[i]
  <2>1. CASE i <= Len(s)
    BY <2>1
  <2>2. CASE i > Len(s)
    <3>1. i - Len(s) \in 1..Len(u) /\ Len(s) + (i - Len(s)) = i
      BY <2>2
    <3>2. v[i] = u[i - Len(s)]
      BY <3>1
    <3> QED BY <2>2, <3>2
  <2> QED BY <2>1, <2>2
<1> DEFINE j == s \o u
<1>3. j \in Seq(S) /\ Len(j) = Len(v) /\ \A i \in 1..Len(v) : v[i] = j[i]
  BY <1>1, <1>2
<1> HIDE DEF j
<1>4. v = [i \in 1..Len(v) |-> v[i]]
  OBVIOUS
<1>5. j = [i \in 1..Len(v) |-> j[i]]
  BY <1>3
<1>6. v = j
  BY <1>3, <1>4, <1>5
<1> QED BY <1>6 DEF j

LEMMA JoinedTypes ==
  ASSUME NEW S, NEW s \in Seq(S), NEW u \in Seq(S)
  PROVE  /\ TypesOf(s \o u) = TypesOf(s) \o TypesOf(u)
         /\ StoryOf(s \o u) = StoryOf(s) \o StoryOf(u)
<1> DEFINE A(e) == [task |-> e.task, type |-> e.type]
           T == {e.type : e \in S}
           R == {A(e) : e \in S}
<1>1. ASSUME NEW q \in Seq(S)
      PROVE  /\ TypesOf(q) \in Seq(T) /\ Len(TypesOf(q)) = Len(q)
             /\ \A i \in 1..Len(q) : TypesOf(q)[i] = q[i].type
             /\ StoryOf(q) \in Seq(R) /\ Len(StoryOf(q)) = Len(q)
             /\ \A i \in 1..Len(q) : StoryOf(q)[i] = A(q[i])
  <2>1. /\ Len(q) \in Nat /\ DOMAIN q = 1..Len(q)
        /\ \A i \in 1..Len(q) : q[i].type \in T /\ A(q[i]) \in R
    OBVIOUS
  <2>2. TypesOf(q) = [i \in 1..Len(q) |-> q[i].type] /\ StoryOf(q) = [i \in 1..Len(q) |-> A(q[i])]
    BY <2>1 DEF TypesOf, StoryOf
  <2> HIDE DEF A, T, R
  <2> QED BY <2>1, <2>2
<1> DEFINE j == s \o u
<1>2. /\ j \in Seq(S) /\ Len(j) = Len(s) + Len(u)
      /\ \A i \in 1..Len(s) : j[i] = s[i] /\ i \in 1..Len(j)
      /\ \A i \in 1..Len(u) : j[Len(s) + i] = u[i] /\ Len(s) + i \in 1..Len(j)
  OBVIOUS
<1> HIDE DEF A, T, R, j
<1>3. TypesOf(j) = TypesOf(s) \o TypesOf(u)
  <2>1. TypesOf(s) \in Seq(T) /\ TypesOf(u) \in Seq(T) /\ TypesOf(j) \in Seq(T)
    BY <1>1, <1>2
  <2>2. /\ Len(TypesOf(s)) = Len(s) /\ Len(TypesOf(u)) = Len(u)
        /\ Len(TypesOf(j)) = Len(s) + Len(u)
    BY <1>1, <1>2
  <2>3. ASSUME NEW i \in 1..Len(TypesOf(s))
        PROVE  TypesOf(j)[i] = TypesOf(s)[i]
    <3>1. i \in 1..Len(s) /\ i \in 1..Len(j) /\ j[i] = s[i]
      BY <1>2, <2>2
    <3>2. TypesOf(s)[i] = s[i].type
      BY <1>1, <3>1
    <3>3. TypesOf(j)[i] = j[i].type
      BY <1>1, <1>2, <3>1
    <3> QED BY <3>1, <3>2, <3>3
  <2>4. ASSUME NEW i \in 1..Len(TypesOf(u))
        PROVE  TypesOf(j)[Len(TypesOf(s)) + i] = TypesOf(u)[i]
    <3> DEFINE k == Len(s) + i
    <3>1. i \in 1..Len(u) /\ k \in 1..Len(j) /\ j[k] = u[i]
      BY <1>2, <2>2
    <3> HIDE DEF k
    <3>2. TypesOf(u)[i] = u[i].type
      BY <1>1, <3>1
    <3>3. TypesOf(j)[k] = j[k].type
      BY <1>1, <1>2, <3>1
    <3> QED BY <2>2, <3>1, <3>2, <3>3 DEF k
  <2>5. Len(TypesOf(j)) = Len(TypesOf(s)) + Len(TypesOf(u))
    BY <2>2
  <2> QED BY <2>1, <2>3, <2>4, <2>5, SameSequence
<1>4. StoryOf(j) = StoryOf(s) \o StoryOf(u)
  <2>1. StoryOf(s) \in Seq(R) /\ StoryOf(u) \in Seq(R) /\ StoryOf(j) \in Seq(R)
    BY <1>1, <1>2
  <2>2. /\ Len(StoryOf(s)) = Len(s) /\ Len(StoryOf(u)) = Len(u)
        /\ Len(StoryOf(j)) = Len(s) + Len(u)
    BY <1>1, <1>2
  <2>3. ASSUME NEW i \in 1..Len(StoryOf(s))
        PROVE  StoryOf(j)[i] = StoryOf(s)[i]
    <3>1. i \in 1..Len(s) /\ i \in 1..Len(j) /\ j[i] = s[i]
      BY <1>2, <2>2
    <3>2. StoryOf(s)[i] = A(s[i])
      BY <1>1, <3>1
    <3>3. StoryOf(j)[i] = A(j[i])
      BY <1>1, <1>2, <3>1
    <3> QED BY <3>1, <3>2, <3>3
  <2>4. ASSUME NEW i \in 1..Len(StoryOf(u))
        PROVE  StoryOf(j)[Len(StoryOf(s)) + i] = StoryOf(u)[i]
    <3> DEFINE k == Len(s) + i
    <3>1. i \in 1..Len(u) /\ k \in 1..Len(j) /\ j[k] = u[i]
      BY <1>2, <2>2
    <3> HIDE DEF k
    <3>2. StoryOf(u)[i] = A(u[i])
      BY <1>1, <3>1
    <3>3. StoryOf(j)[k] = A(j[k])
      BY <1>1, <1>2, <3>1
    <3> QED BY <2>2, <3>1, <3>2, <3>3 DEF k
  <2>5. Len(StoryOf(j)) = Len(StoryOf(s)) + Len(StoryOf(u))
    BY <2>2
  <2> QED BY <2>1, <2>3, <2>4, <2>5, SameSequence
<1> QED BY <1>3, <1>4 DEF j

LEMMA TypesAreTypes ==
  ASSUME NEW s \in Seq(Events)
  PROVE  TypesOf(s) \in Seq(Types)
<1>1. DOMAIN s = 1..Len(s) /\ Len(s) \in Nat /\ \A i \in 1..Len(s) : s[i] \in Events
  OBVIOUS
<1>2. \A e \in Events : e.type \in Types
  BY DEF Events
<1>3. TypesOf(s) = [i \in 1..Len(s) |-> s[i].type]
  BY <1>1 DEF TypesOf
<1> QED BY <1>1, <1>2, <1>3

(* What a commit adds to the session is a copy of what it adds to its task, but
   for what it wrote before a deleted session was created again.            *)
LEMMA CopiesAgree ==
  ASSUME DInv, SInv, NEW w \in Writers, txn[w].op \in {"create", "write"}, txn[w].pc = "open"
  PROVE  LET x == txn[w]
             batch == TypesOf(txn[w].events)
         IN /\ batch \in Seq(Types) /\ Len(batch) = Len(x.events) /\ Skipped(x) \in 0..Len(batch)
            /\ StoryOf(x.shared)
                 = Journal!Copied(x.task, SubSeq(batch, Skipped(x) + 1, Len(batch)))
            /\ x.shared = <<>> => Skipped(x) = Len(batch)
<1> DEFINE x == txn[w]
           k == Skipped(txn[w])
           batch == TypesOf(txn[w].events)
<1>1. x \in Txns /\ Known(x) /\ Mirrors(x)
  <2>1. x \in Txns /\ Known(x)
    BY DEF DInv, Typed, SInv
  <2> QED BY <2>1 DEF Known
<1>2. x.events \in Seq(Events) /\ x.shared \in Seq(Copies)
  BY <1>1 DEF Txns
<1>3. x.pc = "open"
  OBVIOUS
<1>4. /\ k \in Nat
      /\ \A i \in DOMAIN x.shared : /\ x.shared[i].task = x.task /\ k + i \in DOMAIN x.events
                                    /\ x.shared[i].type = x.events[k + i].type
  BY <1>1 DEF Known, Mirrors
<1>5. k = Len(x.events) - Len(x.shared)
  <2>1. k = Len(x.events) - Len(x.shared) - 0
    BY <1>3 DEF Skipped
  <2>2. Len(x.shared) \in Nat /\ Len(x.events) \in Nat
    BY <1>2
  <2> HIDE DEF x, k
  <2> QED BY <2>1, <2>2
<1> HIDE DEF x, k
<1>6. /\ DOMAIN x.shared = 1..Len(x.shared) /\ DOMAIN x.events = 1..Len(x.events)
      /\ Len(x.shared) \in Nat /\ Len(x.events) \in Nat
      /\ Len(<<>>) = 0
  BY <1>2
<1>7. batch \in Seq(Types)
  BY <1>2, TypesAreTypes DEF x
<1>8. batch = [i \in 1..Len(x.events) |-> x.events[i].type]
  BY <1>6 DEF TypesOf, x
<1>9. Len(batch) = Len(x.events) /\ \A i \in 1..Len(x.events) : batch[i] = x.events[i].type
  BY <1>6, <1>7, <1>8
<1> HIDE DEF batch
<1>15. k \in 0..Len(batch) /\ Len(batch) \in Nat /\ Len(x.shared) = Len(batch) - k
  <2> DEFINE a == Len(x.shared)
             b == Len(batch)
  <2>1. a \in Nat /\ b \in Nat /\ k \in Nat /\ k = b - a
    BY <1>4, <1>5, <1>6, <1>9
  <2> HIDE DEF a, b
  <2>2. k \in 0..b /\ a = b - k
    BY <2>1
  <2> QED BY <2>1, <2>2 DEF a, b
<1> DEFINE rest == SubSeq(batch, k + 1, Len(batch))
<1>10. /\ DOMAIN rest = 1..Len(x.shared)
       /\ \A i \in 1..Len(x.shared) : k + i \in 1..Len(x.events) /\ rest[i] = batch[k + i]
  <2>1. k + 1 \in 1..(Len(batch) + 1) /\ Len(batch) \in Nat
    BY <1>15
  <2>2. Len(rest) = Len(x.shared) /\ DOMAIN rest = 1..Len(rest)
    <3> DEFINE b == Len(batch)
               c == Len(x.shared)
    <3>1. k \in 0..b /\ b \in Nat /\ c = b - k
      BY <1>15
    <3>2. rest \in Seq(Types) /\ Len(rest) = IF k + 1 <= b THEN b - (k + 1) + 1 ELSE 0
      BY <1>7, <1>15
    <3> HIDE DEF b, rest, c
    <3>3. Len(rest) = c
      BY <3>1, <3>2
    <3> QED BY <3>2, <3>3 DEF c
  <2>3. ASSUME NEW i \in 1..Len(x.shared)
        PROVE  k + i \in 1..Len(x.events) /\ rest[i] = batch[k + i]
    <3>1. k + i \in 1..Len(x.events)
      BY <1>4, <1>6
    <3>2. i \in 1..(Len(batch) - (k + 1) + 1) /\ (k + 1) + i - 1 = k + i
      BY <1>4, <1>5, <1>6, <1>9
    <3>3. rest[i] = batch[(k + 1) + i - 1]
      BY <1>4, <1>7, <2>1, <3>2
    <3> QED BY <3>1, <3>2, <3>3
  <2> QED BY <2>2, <2>3
<1> HIDE DEF rest
<1>11. StoryOf(x.shared)
         = [i \in 1..Len(x.shared) |-> [task |-> x.shared[i].task, type |-> x.shared[i].type]]
  BY <1>6 DEF StoryOf
<1>12. ASSUME NEW i \in 1..Len(x.shared)
       PROVE  x.shared[i].task = x.task /\ x.shared[i].type = rest[i]
  BY <1>4, <1>6, <1>9, <1>10
<1>13. StoryOf(x.shared) = Journal!Copied(x.task, rest)
  BY <1>10, <1>11, <1>12 DEF Journal!Copied
<1>14. k \in 0..Len(batch) /\ (x.shared = <<>> => k = Len(batch))
  <2>1. x.shared = <<>> => Len(x.shared) = 0
    BY <1>6
  <2> DEFINE a == Len(x.shared)
             b == Len(batch)
  <2>2. b \in Nat /\ k \in 0..b /\ a = b - k
    BY <1>15
  <2> HIDE DEF a, b
  <2>3. a = 0 => k = b
    BY <2>2
  <2> QED BY <1>15, <2>1, <2>3 DEF a, b
<1> QED BY <1>7, <1>9, <1>13, <1>14 DEF x, k, batch, rest

(* The rows as the journal sees them. *)
LEMMA JournalRows ==
  ASSUME DInv
  PROVE  /\ Told = [t \in Tasks |-> TypesOf(log[t])] /\ Story = StoryOf(sessionLog)
         /\ DOMAIN Existing = Tasks \cup {Session} /\ Existing[Session] = session.life
         /\ \A t \in Tasks : Existing[t] = task[t].life /\ t # Session
         /\ \A t \in Tasks : log[t] \in Seq(Events) /\ DOMAIN log[t] = 1..Len(log[t])
  BY EventLogAssumption DEF Told, Story, TypesOf, StoryOf, Existing, DInv, Typed

LEMMA CommitIsCreate ==
  ASSUME DInv, SInv, JInv, NEW w \in Writers, Commit(w), ~Taken(w), txn[w].op = "create"
  PROVE  Journal!Create(txn[w].task)
<1> DEFINE x == txn[w]
           t == txn[w].task
<1>1. /\ x \in Txns /\ Known(x) /\ t \in Tasks /\ WellFormed(x)
      /\ x.op = "create" /\ x.pc = "open"
      /\ task'[t].life = "there" /\ log'[t] = log[t] \o x.events
      /\ \A u \in Tasks \ {t} : task'[u] = task[u] /\ log'[u] = log[u]
      /\ sessionLog' = sessionLog \o x.shared
      /\ session'.life = "there" /\ past' = past
      /\ task[t].life = "absent"
  <2> HIDE DEF x, t
  <2> QED BY CommitFacts DEF x, t
<1>3. /\ x.events \in Seq(Events) /\ x.shared \in Seq(Copies)
      /\ sessionLog \in Seq(Copies)
  BY <1>1 DEF Txns, DInv, Typed
<1>4. TypesOf(x.events) = <<"task.created">>
  <2>1. x.events # <<>> /\ Purpose(x)
    BY <1>1 DEF Commit, Complete, Known, JInv
  <2>2. Len(x.events) = 1
    <3> DEFINE n == Len(x.events)
    <3>1. n \in Nat /\ n # 0
      BY <1>3, <2>1
    <3>2. n <= 1
      BY <1>1, <2>1 DEF Purpose
    <3> HIDE DEF n
    <3>3. n = 1
      BY <3>1, <3>2
    <3> QED BY <3>3 DEF n
  <2>3. DOMAIN x.events = 1..1 /\ x.events[1].type = "task.created"
    BY <1>1, <1>3, <2>1, <2>2 DEF Purpose
  <2> HIDE DEF x
  <2>4. TypesOf(x.events) = [i \in 1..1 |-> x.events[i].type]
    BY <2>3 DEF TypesOf
  <2>5. TypesOf(x.events) = [i \in 1..1 |-> "task.created"]
    BY <2>3, <2>4
  <2> QED BY <2>5
<1>5. log[t] = <<>>
  <2>1. task[t] = NoRow /\ Len(log[t]) = 0 /\ log[t] \in Seq(Events)
    <3>1. task[t] = NoRow
      BY <1>1 DEF SInv
    <3>2. task[t].seq = Len(log[t]) /\ log[t] \in Seq(Events)
      BY <1>1 DEF DInv, AllDense, Dense, Typed
    <3> QED BY <3>1, <3>2, Empty
  <2> QED BY <2>1
<1>6. StoryOf(x.shared) = Journal!Copied(t, <<"task.created">>)
  <2>1. Skipped(x) = 0
    BY <1>1 DEF Known, Mirrors, SInv
  <2> DEFINE first == <<"task.created">>
  <2>2. StoryOf(x.shared) = Journal!Copied(t, SubSeq(first, 0 + 1, Len(first)))
    BY <1>1, <1>4, <2>1, CopiesAgree
  <2>3. SubSeq(first, 0 + 1, Len(first)) = first
    <3>1. first \in Seq(Types) /\ Len(first) = 1
      BY DEF Types
    <3> DEFINE u == SubSeq(first, 1, 1)
    <3>2. u \in Seq(Types) /\ Len(u) = 1 /\ u[1] = first[1]
      BY <3>1
    <3> HIDE DEF u
    <3>3. u = [i \in 1..1 |-> u[i]] /\ first = [i \in 1..1 |-> first[i]]
      BY <3>1, <3>2
    <3>4. u = first
      BY <3>2, <3>3
    <3> QED BY <3>1, <3>4 DEF u
  <2> QED BY <2>2, <2>3
<1> HIDE DEF x, t
<1>8. Existing' = [Existing EXCEPT ![t] = "there", ![Session] = "there"]
  <2>1. /\ DOMAIN Existing' = DOMAIN Existing /\ Existing'[t] = "there"
        /\ Existing'[Session] = "there"
    BY <1>1, JournalRows DEF Existing
  <2>2. \A u \in Tasks \ {t} : Existing'[u] = Existing[u]
    BY <1>1, JournalRows DEF Existing
  <2> QED BY <1>1, <2>1, <2>2, JournalRows DEF Existing
<1>9. Told' = [Told EXCEPT ![t] = <<"task.created">>]
  <2>1. log'[t] = x.events
    BY <1>1, <1>3, <1>5
  <2>2. Told' = [u \in Tasks |-> TypesOf(log'[u])]
    BY DEF Told, TypesOf
  <2> QED BY <1>1, <1>4, <2>1, <2>2, JournalRows
<1>10. Story' = Story \o Journal!Copied(t, <<"task.created">>)
  <2>1. Story' = StoryOf(sessionLog')
    BY DEF Story, StoryOf
  <2>2. StoryOf(sessionLog \o x.shared) = StoryOf(sessionLog) \o StoryOf(x.shared)
    BY <1>3, JoinedTypes
  <2> QED BY <1>1, <1>6, <2>1, <2>2, JournalRows
<1>11. Existing[t] = "absent" /\ past'.orphans = past.orphans
  BY <1>1, JournalRows
<1> QED BY <1>8, <1>9, <1>10, <1>11 DEF Journal!Create, x, t

LEMMA CommitIsPublish ==
  ASSUME DInv, SInv, JInv, NEW w \in Writers, Commit(w), ~Taken(w), txn[w].op = "write"
  PROVE  Journal!Publish(txn[w].task)
<1> DEFINE x == txn[w]
           t == txn[w].task
<1>1. /\ x \in Txns /\ Known(x) /\ t \in Tasks /\ WellFormed(x)
      /\ x.op = "write" /\ x.pc = "open"
      /\ task'[t].life = "there" /\ log'[t] = log[t] \o x.events
      /\ \A u \in Tasks \ {t} : task'[u] = task[u] /\ log'[u] = log[u]
      /\ sessionLog' = sessionLog \o x.shared
      /\ x.shared = <<>> => session' = session
      /\ x.shared # <<>> => session'.life = "there"
      /\ task[t].life = "there" /\ past' = past
  <2> HIDE DEF x, t
  <2> QED BY CommitFacts DEF x, t
<1>2. x.shared # <<>> => session.life = "there"
  BY <1>1 DEF WellFormed, Known
<1>3. /\ x.events \in Seq(Events) /\ x.shared \in Seq(Copies)
      /\ sessionLog \in Seq(Copies) /\ log[t] \in Seq(Events)
  BY <1>1 DEF Txns, DInv, Typed
<1> DEFINE batch == TypesOf(x.events)
           k == Skipped(x)
<1>4. \A i \in DOMAIN batch : batch[i] \in Types \ {"task.created"}
  <2>1. Purpose(x)
    BY DEF JInv
  <2>2. \A i \in DOMAIN x.events : x.events[i] \in Events
    BY <1>3
  <2>3. \A i \in DOMAIN x.events : x.events[i].type \in Types \ {"task.created"}
    BY <1>1, <2>1, <2>2 DEF Purpose, Events
  <2> HIDE DEF x
  <2> QED BY <2>3 DEF TypesOf
<1>5. /\ k \in 0..Len(batch)
      /\ StoryOf(x.shared) = Journal!Copied(t, SubSeq(batch, k + 1, Len(batch)))
      /\ x.shared = <<>> => k = Len(batch)
  BY <1>1, CopiesAgree
<1>6. k > 0 => t \in past.orphans
  <2>1. k # 0 => t \in past.orphans
    BY <1>1 DEF Known, Mirrors
  <2>2. k > 0 => k # 0
    BY <1>5
  <2> HIDE DEF k
  <2> QED BY <2>1, <2>2
<1> HIDE DEF x, t, k
<1>7. Existing' = Existing
  <2>1. session'.life = session.life
    BY <1>1, <1>2
  <2>2. \A u \in Tasks : task'[u].life = task[u].life
    BY <1>1
  <2> QED BY <2>1, <2>2 DEF Existing
<1>8. Told' = [Told EXCEPT ![t] = @ \o batch]
  <2>1. TypesOf(log'[t]) = TypesOf(log[t]) \o batch
    <3>1. TypesOf(log[t] \o x.events) = TypesOf(log[t]) \o TypesOf(x.events)
      BY <1>3, JoinedTypes
    <3> QED BY <1>1, <3>1
  <2>2. Told' = [u \in Tasks |-> TypesOf(log'[u])]
    BY DEF Told, TypesOf
  <2> HIDE DEF batch
  <2> QED BY <1>1, <2>1, <2>2, JournalRows
<1>9. Story' = Story \o Journal!Copied(t, SubSeq(batch, k + 1, Len(batch)))
  <2>1. Story' = StoryOf(sessionLog')
    BY DEF Story, StoryOf
  <2>2. StoryOf(sessionLog') = StoryOf(sessionLog) \o StoryOf(x.shared)
    BY <1>1, <1>3, JoinedTypes
  <2> HIDE DEF batch
  <2> QED BY <1>5, <2>1, <2>2, JournalRows
<1>10. Journal!Added(t) = batch
  <2>1. Told'[t] = Told[t] \o batch
    BY <1>1, <1>8, JournalRows
  <2>2. Told[t] \in Seq(Types) /\ batch \in Seq(Types)
    <3>1. Told[t] = TypesOf(log[t])
      BY <1>1, JournalRows
    <3> QED BY <1>3, <3>1, TypesAreTypes
  <2> HIDE DEF batch
  <2>3. /\ Len(Told'[t]) - Len(Told[t]) = Len(batch)
        /\ \A i \in 1..Len(batch) : Told'[t][Len(Told[t]) + i] = batch[i]
    BY <2>1, <2>2
  <2>4. batch = [i \in 1..Len(batch) |-> batch[i]]
    BY <2>2
  <2> QED BY <2>3, <2>4 DEF Journal!Added
<1>11. Existing[t] = "there" /\ past'.orphans = past.orphans
  BY <1>1, JournalRows
<1>12. IF Existing[Session] = "there" THEN k > 0 => t \in past.orphans ELSE k = Len(batch)
  <2>1. session.life # "there" => x.shared = <<>>
    BY <1>2
  <2> HIDE DEF batch
  <2> QED BY <1>5, <1>6, <2>1, JournalRows
<1> HIDE DEF batch
<1>13. \E n \in 0..Len(batch) :
         /\ Story' = Story \o Journal!Copied(t, SubSeq(batch, n + 1, Len(batch)))
         /\ IF Existing[Session] = "there" THEN n > 0 => t \in past.orphans ELSE n = Len(batch)
  BY <1>5, <1>9, <1>12
<1> QED BY <1>4, <1>7, <1>8, <1>10, <1>11, <1>13 DEF Journal!Publish, x, t

LEMMA DeleteIsDelete ==
  ASSUME DInv, SInv, NEW w \in Writers, CommitDelete(w)
  PROVE  \E gone \in SUBSET Tasks : Journal!DeleteTasks(gone) \/ Journal!DeleteSession(gone)
<1> DEFINE x == txn[w]
           gone == txn[w].doomed
           deleted == [NoRow EXCEPT !.life = "deleted"]
<1>1. /\ x \in Txns /\ WellFormed(x) /\ Fits(x) /\ Known(x)
      /\ x.pc = "delete" /\ gone \subseteq x.holds /\ gone \in SUBSET Tasks
  BY DEF DInv, Typed, SInv, CommitDelete, Txns
<1>2. /\ x.op \in {"delete_task", "delete_session"}
      /\ \A t \in gone : task[t].life = "there"
  BY <1>1 DEF WellFormed, Fits
<1>3. /\ task' = [t \in Tasks |-> IF t \in gone THEN deleted ELSE task[t]]
      /\ log' = [t \in Tasks |-> IF t \in gone THEN <<>> ELSE log[t]]
      /\ IF x.op = "delete_session"
         THEN /\ session' = [session EXCEPT !.life = "deleted", !.seq = 0] /\ sessionLog' = <<>>
              /\ past' = [past EXCEPT !.orphans = @ \cup {t \in Tasks \ gone : There(t)}]
         ELSE UNCHANGED <<session, sessionLog, past>>
  BY DEF CommitDelete
<1>4. deleted.life = "deleted"
  BY DEF NoRow
<1>5. TypesOf(<<>>) = <<>> /\ StoryOf(<<>>) = <<>>
  BY DEF TypesOf, StoryOf
<1> HIDE DEF deleted
<1>6. /\ \A t \in Tasks : task'[t].life = IF t \in gone THEN "deleted" ELSE task[t].life
      /\ Told' = Journal!Emptied(gone)
  <2>1. Told' = [t \in Tasks |-> TypesOf(log'[t])]
    BY DEF Told, TypesOf
  <2> HIDE DEF gone
  <2> QED BY <1>3, <1>4, <1>5, <2>1, JournalRows DEF Journal!Emptied
<1>7. CASE x.op = "delete_session"
  <2>1. session.life = "there"
    BY <1>1, <1>7 DEF WellFormed, Known
  <2> HIDE DEF x, gone
  <2>2. Story' = <<>>
    <3>1. Story' = StoryOf(sessionLog')
      BY DEF Story, StoryOf
    <3> QED BY <1>3, <1>5, <1>7, <3>1
  <2>6. session'.life = "deleted"
    BY <1>3, <1>7 DEF DInv, Typed
  <2>7. past'.orphans = past.orphans \cup {t \in Tasks \ gone : Existing[t] = "there"}
    <3>1. past'.orphans = past.orphans \cup {t \in Tasks \ gone : There(t)}
      BY <1>3, <1>7 DEF DInv, Typed
    <3>2. \A t \in Tasks \ gone : There(t) <=> Existing[t] = "there"
      BY JournalRows DEF There
    <3> QED BY <3>1, <3>2
  <2>3. Existing' = Journal!Deleted(gone \cup {Session})
    <3>1. \A t \in Tasks : t # Session /\ Session \notin gone
      BY <1>1, EventLogAssumption
    <3>2. Existing' = [y \in Tasks \cup {Session} |->
                         IF y = Session THEN "deleted" ELSE task'[y].life]
      BY <2>6 DEF Existing
    <3> QED BY <1>6, <3>1, <3>2, JournalRows DEF Journal!Deleted
  <2>4. Existing[Session] = "there" /\ \A t \in gone : Existing[t] = "there"
    BY <1>1, <1>2, <2>1, JournalRows
  <2>5. Journal!DeleteSession(gone)
    BY <1>6, <2>2, <2>3, <2>4, <2>7 DEF Journal!DeleteSession
  <2> QED BY <1>1, <2>5
<1>8. CASE x.op = "delete_task"
  <2> HIDE DEF x, gone
  <2>1. session' = session /\ sessionLog' = sessionLog /\ past' = past
    BY <1>3, <1>8
  <2>2. Story' = Story
    BY <2>1 DEF Story
  <2>3. Existing' = Journal!Deleted(gone)
    <3>1. Existing' = [y \in Tasks \cup {Session} |->
                         IF y = Session THEN session.life ELSE task'[y].life]
      BY <2>1 DEF Existing
    <3>2. Session \notin gone
      BY <1>1, EventLogAssumption
    <3> QED BY <1>6, <3>1, <3>2, JournalRows DEF Journal!Deleted
  <2>4. \A t \in gone : Existing[t] = "there"
    BY <1>1, <1>2, JournalRows
  <2>5. Journal!DeleteTasks(gone)
    BY <1>6, <2>1, <2>2, <2>3, <2>4 DEF Journal!DeleteTasks
  <2> QED BY <1>1, <2>5
<1> QED BY <1>2, <1>7, <1>8

LEMMA JournalStays ==
  ASSUME UNCHANGED rows, past'.orphans = past.orphans
  PROVE  UNCHANGED Journal!vars
<1>1. UNCHANGED <<task, session, log, sessionLog>>
  BY DEF rows
<1> QED BY <1>1 DEF Journal!vars, Existing, Told, Story

(* Every step is a step of the journal or leaves it as it is. *)
THEOREM JournalStep ==
  DInv /\ SInv /\ JInv /\ [Next]_vars => [Journal!Next]_(Journal!vars)
<1> SUFFICES ASSUME DInv, SInv, JInv, [Next]_vars
             PROVE  Journal!Next \/ UNCHANGED Journal!vars
  OBVIOUS
<1>1. ASSUME NEW w \in bound.writers, Commit(w)
      PROVE  Journal!Next \/ UNCHANGED Journal!vars
  <2>1. w \in Writers
    BY WriterInBounds
  <2>2. txn[w].op \in {"create", "write"} /\ txn[w].task \in Tasks
    BY <1>1, <2>1 DEF Commit, Complete, DInv, WellFormed
  <2>3. CASE ~Taken(w)
    <3>1. Journal!Create(txn[w].task) \/ Journal!Publish(txn[w].task)
      BY <1>1, <2>1, <2>2, <2>3, CommitIsCreate, CommitIsPublish
    <3> QED BY <2>2, <3>1 DEF Journal!Next
  <2>4. CASE Taken(w)
    <3>1. UNCHANGED rows /\ past' = [past EXCEPT !.refused = TRUE]
      BY <1>1, <2>1, <2>4, CommitRefused
    <3>2. past'.orphans = past.orphans
      BY <3>1 DEF DInv, Typed
    <3> QED BY <3>1, <3>2, JournalStays
  <2> QED BY <2>3, <2>4
<1>2. ASSUME NEW w \in bound.writers, CommitDelete(w)
      PROVE  Journal!Next
  <2>1. w \in Writers
    BY WriterInBounds
  <2> QED BY <1>2, <2>1, DeleteIsDelete DEF Journal!Next
<1>3. CASE UNCHANGED rows /\ past' = past
  BY <1>3, JournalStays
<1>4. CASE Browser
  <2>1. UNCHANGED store
    BY <1>4 DEF Browser, Follow, Signal, StreamBreaks, CloseStream, Poll, Receive, Reconnect
  <2> QED BY <1>3, <2>1 DEF store
<1>5. CASE UNCHANGED vars
  BY <1>3, <1>5 DEF vars, rows
<1>6. ASSUME NEW w \in bound.writers, Progress(w) \/ Transaction(w)
      PROVE  \/ Commit(w) \/ CommitDelete(w) \/ LoadSession(w)
             \/ UNCHANGED rows /\ past' = past
  BY <1>6 DEF Progress, Transaction, FindSession, LinkSession, AppendSessionEvent,
     DeleteSessionRow, DeleteTaskRow, BreakDeadlock, BeginCreate, BeginMessage, BeginWrite,
     BeginDelete, BeginDeleteSession, Rewrite, AppendEvent, Fail
<1>7. ASSUME NEW w \in bound.writers, LoadSession(w)
      PROVE  UNCHANGED Journal!vars
  <2>1. past' = past \/ past' = [past EXCEPT !.carried = @ \/ Carried(w) > 0]
    BY <1>7 DEF LoadSession
  <2>2. past'.orphans = past.orphans
    BY <2>1 DEF DInv, Typed
  <2>3. UNCHANGED rows
    BY <1>7 DEF LoadSession
  <2> QED BY <2>2, <2>3, JournalStays
<1> QED BY <1>1, <1>2, <1>3, <1>4, <1>5, <1>6, <1>7 DEF Next

LEMMA JournalStarts == Init => Journal!Init
<1> SUFFICES ASSUME Init
             PROVE  Journal!Init
  OBVIOUS
<1>1. Existing = [x \in Tasks \cup {Session} |-> "absent"]
  BY Empty DEF Init, Existing
<1>2. Story = <<>>
  BY DEF Init, Story
<1>3. Told = [t \in Tasks |-> <<>>]
  BY DEF Init, Told
<1>4. past.orphans = {}
  BY DEF Init
<1> QED BY <1>1, <1>2, <1>3, <1>4 DEF Journal!Init

(* The rows implement EventJournal: events appear in the log of their task *)
(* and of the session together and behind all others, and none changes,    *)
(* moves or vanishes before its log is deleted (append_event,              *)
(* append_session_event, delete_task, delete_session).  A session that a   *)
(* message creates again (create_task) starts a new log, which may miss    *)
(* the beginnings of the tasks that its deletion left behind.              *)
THEOREM JournalIsKept == Spec => JournalSpec
<1>1. Init => JInv
  <2>1. ASSUME Init
        PROVE  \A w \in Writers : txn[w] = NoTxn
    BY <2>1 DEF Init
  <2>2. Purpose(NoTxn)
    BY DEF Purpose, NoTxn
  <2> QED BY <2>1, <2>2 DEF JInv
<1>2. Spec => []JInv
  BY <1>1, PurposesStay, Invariance, PTL DEF Spec
<1> QED BY <1>2, Agreement, JournalStarts, JournalStep, PTL DEF Spec, JournalSpec, Journal!Spec
=============================================================================
