--------------------------- MODULE ToolLoop_proofs ---------------------------
(***************************************************************************)
(* Proofs about ToolLoop for every set of calls, every bound on them and    *)
(* every number of episodes: first what each tool may leave behind, then    *)
(* an inductive invariant that ties the call being executed to its record,  *)
(* and the theorems that follow from it.                                    *)
(***************************************************************************)
EXTENDS ToolLoop, Rankings

Ends == {"applied", "rejected", "failed", "raised"}
Sizes == {"small", "large"}
Records == [tool : STRING, run : Nat, call : Nat, status : Ends \cup {"running"}]
Artifacts == UNION {[D -> Contents] : D \in SUBSET Nat}
Rows == [records : Seq(Records), paths : SUBSET Paths, artifacts : Artifacts,
         report : BOOLEAN]
Disks == {d \in [Paths -> Contents] : \A p \in Paths : d[p] # "missing" => ~Orphan(d, p)}

(* What is known of a result: the workspace it leaves is one, artifact files
   are only added, records are left alone, and each path and artifact the
   session's row lists is there, a path unless the tool removed it.         *)
GoodResult(r) ==
  /\ r.status \in Ends /\ r.size \in Sizes /\ r.wrote \subseteq Paths
  /\ r.disk \in Disks
  /\ r.store \in Seq(Contents)
  /\ \A i \in DOMAIN store : i \in DOMAIN r.store /\ r.store[i] = store[i]
  /\ r.work \in Rows
  /\ r.work.records = work.records
  /\ work.paths \subseteq r.work.paths
  /\ \A p \in r.work.paths \ work.paths : r.disk[p] # "missing"
  /\ \A i \in DOMAIN r.work.artifacts :
       i \in DOMAIN r.store /\ r.store[i] = r.work.artifacts[i]
GoodResults(S) == \A r \in S : GoodResult(r)

Before ==
  /\ disk \in Disks
  /\ store \in Seq(Contents)
  /\ work \in Rows
  /\ \A i \in DOMAIN work.artifacts : i \in DOMAIN store /\ store[i] = work.artifacts[i]

(* A result that changes nothing. *)
LEMMA PlainResults ==
  ASSUME Before, NEW size \in Sizes, NEW status \in Ends
  PROVE  GoodResult(Returns(status, size))
BY DEF Before, GoodResult, Returns, Disks, Rows

LEMMA NamedResults ==
  ASSUME Before, NEW size \in Sizes
  PROVE  GoodResults({Rejected, Failed, Raised, Applied(size)} \cup Sized)
BY PlainResults DEF GoodResults, Rejected, Failed, Raised, Applied, Sized, Ends, Sizes

(* The tools that only read. *)
LEMMA ReadingTools ==
  ASSUME Before, NEW c
  PROVE  /\ GoodResults(ListFiles(c))
         /\ GoodResults(ReadFile(c))
         /\ GoodResults(Glob(c))
         /\ GoodResults(Grep(c))
         /\ GoodResults(GitStatus(c))
         /\ GoodResults(ReadArtifact(c))
<1>1. GoodResults({Rejected, Failed, Raised, Applied("small"), Applied("large")} \cup Sized)
  BY NamedResults DEF GoodResults, Sizes
<1>2. GoodResults(ListFiles(c))
  BY <1>1 DEF GoodResults, ListFiles
<1>3. GoodResults(ReadFile(c))
  BY <1>1 DEF GoodResults, ReadFile
<1>4. GoodResults(Glob(c)) /\ GoodResults(Grep(c))
  BY <1>1 DEF GoodResults, Glob, Grep
<1>5. GoodResults(GitStatus(c))
  BY <1>1 DEF GoodResults, GitStatus
<1>6. GoodResults(ReadArtifact(c))
  BY <1>1 DEF GoodResults, ReadArtifact
<1> QED BY <1>2, <1>3, <1>4, <1>5, <1>6

(* A change of the workspace by a command or a patch leaves a workspace. *)
LEMMA ChangesAreDisks ==
  ASSUME Before
  PROVE  Changes \subseteq Disks
<1>1. ASSUME NEW p \in {q \in Paths \ {"reports"} : ~Orphan(disk, q)},
             NEW x \in {"missing", "text", "binary"}
      PROVE  Changed(p, x) \in Disks
  BY <1>1 DEF Before, Disks, Changed, Paths, Contents, Parent, Orphan
<1>2. ASSUME NEW x \in {"missing", "dir"} PROVE Changed("reports", x) \in Disks
  BY <1>2 DEF Before, Disks, Changed, Paths, Contents, Parent, Orphan
<1> QED BY <1>1, <1>2 DEF Changes, Before

LEMMA ChangingTools ==
  ASSUME Before, NEW c
  PROVE  GoodResults(ApplyPatch(c)) /\ GoodResults(ExecCommand(c))
<1>1. GoodResults({Rejected, Failed, Raised, Applied("small")})
  BY NamedResults DEF GoodResults, Sizes
<1>2. ASSUME NEW d \in Changes, NEW r \in {Applied("small"), Failed, Raised}
      PROVE  /\ GoodResult([r EXCEPT !.disk = d])
             /\ GoodResult([r EXCEPT !.disk = d, !.leaves = TRUE])
  BY <1>2, ChangesAreDisks DEF Before, GoodResult, Applied, Failed, Raised, Returns, Ends, Sizes
<1>3. GoodResults(ApplyPatch(c))
  BY <1>1, <1>2 DEF GoodResults, ApplyPatch
<1>4. GoodResults(ExecCommand(c))
  BY <1>1, <1>2 DEF GoodResults, ExecCommand
<1> QED BY <1>3, <1>4

(* write_file. *)
LEMMA WritingTool ==
  ASSUME Before, NEW c, MayMake(c), c.tool = "write_file"
  PROVE  GoodResults(WriteFile(c))
<1> DEFINE made == IF c.dirs
                   THEN [q \in Paths |-> IF q \in Parent(c.path) THEN "dir" ELSE disk[q]]
                   ELSE disk
           written(x) == [made EXCEPT ![c.path] = x]
<1>0. GoodResults({Rejected, Failed})
  BY NamedResults DEF GoodResults, Sizes
<1>1. made \in Disks
  BY DEF Before, Disks, Paths, Contents, Parent, Orphan
<1>2. ASSUME c.path \in Paths, ~Orphan(made, c.path),
             NEW x \in {"empty", "text", "long", "binary"}
      PROVE  written(x) \in Disks /\ written(x)[c.path] # "missing"
  BY <1>1, <1>2 DEF MayMake, Disks, Paths, Contents, Parent, Orphan
<1> HIDE DEF made
<1>3. ASSUME NEW d \in Disks
      PROVE  GoodResult([Rejected EXCEPT !.disk = d]) /\ GoodResult([Failed EXCEPT !.disk = d])
  BY <1>3 DEF Before, GoodResult, Rejected, Failed, Returns, Ends, Sizes
<1>4. ASSUME c.path \in Paths, NEW d \in Disks, d[c.path] # "missing"
      PROVE  GoodResult([Applied("small") EXCEPT !.disk = d, !.wrote = {c.path},
                                                 !.work = Recorded(c.path)])
  BY <1>4 DEF Before, GoodResult, Applied, Returns, Ends, Sizes, Recorded, Rows
<1>5. CASE ~MayWrite \/ ~Inside(c.path) \/ Orphan(made, c.path) \/ disk[c.path] = "dir"
  BY <1>0, <1>5 DEF GoodResults, WriteFile, made
<1>6. CASE MayWrite /\ Inside(c.path) /\ ~Orphan(made, c.path) /\ disk[c.path] # "dir"
  <2>1. c.path \in Paths
    BY <1>6 DEF Inside
  <2>2. CASE c.arg = "surrogate"
    <3>1. WriteFile(c) = {[Rejected EXCEPT !.disk = written("empty")]}
      BY <1>6, <2>2 DEF WriteFile, made
    <3> QED BY <1>2, <1>3, <1>6, <2>1, <3>1 DEF GoodResults
  <2>3. CASE c.arg # "surrogate"
    <3>1. WriteFile(c) =
            {[Applied("small") EXCEPT !.disk = written(c.arg), !.wrote = {c.path},
                                      !.work = Recorded(c.path)],
             [Failed EXCEPT !.disk = made], [Failed EXCEPT !.disk = written("empty")]}
      BY <1>6, <2>3 DEF WriteFile, made
    <3>2. c.arg \in {"empty", "text", "long", "binary"}
      BY <2>3 DEF MayMake
    <3>3. written(c.arg) \in Disks /\ written(c.arg)[c.path] # "missing"
      BY <1>2, <1>6, <2>1, <3>2
    <3>4. written("empty") \in Disks
      BY <1>2, <1>6, <2>1
    <3> HIDE DEF written
    <3> QED BY <1>1, <1>3, <1>4, <2>1, <3>1, <3>3, <3>4 DEF GoodResults
  <2> QED BY <2>2, <2>3
<1> QED BY <1>5, <1>6

(* The artifact store. *)
LEMMA StoringTools ==
  ASSUME Before, NEW x \in Contents, NEW invalid \in {Rejected, Raised}
  PROVE  GoodResults(Stored(x, invalid))
<1> DEFINE n == Len(store) + 1
<1>1. /\ WithFile(x) \in Seq(Contents)
      /\ DOMAIN WithFile(x) = 1..n
      /\ WithFile(x)[n] = x
      /\ \A i \in DOMAIN store : i \in DOMAIN WithFile(x) /\ WithFile(x)[i] = store[i]
  BY DEF Before, WithFile
<1>2. /\ WithArtifact(x).artifacts \in Artifacts
      /\ DOMAIN WithArtifact(x).artifacts = DOMAIN work.artifacts \cup {n}
      /\ \A i \in DOMAIN WithArtifact(x).artifacts :
           WithArtifact(x).artifacts[i] =
             IF i \in DOMAIN work.artifacts THEN work.artifacts[i] ELSE x
  <2>1. PICK D \in SUBSET Nat : work.artifacts \in [D -> Contents]
    BY DEF Before, Rows, Artifacts
  <2>2. n \in Nat
    BY DEF Before
  <2>3. WithArtifact(x).artifacts =
          [i \in D \cup {n} |-> IF i \in D THEN work.artifacts[i] ELSE x]
    BY <2>1 DEF WithArtifact, Before, Rows
  <2>4. [i \in D \cup {n} |-> IF i \in D THEN work.artifacts[i] ELSE x]
          \in [D \cup {n} -> Contents]
    BY <2>1
  <2>5. [i \in D \cup {n} |-> IF i \in D THEN work.artifacts[i] ELSE x] \in Artifacts
    <3>1. D \cup {n} \in SUBSET Nat
      BY <2>2
    <3> HIDE DEF n
    <3> QED BY <2>4, <3>1 DEF Artifacts
  <2>6. DOMAIN work.artifacts = D
    BY <2>1
  <2> HIDE DEF n
  <2> QED BY <2>3, <2>5, <2>6
<1>3. /\ WithArtifact(x) \in Rows
      /\ WithArtifact(x).records = work.records
      /\ WithArtifact(x).paths = work.paths
  BY <1>2 DEF WithArtifact, Before, Rows
<1> DEFINE r == [Applied("small") EXCEPT !.store = WithFile(x), !.work = WithArtifact(x)]
<1>4. /\ r.status = "applied" /\ r.disk = disk /\ r.store = WithFile(x)
      /\ r.work = WithArtifact(x) /\ r.size = "small" /\ r.wrote = {}
  BY DEF Applied, Returns
<1>5. GoodResult(r)
  <2>1. \A i \in DOMAIN r.work.artifacts : i \in DOMAIN r.store /\ r.store[i] = r.work.artifacts[i]
    <3> SUFFICES ASSUME NEW i \in DOMAIN WithArtifact(x).artifacts
                 PROVE  /\ i \in DOMAIN WithFile(x)
                        /\ WithFile(x)[i] = WithArtifact(x).artifacts[i]
      BY <1>4
    <3>1. CASE i \in DOMAIN work.artifacts
      BY <1>1, <1>2, <3>1 DEF Before
    <3>2. CASE i \notin DOMAIN work.artifacts
      BY <1>1, <1>2, <3>2 DEF Before
    <3> QED BY <3>1, <3>2
  <2> HIDE DEF r
  <2> QED BY <1>1, <1>3, <1>4, <2>1 DEF GoodResult, Before, Ends, Sizes
<1>6. GoodResult(Raised)
  BY NamedResults DEF GoodResults, Sizes
<1>7. GoodResult([invalid EXCEPT !.store = WithFile(x)])
  BY <1>1 DEF Before, GoodResult, Rejected, Raised, Returns, Ends, Sizes
<1> QED BY <1>5, <1>6, <1>7 DEF GoodResults, Stored

LEMMA ArtifactTools ==
  ASSUME Before, NEW c, MayMake(c)
  PROVE  /\ c.tool = "write_artifact" => GoodResults(WriteArtifact(c))
         /\ GoodResults(RegisterWorkspaceFile(c))
         /\ GoodResults(WriteFinalReport(c))
         /\ GoodResults(Elsewhere(c))
<1>0. GoodResults({Rejected, Raised, Applied("small")})
  BY NamedResults DEF GoodResults, Sizes
<1>1. c.tool = "write_artifact" => GoodResults(WriteArtifact(c))
  BY <1>0, StoringTools DEF GoodResults, WriteArtifact, MayMake
<1>2. GoodResults(RegisterWorkspaceFile(c))
  <2>1. Inside(c.path) => disk[c.path] \in Contents
    BY DEF Inside, Before, Disks
  <2> QED BY <1>0, <2>1, StoringTools DEF GoodResults, RegisterWorkspaceFile, There
<1>3. GoodResult([Applied("small") EXCEPT !.work.report = TRUE])
  BY DEF Before, GoodResult, Applied, Returns, Ends, Sizes, Rows
<1>4. GoodResult([Applied("small") EXCEPT !.stops = TRUE])
  BY DEF Before, GoodResult, Applied, Returns, Ends, Sizes
<1>5. GoodResults(WriteFinalReport(c)) /\ GoodResults(Elsewhere(c))
  BY <1>0, <1>3, <1>4 DEF GoodResults, WriteFinalReport, Elsewhere
<1> QED BY <1>1, <1>2, <1>5
(* Whatever tool the call names, of those the registry has. *)
LEMMA AllResults ==
  ASSUME Before, NEW c, MayMake(c), NEW r \in Results(c),
         c.tool \in Tools
  PROVE  GoodResult(r)
BY ReadingTools, ChangingTools, WritingTool, ArtifactTools DEF Results, GoodResults, Tools
-----------------------------------------------------------------------------
(* The inductive invariant, in three parts. *)

Mid == pc = "tool" \/ (pc = "result" /\ queue[1].tool \notin Refused)

(* Types; the session is ahead of the row only with a result to record. *)
Typed ==
  /\ kit \in Kits
  /\ disk \in Disks
  /\ removed \subseteq {p \in Paths : disk[p] = "missing"}
  /\ store \in Seq(Contents)
  /\ work \in Rows /\ row \in Rows
  /\ pc \in {"turn", "call", "tool", "result", "done"}
  /\ run \in Nat /\ turns \in Nat /\ blocks \in Nat
  /\ truth \in Seq(Ends \cup {"none"})
  /\ queue \in Seq(Calls)
  /\ pc # "result" => work = row
  /\ pc \in {"call", "tool", "result"} => queue # <<>>
  /\ pc = "turn" => queue = <<>>
  /\ turns <= MaxTurns
  /\ pc # "done" => blocks < 2
  /\ pc = "result" => /\ result.status \in Ends /\ result.size \in Sizes
                      /\ result.wrote \subseteq Paths

(* The files behind the row, in the session's view and as committed. *)
Backed ==
  /\ row.paths \subseteq work.paths
  /\ \A p \in work.paths : disk[p] # "missing" \/ p \in removed
  /\ \A i \in DOMAIN work.artifacts : i \in DOMAIN store /\ store[i] = work.artifacts[i]
  /\ \A i \in DOMAIN row.artifacts : i \in DOMAIN store /\ store[i] = row.artifacts[i]

(* The calls still to run have later numbers than every record, and the call
   being run has the last record, alone of its tool and number.             *)
Queued ==
  /\ \A k \in DOMAIN queue : MayMake(queue[k]) /\ queue[k].number \in DOMAIN truth
  /\ \A j, k \in DOMAIN queue : j < k => queue[j].number < queue[k].number
Tied ==
  /\ work.records = row.records
  /\ \A i \in DOMAIN row.records :
       /\ row.records[i].tool \notin Refused
       /\ row.records[i].run <= run
       /\ row.records[i].call \in DOMAIN truth
  /\ Mid => /\ Len(row.records) > 0
            /\ row.records[Len(row.records)] =
                 [tool |-> queue[1].tool, run |-> run, call |-> queue[1].number,
                  status |-> "running"]
  /\ \A i \in DOMAIN row.records : \A k \in DOMAIN queue :
       \/ row.records[i].call < queue[k].number
       \/ Mid /\ i = Len(row.records) /\ k = 1
Told ==
  \A i \in DOMAIN row.records :
    LET r == row.records[i] IN
    IF r.status # "running" THEN truth[r.call] = r.status
    ELSE r.run < run \/ truth[r.call] = "raised" \/ (Mid /\ i = Len(row.records))

IInv == Typed /\ Backed /\ Queued /\ Tied /\ Told
USE DEF Refused

LEMMA LastOpen ==
  ASSUME NEW records \in Seq(Records), NEW c, NEW n \in Nat, n = Len(records), n > 0,
         records[n].tool = c.tool, records[n].run = run, records[n].status = "running"
  PROVE  Max(Open(records, c)) = n
<1> DEFINE S == Open(records, c)
<1>1. n \in S /\ S \subseteq 1..n
  BY DEF Open
<1>2. \A x \in S : (\A y \in S : x >= y) => x = n
  BY <1>1
<1>3. \A y \in S : n >= y
  BY <1>1
<1> HIDE DEF S
<1>4. Max(S) = n
  BY <1>1, <1>2, <1>3 DEF Max
<1> QED BY <1>4 DEF S

(* The initial state satisfies the invariant. *)
THEOREM Initial ==
  Init => IInv
<1> SUFFICES ASSUME Init PROVE IInv
  OBVIOUS
<1>1. disk \in Disks
  BY DEF Init, Disks, Paths, Contents, Orphan, Parent
<1>2. row \in Rows
  <2>1. <<>> \in Artifacts
    <3>1. {} \in SUBSET Nat /\ <<>> \in [{} -> Contents]
      OBVIOUS
    <3> QED BY <3>1 DEF Artifacts
  <2> QED BY <2>1 DEF Init, Rows
<1>3. Typed
  BY <1>1, <1>2, ToolLoopAssumption DEF Init, Typed
<1>4. Backed
  BY DEF Init, Backed
<1>5. Queued /\ Tied /\ Told
  BY DEF Init, Queued, Tied, Told, Mid
<1> QED BY <1>3, <1>4, <1>5 DEF IInv

LEMMA CallingStep ==
  ASSUME IInv, ModelCallsTools
  PROVE  IInv'
<1> USE DEF IInv
<1>0. PICK n \in 1..MaxBatch : \E batch \in [1..n -> kit.calls] :
        /\ queue' = Numbered(batch)
        /\ truth' = truth \o [k \in 1..n |-> "none"]
  BY DEF ModelCallsTools
<1>1. PICK batch \in [1..n -> kit.calls] :
        /\ queue' = Numbered(batch)
        /\ truth' = truth \o [k \in 1..n |-> "none"]
  BY <1>0
<1>2. n \in Nat /\ n > 0
  BY <1>0, ToolLoopAssumption
<1>3. /\ truth' \in Seq(Ends \cup {"none"})
      /\ Len(truth') = Len(truth) + n
      /\ \A i \in DOMAIN truth : i \in DOMAIN truth' /\ truth'[i] = truth[i]
  <2>1. [k \in 1..n |-> "none"] \in Seq(Ends \cup {"none"}) /\ Len([k \in 1..n |-> "none"]) = n
    BY <1>2
  <2> QED BY <1>1, <1>2, <2>1 DEF Typed
<1>4. \A k \in 1..n : MayMake(batch[k])
  BY <1>1, KitsAssumption DEF Typed
<1>5. /\ queue' \in Seq(Calls)
      /\ DOMAIN queue' = 1..n
      /\ queue' # <<>>
      /\ \A k \in 1..n : MayMake(queue'[k]) /\ queue'[k].number = Len(truth) + k
  <2>1. \A k \in 1..n : [batch[k] EXCEPT !.number = Len(truth) + k] \in Calls
    <3>1. \A k \in 1..n : batch[k] \in Calls
      BY <1>4 DEF MayMake
    <3>2. \A k \in 1..n : Len(truth) + k \in Nat
      BY <1>2 DEF Typed
    <3> QED BY <3>1, <3>2 DEF Calls
  <2>2. queue' = [k \in 1..n |-> [batch[k] EXCEPT !.number = Len(truth) + k]]
    BY <1>1 DEF Numbered
  <2>3. queue' \in Seq(Calls) /\ Len(queue') = n
    <3>1. queue' \in [1..n -> Calls]
      BY <2>1, <2>2
    <3> QED BY <1>2, <3>1
  <2>4. ASSUME NEW k \in 1..n PROVE MayMake(queue'[k]) /\ queue'[k].number = Len(truth) + k
    BY <1>4, <2>1, <2>2 DEF MayMake, Calls
  <2> QED BY <1>2, <2>2, <2>3, <2>4
<1>6. Typed'
  <2>1. turns' \in Nat /\ turns' <= MaxTurns
    BY ToolLoopAssumption DEF ModelCallsTools, Typed
  <2>2. UNCHANGED <<kit, disk, removed, store, row, work, run, blocks>> /\ pc = "turn"
        /\ pc' = "call"
    BY DEF ModelCallsTools, files
  <2> QED BY <1>3, <1>5, <2>1, <2>2 DEF Typed
<1>7. Backed'
  BY DEF ModelCallsTools, Backed, files
<1>8. Queued'
  <2>1. Len(truth) \in Nat /\ truth' \in Seq(Ends \cup {"none"})
    BY <1>3 DEF Typed
  <2>2. \A k \in 1..n : MayMake(queue'[k]) /\ queue'[k].number \in DOMAIN truth'
    BY <1>2, <1>3, <1>5, <2>1
  <2>3. \A j, k \in 1..n : j < k => queue'[j].number < queue'[k].number
    BY <1>2, <1>5, <2>1
  <2> QED BY <1>5, <2>2, <2>3 DEF Queued
<1>9. Tied'
  BY <1>2, <1>3, <1>5 DEF ModelCallsTools, Tied, Typed, Mid
<1>10. Told'
  BY <1>3 DEF ModelCallsTools, Told, Tied, Typed, Mid
<1> QED BY <1>6, <1>7, <1>8, <1>9, <1>10

LEMMA StoppingSteps ==
  ASSUME IInv, ModelStops \/ ExceedTurns
  PROVE  IInv'
<1> USE DEF IInv
<1>1. UNCHANGED <<kit, files, row, work, run, queue, truth>> /\ pc = "turn"
      /\ pc' \in {"turn", "done"}
  BY DEF ModelStops, ExceedTurns, loop, AfterBlock
<1>2. ASSUME ModelStops PROVE Typed'
  <2>1. turns' \in Nat /\ turns' <= MaxTurns /\ blocks' \in Nat
    BY <1>2, ToolLoopAssumption DEF ModelStops, Typed
  <2>2. pc' = "turn" => blocks' < 2
    BY <1>2 DEF ModelStops, Typed, AfterBlock
  <2>3. run' = run
    BY <1>1
  <2> QED BY <1>1, <2>1, <2>2, <2>3 DEF Typed, files
<1>3. ASSUME ExceedTurns PROVE Typed'
  BY <1>1, <1>3 DEF ExceedTurns, Typed, files, loop
<1>4. Backed' /\ Queued'
  BY <1>1 DEF Backed, Queued, files
<1>5. Tied' /\ Told'
  BY <1>1 DEF Tied, Told, Mid
<1> QED BY <1>2, <1>4, <1>5, <1>3

LEMMA RefusingStep ==
  ASSUME IInv, RefuseCall
  PROVE  IInv'
<1> USE DEF IInv
<1>1. /\ UNCHANGED <<kit, files, row, work, loop, queue, truth>>
      /\ pc = "call" /\ pc' = "result" /\ queue[1].tool \in Refused
      /\ result' \in {Failed, Rejected}
  BY DEF RefuseCall, Typed, loop
<1>2. Typed'
  BY <1>1 DEF Typed, files, loop, Failed, Rejected, Returns, Ends, Sizes
<1>3. Backed' /\ Queued'
  BY <1>1 DEF Backed, Queued, files
<1>4. Tied' /\ Told'
  BY <1>1 DEF Tied, Told, Mid, loop
<1> QED BY <1>2, <1>3, <1>4

LEMMA RecordingStep ==
  ASSUME IInv, RecordCall
  PROVE  IInv'
<1> USE DEF IInv
<1> DEFINE c == queue[1]
           new == [tool |-> c.tool, run |-> run, call |-> c.number, status |-> "running"]
<1>1. /\ UNCHANGED <<kit, files, loop, queue, truth>>
      /\ pc = "call" /\ pc' = "tool" /\ c.tool \notin Refused
      /\ work' = [work EXCEPT !.records = Append(@, new)] /\ row' = work'
  <2>1. pc = "call" /\ Head(queue) = c
    BY DEF RecordCall, Typed
  <2>2. work' = [work EXCEPT !.records = Opened(@, c)] /\ row' = work'
    BY <2>1 DEF RecordCall, Commit
  <2> QED BY <2>1, <2>2 DEF RecordCall, Opened, loop
<1>2. 1 \in DOMAIN queue /\ c \in Calls
  BY <1>1 DEF Typed
<1>3. new \in Records
  BY <1>2 DEF Records, Calls, Typed
<1> HIDE DEF new
<1>4. /\ work' \in Rows /\ work'.records = Append(row.records, new)
      /\ work'.paths = work.paths /\ work'.artifacts = work.artifacts
  <2>1. work = row /\ work.records \in Seq(Records)
    BY <1>1 DEF Typed, Rows
  <2>2. Append(work.records, new) \in Seq(Records)
    BY <1>3, <2>1
  <2>3. work \in Rows
    BY DEF Typed
  <2> QED BY <1>1, <2>1, <2>2, <2>3 DEF Rows
<1>5. /\ Len(row'.records) = Len(row.records) + 1
      /\ row'.records[Len(row.records) + 1] = new
      /\ \A i \in DOMAIN row.records : row'.records[i] = row.records[i]
      /\ DOMAIN row'.records = DOMAIN row.records \cup {Len(row.records) + 1}
  BY <1>1, <1>3, <1>4 DEF Typed, Rows
<1>6. Typed'
  BY <1>1, <1>4 DEF Typed, files, loop
<1>7. Backed' /\ Queued'
  BY <1>1, <1>4 DEF Backed, Queued, files
<1>8. new.tool = c.tool /\ new.run = run /\ new.call = c.number /\ new.status = "running"
  BY DEF new
<1>9. Tied'
  <2>1. \A i \in DOMAIN row'.records :
          /\ row'.records[i].tool \notin Refused
          /\ row'.records[i].run <= run
          /\ row'.records[i].call \in DOMAIN truth
    <3>1. c.number \in DOMAIN truth
      BY <1>2 DEF Queued
    <3>2. \A i \in DOMAIN row.records :
            /\ row.records[i].tool \notin Refused
            /\ row.records[i].run <= run
            /\ row.records[i].call \in DOMAIN truth
      BY DEF Tied
    <3>3. run <= run
      BY DEF Typed
    <3> QED BY <1>1, <1>5, <1>8, <3>1, <3>2, <3>3
  <2>2. Len(row'.records) > 0 /\ row'.records[Len(row'.records)] = new
    BY <1>4, <1>5 DEF Typed, Rows
  <2>3. \A i \in DOMAIN row.records : \A k \in DOMAIN queue :
          row.records[i].call < queue[k].number
    BY <1>1 DEF Tied, Mid
  <2>4. \A k \in DOMAIN queue : k # 1 => new.call < queue[k].number
    BY <1>2, <1>8 DEF Queued, Typed
  <2> QED BY <1>1, <1>5, <2>1, <2>2, <2>3, <2>4 DEF Tied, Mid, loop, new
<1>10. Told'
  BY <1>1, <1>5, <1>8 DEF Told, Mid, loop
<1> QED BY <1>6, <1>7, <1>9, <1>10

LEMMA RunningStep ==
  ASSUME IInv, RunTool
  PROVE  IInv'
<1> USE DEF IInv
<1>1. PICK r \in Results(Head(queue)) :
        /\ disk' = r.disk
        /\ removed' = (removed \cup {p \in work.paths : r.disk[p] = "missing"})
                        \ {p \in Paths : r.disk[p] # "missing"}
        /\ store' = r.store
        /\ work' = r.work
        /\ result' = r
  BY DEF RunTool
<1>2. /\ pc = "tool" /\ pc' = "result"
      /\ UNCHANGED <<row, loop, queue, truth>>
      /\ queue # <<>> /\ Head(queue) = queue[1] /\ 1 \in DOMAIN queue
  BY DEF RunTool, Typed
<1>3. GoodResult(r)
  <2>1. Before
    BY DEF Before, Typed, Backed
  <2>2. MayMake(queue[1])
    BY <1>2 DEF Queued
  <2>3. queue[1].tool \in Tools
    <3>1. queue[1].tool \notin Refused
      BY <1>2 DEF Tied, Mid
    <3> QED BY <2>2, <3>1 DEF MayMake
  <2> QED BY <1>1, <1>2, <2>1, <2>2, <2>3, AllResults
<1>4. Typed'
  <2>1. removed' \subseteq {p \in Paths : disk'[p] = "missing"}
    BY <1>1, <1>3 DEF Typed, Rows, GoodResult
  <2> QED BY <1>1, <1>2, <1>3, <2>1 DEF Typed, GoodResult, loop
<1>5. Backed'
  <2>1. row.paths \subseteq work'.paths
    BY <1>1, <1>3 DEF Backed, GoodResult
  <2>2. ASSUME NEW p \in work'.paths PROVE disk'[p] # "missing" \/ p \in removed'
    BY <1>1, <1>3 DEF GoodResult, Rows
  <2>3. \A i \in DOMAIN row.artifacts : i \in DOMAIN store' /\ store'[i] = row.artifacts[i]
    BY <1>1, <1>3 DEF Backed, GoodResult
  <2> QED BY <1>1, <1>2, <1>3, <2>1, <2>2, <2>3 DEF Backed, GoodResult
<1>6. Queued'
  BY <1>2 DEF Queued
<1>7. Tied' /\ Told'
  <2>1. work'.records = row.records
    BY <1>1, <1>3 DEF Tied, GoodResult
  <2>2. Mid /\ queue[1].tool \notin Refused
    BY <1>2 DEF Mid, Tied
  <2> QED BY <1>2, <2>1, <2>2 DEF Tied, Told, Mid, loop
<1> QED BY <1>4, <1>5, <1>6, <1>7
LEMMA ResultStep ==
  ASSUME IInv, RecordResult
  PROVE  IInv'
<1> USE DEF IInv
<1> DEFINE c == queue[1]
           n == Len(row.records)
           closes == result.status # "raised" /\ c.tool \notin Refused
<1>1. pc = "result" /\ Head(queue) = c /\ 1 \in DOMAIN queue /\ c \in Calls
  BY DEF RecordResult, Typed
<1>2. /\ UNCHANGED <<files, loop>>
      /\ truth' = [truth EXCEPT ![c.number] = result.status]
      /\ queue' = Tail(queue)
      /\ pc' \in {"turn", "call", "done"}
      /\ pc' = "turn" => Len(queue) = 1
      /\ pc' = "call" => Len(queue) # 1
      /\ row' = work'
      /\ result.status = "raised" => work' = work
      /\ result.status # "raised" =>
           work' = [work EXCEPT !.records = Completed(@, c, result.status)]
  BY <1>1 DEF RecordResult, Commit
<1>3. /\ work.records = row.records /\ row.records \in Seq(Records) /\ n \in Nat
      /\ work \in Rows /\ result.status \in Ends
  BY <1>1 DEF Typed, Tied, Rows
<1>4. c.tool \notin Refused =>
        /\ n > 0
        /\ row.records[n] = [tool |-> c.tool, run |-> run, call |-> c.number, status |-> "running"]
  BY <1>1 DEF Tied, Mid
<1>5. Completed(work.records, c, result.status) =
        IF c.tool \in Refused THEN row.records
        ELSE [row.records EXCEPT ![n].status = result.status]
  <2>1. CASE c.tool \in Refused
    <3>1. Open(row.records, c) = {}
      BY <2>1 DEF Open, Tied
    <3> QED BY <1>3, <2>1, <3>1 DEF Completed
  <2>2. CASE c.tool \notin Refused
    <3>1. Max(Open(row.records, c)) = n
      BY <1>3, <1>4, <2>2, LastOpen
    <3>2. n \in Open(row.records, c)
      BY <1>3, <1>4, <2>2 DEF Open
    <3> QED BY <1>3, <2>2, <3>1, <3>2 DEF Completed
  <2> QED BY <2>1, <2>2
<1>6. /\ work'.paths = work.paths /\ work'.artifacts = work.artifacts
      /\ work'.records = IF closes THEN [row.records EXCEPT ![n].status = result.status]
                         ELSE row.records
  BY <1>2, <1>3, <1>5 DEF Rows
<1>7. /\ DOMAIN row'.records = DOMAIN row.records
      /\ row'.records \in Seq(Records)
      /\ \A i \in DOMAIN row.records :
           /\ row'.records[i].tool = row.records[i].tool
           /\ row'.records[i].run = row.records[i].run
           /\ row'.records[i].call = row.records[i].call
           /\ row'.records[i].status =
                IF closes /\ i = n THEN result.status ELSE row.records[i].status
  <2>1. CASE closes
    <3> DEFINE new == [row.records[n] EXCEPT !.status = result.status]
    <3>1. n \in DOMAIN row.records /\ row.records[n] \in Records
      BY <1>3, <1>4, <2>1
    <3>2. /\ new \in Records /\ new.status = result.status
          /\ new.tool = row.records[n].tool /\ new.run = row.records[n].run
          /\ new.call = row.records[n].call
      BY <1>3, <3>1 DEF Records
    <3>3. row'.records = [row.records EXCEPT ![n] = new]
      BY <1>2, <1>6, <2>1
    <3> HIDE DEF n, new
    <3>4. /\ DOMAIN row'.records = DOMAIN row.records
          /\ row'.records \in Seq(Records)
          /\ \A i \in DOMAIN row.records :
               row'.records[i] = IF i = n THEN new ELSE row.records[i]
      BY <1>3, <3>1, <3>2, <3>3
    <3> HIDE DEF closes
    <3> QED BY <2>1, <3>2, <3>4
  <2>2. CASE ~closes
    BY <1>2, <1>3, <1>6, <2>2
  <2> QED BY <2>1, <2>2
<1>8. work' \in Rows
  BY <1>2, <1>3, <1>6, <1>7 DEF Rows
<1>9. /\ queue' \in Seq(Calls) /\ Len(queue') = Len(queue) - 1
      /\ \A k \in DOMAIN queue' : k + 1 \in DOMAIN queue /\ queue'[k] = queue[k + 1]
  BY <1>1, <1>2 DEF Typed
<1>10. /\ truth' \in Seq(Ends \cup {"none"}) /\ DOMAIN truth' = DOMAIN truth
       /\ c.number \in DOMAIN truth
       /\ \A j \in DOMAIN truth :
            truth'[j] = IF j = c.number THEN result.status ELSE truth[j]
  <2>1. c.number \in DOMAIN truth
    BY <1>1 DEF Queued
  <2> QED BY <1>2, <1>3, <2>1 DEF Typed
<1>11. Typed'
  <2>1. pc' = "turn" => queue' = <<>>
    BY <1>2, <1>9
  <2>2. pc' = "call" => queue' # <<>>
    <3>1. CASE pc' = "call"
      <4>1. Len(queue) # 1 /\ Len(queue) \in Nat
        BY <1>2, <3>1 DEF Typed
      <4>2. Len(queue') # 0
        BY <1>9, <4>1
      <4> QED BY <4>2
    <3> QED BY <3>1
  <2>3. turns <= MaxTurns /\ blocks < 2
    BY <1>1 DEF Typed
  <2> QED BY <1>1, <1>2, <1>8, <1>9, <1>10, <2>1, <2>2, <2>3 DEF Typed, files, loop
<1>12. Backed'
  BY <1>2, <1>6 DEF Backed, files
<1>13. Queued'
  <2>1. \A k \in DOMAIN queue' : MayMake(queue'[k]) /\ queue'[k].number \in DOMAIN truth'
    BY <1>9, <1>10 DEF Queued
  <2>2. ASSUME NEW j \in DOMAIN queue', NEW k \in DOMAIN queue', j < k
        PROVE  queue'[j].number < queue'[k].number
    <3>1. j + 1 < k + 1
      BY <1>9, <2>2
    <3> QED BY <1>9, <3>1 DEF Queued
  <2> QED BY <2>1, <2>2 DEF Queued
<1>14. ~Mid'
  BY <1>2 DEF Mid
<1>15. Tied'
  <2>1. \A i \in DOMAIN row'.records : \A k \in DOMAIN queue' :
          row'.records[i].call < queue'[k].number
    <3> SUFFICES ASSUME NEW i \in DOMAIN row'.records, NEW k \in DOMAIN queue'
                 PROVE  row'.records[i].call < queue'[k].number
      OBVIOUS
    <3>1. k \in Nat \ {0} /\ k + 1 \in DOMAIN queue /\ k + 1 # 1 /\ queue'[k] = queue[k + 1]
      BY <1>9
    <3>2. i \in DOMAIN row.records /\ row.records[i].call < queue[k + 1].number
      BY <1>7, <3>1 DEF Tied
    <3> QED BY <1>7, <3>1, <3>2
  <2> QED BY <1>2, <1>7, <1>10, <1>14, <2>1 DEF Tied, loop
<1>16. Told'
  <2> SUFFICES ASSUME NEW i \in DOMAIN row'.records
               PROVE  IF row'.records[i].status # "running"
                      THEN truth'[row'.records[i].call] = row'.records[i].status
                      ELSE row'.records[i].run < run' \/ truth'[row'.records[i].call] = "raised"
    BY DEF Told
  <2>1. row.records[i].call \in DOMAIN truth /\ i \in DOMAIN row.records
    BY <1>7 DEF Tied
  <2>2. CASE Mid /\ i = n
    BY <1>1, <1>3, <1>4, <1>7, <1>10, <2>1, <2>2 DEF Mid, Ends
  <2>3. CASE ~(Mid /\ i = n)
    <3>1. row.records[i].call # c.number
      BY <1>1, <1>3, <2>1, <2>3 DEF Tied, Typed, Calls
    <3>2. row'.records[i].status = row.records[i].status
      BY <1>1, <1>7, <2>1, <2>3 DEF Mid
    <3>3. IF row.records[i].status # "running"
          THEN truth[row.records[i].call] = row.records[i].status
          ELSE row.records[i].run < run \/ truth[row.records[i].call] = "raised"
      BY <2>1, <2>3 DEF Told
    <3>4. truth'[row.records[i].call] = truth[row.records[i].call] /\ run' = run
      BY <1>2, <1>10, <2>1, <3>1 DEF loop
    <3> QED BY <1>7, <2>1, <3>2, <3>3, <3>4
  <2> QED BY <2>2, <2>3
<1> QED BY <1>11, <1>12, <1>13, <1>15, <1>16

LEMMA LeftoverStep ==
  ASSUME IInv, LeftoverWrites
  PROVE  IInv'
<1> USE DEF IInv
<1>1. disk' \in Disks
  BY ChangesAreDisks DEF LeftoverWrites, Before, Typed, Backed
<1>2. UNCHANGED <<store, row, work, pc, loop, queue, result, truth>>
  BY DEF LeftoverWrites
<1>3. removed' = (removed \cup {p \in work.paths : disk'[p] = "missing"})
                   \ {p \in Paths : disk'[p] # "missing"}
  BY DEF LeftoverWrites
<1>4. Typed'
  BY <1>1, <1>2, <1>3 DEF Typed, Rows, loop
<1>5. Backed'
  BY <1>2, <1>3 DEF Typed, Rows, Backed
<1>6. Queued' /\ Tied' /\ Told'
  BY <1>2 DEF Queued, Tied, Told, Mid, loop
<1> QED BY <1>4, <1>5, <1>6

LEMMA EpisodeSteps ==
  ASSUME IInv, Resume \/ Crash
  PROVE  IInv'
<1> USE DEF IInv
<1>1. /\ UNCHANGED <<kit, files, row, truth>>
      /\ work' = row /\ run' = run + 1 /\ turns' = 0 /\ blocks' = 0
      /\ pc' = "turn" /\ queue' = <<>>
  BY DEF Resume, Crash, NewEpisode
<1>2. Typed'
  BY <1>1, ToolLoopAssumption DEF Typed, files
<1>3. Backed'
  BY <1>1 DEF Backed, files
<1>4. \A i \in DOMAIN row.records : row.records[i].run \in Nat /\ row.records[i].run <= run
  <2>1. row.records \in Seq(Records)
    BY DEF Typed, Rows
  <2>2. \A i \in DOMAIN row.records : row.records[i] \in Records
    BY <2>1
  <2> QED BY <2>2 DEF Records, Tied
<1>5. run \in Nat /\ ~Mid'
  BY <1>1 DEF Typed, Mid
<1>6. Queued' /\ Tied'
  BY <1>1, <1>4, <1>5 DEF Queued, Tied
<1>7. Told'
  BY <1>1, <1>4, <1>5 DEF Told
<1> QED BY <1>2, <1>3, <1>6, <1>7

(* Every step of the loop and of a tool keeps the invariant. *)
THEOREM Inductive ==
  ASSUME IInv, [Next]_vars
  PROVE  IInv'
<1>1. CASE Next
  BY <1>1, CallingStep, StoppingSteps, RefusingStep, RecordingStep, RunningStep, ResultStep,
     LeftoverStep, EpisodeSteps DEF Next
<1>2. CASE UNCHANGED vars
  BY <1>2 DEF vars, IInv, Typed, Backed, Queued, Tied, Told, Mid
<1> QED BY <1>1, <1>2

(* The invariant holds in every reachable state. *)
THEOREM Invariance ==
  Spec => []IInv
<1>1. Init => IInv
  BY Initial
<1>2. IInv /\ [Next]_vars => IInv'
  BY Inductive
<1> QED BY <1>1, <1>2, PTL DEF Spec
-----------------------------------------------------------------------------
(* TypeOK: the workspace stays a tree, the session is ahead of the row only
   while a result waits, there is a call where one is executed, and nobody
   is asked a third time to go on.                                          *)
THEOREM TypeCorrect ==
  Spec => []TypeOK
<1>1. IInv => TypeOK
  BY DEF IInv, Typed, Tied, TypeOK, Disks
<1> QED BY <1>1, Invariance, PTL

(* WorkspaceBacksRow: whatever tools are called, however they end and
   wherever the process dies, each recorded path is in the workspace or was
   removed by a command or patch, and each artifact row has its own content. *)
THEOREM FilesAreThere ==
  Spec => []WorkspaceBacksRow
<1>1. IInv => WorkspaceBacksRow
  BY DEF IInv, Backed, WorkspaceBacksRow
<1> QED BY <1>1, Invariance, PTL

(* RecordsTellTheTruth: a closed record has its own call's outcome, and a
   record of this run is left open between calls only by a call that raised. *)
THEOREM RecordsAreTrue ==
  Spec => []RecordsTellTheTruth
<1>1. IInv => RecordsTellTheTruth
  BY DEF IInv, Told, Mid, RecordsTellTheTruth
<1> QED BY <1>1, Invariance, PTL
-----------------------------------------------------------------------------
(* The conversation.  Each call of a turn is answered right behind the turn,
   in its order, or is still in the queue at the place it will be answered
   from.                                                                    *)

Messages == [role : {"system", "user", "assistant", "tool"}, calls : Seq(Nat), size : Sizes,
             wrote : SUBSET Paths, cleared : BOOLEAN]
Answered(ms, m, number) == m \in DOMAIN ms /\ ms[m].role = "tool" /\ ms[m].calls = <<number>>
Waiting(q, k, number) == k \in DOMAIN q /\ q[k].number = number
Settled(ms, q, i) ==
  ms[i].role = "assistant" =>
    \A k \in DOMAIN ms[i].calls :
      \/ Answered(ms, i + k, ms[i].calls[k])
      \/ i + k > Len(ms) /\ Waiting(q, i + k - Len(ms), ms[i].calls[k])
Talk ==
  /\ messages \in Seq(Messages)
  /\ \A i \in DOMAIN messages : Settled(messages, queue, i)

LEMMA PlainMessages ==
  ASSUME NEW role \in {"system", "user", "assistant", "tool"}
  PROVE  /\ Message(role) \in Messages /\ Message(role).role = role
         /\ Message(role).calls = <<>>
BY DEF Message, Messages, Sizes

LEMMA Appended ==
  ASSUME NEW S, NEW s \in Seq(S), NEW m \in S
  PROVE  /\ Append(s, m) \in Seq(S) /\ Len(Append(s, m)) = Len(s) + 1
         /\ \A i \in DOMAIN s : i \in DOMAIN Append(s, m) /\ Append(s, m)[i] = s[i]
         /\ DOMAIN Append(s, m) = DOMAIN s \cup {Len(s) + 1}
         /\ Append(s, m)[Len(s) + 1] = m
OBVIOUS

(* A message that ends no turn's answers: nothing is in the queue. *)
LEMMA SaysMore ==
  ASSUME NEW ms \in Seq(Messages), NEW q, NEW m \in Messages,
         \A i \in DOMAIN ms : Settled(ms, <<>>, i),
         m.role = "assistant" => \A k \in DOMAIN m.calls : Waiting(q, k, m.calls[k]) /\ k \in Nat \ {0}
  PROVE  /\ Append(ms, m) \in Seq(Messages)
         /\ \A i \in DOMAIN Append(ms, m) : Settled(Append(ms, m), q, i)
<1> DEFINE new == Append(ms, m)
           n == Len(ms)
<1>1. /\ new \in Seq(Messages) /\ Len(new) = n + 1 /\ n \in Nat
      /\ \A i \in DOMAIN ms : i \in DOMAIN new /\ new[i] = ms[i]
      /\ DOMAIN new = DOMAIN ms \cup {n + 1} /\ new[n + 1] = m
  BY Appended
<1> HIDE DEF new
<1>2. ASSUME NEW i \in DOMAIN ms
      PROVE  Settled(new, q, i)
  <2> SUFFICES ASSUME new[i].role = "assistant", NEW k \in DOMAIN new[i].calls
               PROVE  Answered(new, i + k, new[i].calls[k])
    BY DEF Settled
  <2>1. Answered(ms, i + k, ms[i].calls[k])
    BY <1>1 DEF Settled, Waiting
  <2> QED BY <1>1, <2>1 DEF Answered
<1>3. Settled(new, q, n + 1)
  <2> SUFFICES ASSUME m.role = "assistant", NEW k \in DOMAIN m.calls
               PROVE  n + 1 + k > Len(new) /\ Waiting(q, n + 1 + k - Len(new), m.calls[k])
    BY <1>1 DEF Settled
  <2>1. Waiting(q, k, m.calls[k]) /\ k \in Nat \ {0}
    OBVIOUS
  <2> HIDE DEF n
  <2>2. n + 1 + k > Len(new) /\ n + 1 + k - Len(new) = k
    BY <1>1, <2>1
  <2> QED BY <2>1, <2>2
<1> QED BY <1>1, <1>2, <1>3 DEF new

LEMMA AsksKeepTalk ==
  ASSUME IInv, Talk, ModelCallsTools
  PROVE  Talk'
<1>1. PICK n \in 1..MaxBatch : \E batch \in [1..n -> kit.calls] :
        /\ queue' = Numbered(batch)
        /\ messages' = Append(messages, [Message("assistant") EXCEPT
                                !.calls = [k \in 1..n |-> Len(truth) + k]])
  BY DEF ModelCallsTools
<1>2. PICK batch \in [1..n -> kit.calls] :
        /\ queue' = Numbered(batch)
        /\ messages' = Append(messages, [Message("assistant") EXCEPT
                                !.calls = [k \in 1..n |-> Len(truth) + k]])
  BY <1>1
<1>3. n \in Nat /\ Len(truth) \in Nat
  BY <1>1, ToolLoopAssumption DEF IInv, Typed
<1>4. \A k \in 1..n : batch[k] \in Calls
  <2>1. \A c \in kit.calls : c \in Calls
    BY KitsAssumption DEF IInv, Typed, MayMake
  <2> QED BY <1>2, <2>1
<1> DEFINE numbers == [k \in 1..n |-> Len(truth) + k]
           m == [Message("assistant") EXCEPT !.calls = numbers]
<1>5. numbers \in Seq(Nat) /\ DOMAIN numbers = 1..n
  <2>1. \A k \in 1..n : Len(truth) + k \in Nat
    BY <1>3
  <2>2. numbers \in [1..n -> Nat]
    BY <2>1
  <2> HIDE DEF numbers
  <2> QED BY <1>3, <2>2
<1>6. \A k \in 1..n : Waiting(queue', k, numbers[k]) /\ k \in Nat \ {0}
  <2> SUFFICES ASSUME NEW k \in 1..n
               PROVE  k \in DOMAIN queue' /\ queue'[k].number = Len(truth) + k /\ k \in Nat \ {0}
    BY DEF Waiting
  <2>1. DOMAIN queue' = 1..n /\ queue'[k] = [batch[k] EXCEPT !.number = Len(truth) + k]
    BY <1>2 DEF Numbered
  <2>2. batch[k] \in Calls
    BY <1>4
  <2> QED BY <1>3, <2>1, <2>2 DEF Calls
<1>7. m \in Messages /\ m.calls = numbers
  <2> HIDE DEF numbers
  <2> QED BY <1>5 DEF Message, Messages, Sizes
<1>8. queue = <<>>
  BY DEF ModelCallsTools, IInv, Typed
<1>9. messages' = Append(messages, m)
  BY <1>2
<1> HIDE DEF m, numbers
<1> QED BY <1>5, <1>6, <1>7, <1>8, <1>9, SaysMore DEF Talk

LEMMA StopsKeepTalk ==
  ASSUME IInv, Talk, ModelStops
  PROVE  Talk'
<1>1. queue = <<>> /\ queue' = queue
  BY DEF ModelStops, IInv, Typed
<1>2. CASE messages' = messages
  BY <1>1, <1>2 DEF Talk
<1>3. CASE messages' = messages \o <<Message("assistant"), Message("user")>>
  <2> DEFINE said == Append(messages, Message("assistant"))
  <2>1. Message("assistant") \in Messages /\ Message("user") \in Messages
    BY PlainMessages
  <2>2. messages' = Append(said, Message("user"))
    <3>1. \A S, a, b : \A s \in Seq(S) : a \in S /\ b \in S => s \o <<a, b>> = Append(Append(s, a), b)
      OBVIOUS
    <3> QED BY <1>3, <2>1, <3>1 DEF Talk
  <2>3. DOMAIN Message("assistant").calls = {}
    BY PlainMessages
  <2>4. said \in Seq(Messages) /\ \A i \in DOMAIN said : Settled(said, <<>>, i)
    BY <1>1, <2>1, <2>3, SaysMore DEF Talk
  <2> HIDE DEF said
  <2>5. Message("user").role # "assistant"
    BY PlainMessages
  <2>6. /\ Append(said, Message("user")) \in Seq(Messages)
        /\ \A i \in DOMAIN Append(said, Message("user")) :
             Settled(Append(said, Message("user")), <<>>, i)
    BY <2>1, <2>4, <2>5, SaysMore
  <2> QED BY <1>1, <2>2, <2>6 DEF Talk
<1> QED BY <1>2, <1>3 DEF ModelStops

LEMMA AnswersKeepTalk ==
  ASSUME IInv, Talk, RecordResult
  PROVE  Talk'
<1> DEFINE c == queue[1]
           m == Answer(c, result)
           n == Len(messages)
<1>1. /\ queue \in Seq(Calls) /\ queue # <<>> /\ Head(queue) = c /\ c \in Calls
      /\ queue' = Tail(queue) /\ messages' = Append(messages, m)
      /\ result.size \in Sizes /\ result.wrote \subseteq Paths
  BY DEF RecordResult, IInv, Typed
<1>2. m \in Messages /\ m.role = "tool" /\ m.calls = <<c.number>>
  <2>1. c.number \in Nat
    BY <1>1 DEF Calls
  <2>2. <<c.number>> \in Seq(Nat)
    BY <2>1
  <2>3. PICK a : a = [Message("tool") EXCEPT !.calls = <<c.number>>]
    OBVIOUS
  <2>4. a \in Messages /\ a.role = "tool" /\ a.calls = <<c.number>>
    BY <2>2, <2>3, PlainMessages DEF Messages
  <2>5. m = [a EXCEPT !.size = result.size, !.wrote = result.wrote]
    BY <2>3 DEF Answer
  <2> HIDE DEF m
  <2> QED BY <1>1, <2>4, <2>5 DEF Messages
<1> HIDE DEF m
<1>3. /\ messages' \in Seq(Messages) /\ Len(messages') = n + 1 /\ n \in Nat
      /\ \A i \in DOMAIN messages : i \in DOMAIN messages' /\ messages'[i] = messages[i]
      /\ DOMAIN messages' = DOMAIN messages \cup {n + 1} /\ messages'[n + 1] = m
  BY <1>1, <1>2, Appended DEF Talk
<1>4. ASSUME NEW k \in DOMAIN queue, k # 1
      PROVE  k - 1 \in DOMAIN queue' /\ queue'[k - 1] = queue[k]
  BY <1>1, <1>4
<1>5. ASSUME NEW i \in DOMAIN messages
      PROVE  Settled(messages', queue', i)
  <2> SUFFICES ASSUME messages[i].role = "assistant", NEW k \in DOMAIN messages[i].calls
               PROVE  \/ Answered(messages', i + k, messages[i].calls[k])
                      \/ /\ i + k > Len(messages')
                         /\ Waiting(queue', i + k - Len(messages'), messages[i].calls[k])
    BY <1>3 DEF Settled
  <2>1. CASE Answered(messages, i + k, messages[i].calls[k])
    BY <1>3, <2>1 DEF Answered
  <2>2. CASE i + k > n /\ Waiting(queue, i + k - n, messages[i].calls[k])
    <3>1. i \in Nat /\ k \in Nat
      <4>1. messages[i] \in Messages
        BY DEF Talk
      <4>2. messages[i].calls \in Seq(Nat)
        BY <4>1 DEF Messages
      <4> QED BY <4>2 DEF Talk
    <3>2. CASE i + k - n = 1
      <4>1. i + k = n + 1
        BY <1>3, <3>1, <3>2
      <4> QED BY <1>2, <1>3, <2>2, <3>2, <4>1 DEF Waiting, Answered
    <3>3. CASE i + k - n # 1
      <4> HIDE DEF n
      <4>1. i + k > n + 1
        BY <1>3, <2>2, <3>1, <3>3
      <4>2. PICK j : j = i + k - n
        OBVIOUS
      <4>3. Waiting(queue', j - 1, messages[i].calls[k])
        BY <1>4, <2>2, <3>3, <4>2 DEF Waiting
      <4>4. j - 1 = i + k - (n + 1)
        BY <1>3, <3>1, <4>2
      <4> QED BY <1>3, <4>1, <4>3, <4>4
    <3> QED BY <3>2, <3>3
  <2> QED BY <2>1, <2>2 DEF Talk, Settled
<1>6. Settled(messages', queue', n + 1)
  BY <1>2, <1>3 DEF Settled
<1> QED BY <1>3, <1>5, <1>6 DEF Talk

LEMMA TalkInductive ==
  ASSUME IInv, Talk, [Next]_vars
  PROVE  Talk'
<1>1. CASE Resume \/ Crash
  <2>1. messages' = <<Message("system"), Message("user")>>
    BY <1>1 DEF Resume, Crash, NewEpisode
  <2>2. Message("system") \in Messages /\ Message("user") \in Messages
        /\ Message("system").role = "system" /\ Message("user").role = "user"
    BY PlainMessages
  <2> QED BY <2>1, <2>2 DEF Talk, Settled
<1>2. CASE ExceedTurns \/ RefuseCall \/ RecordCall \/ RunTool \/ LeftoverWrites \/ UNCHANGED vars
  <2>1. UNCHANGED <<messages, queue>>
    BY <1>2 DEF ExceedTurns, RefuseCall, RecordCall, RunTool, LeftoverWrites, vars
  <2> QED BY <2>1 DEF Talk
<1> QED BY <1>1, <1>2, AsksKeepTalk, StopsKeepTalk, AnswersKeepTalk DEF Next

(* What Compacted does to a conversation. *)
LEMMA Compaction ==
  ASSUME NEW ms \in Seq(Messages)
  PROVE  LET sent == Compacted(ms)
             results == ToolMessages(ms)
         IN /\ DOMAIN sent = DOMAIN ms /\ Len(sent) = Len(ms)
            /\ \A i \in DOMAIN ms : sent[i].role = ms[i].role /\ sent[i].calls = ms[i].calls
                                    /\ sent[i].wrote = ms[i].wrote
            /\ \E latest \in SUBSET results :
                 /\ Cardinality(latest) =
                      IF Cardinality(results) < KeepRecent THEN Cardinality(results) ELSE KeepRecent
                 /\ \A i \in latest, j \in results \ latest : j < i
                 /\ \A i \in DOMAIN ms :
                      sent[i] = IF i \in results \ latest /\ ms[i].size = "large"
                                THEN Cleared(ms[i]) ELSE ms[i]
<1> DEFINE sent == Compacted(ms)
           results == ToolMessages(ms)
           n == Len(ms)
<1>1. n \in Nat /\ DOMAIN ms = 1..n /\ \A i \in 1..n : ms[i] \in Messages
  OBVIOUS
<1>2. \A m \in Messages : /\ Cleared(m) \in Messages /\ Cleared(m).role = m.role
                          /\ Cleared(m).calls = m.calls /\ Cleared(m).wrote = m.wrote
  BY DEF Messages, Cleared, Sizes
<1>3. \A i \in 1..n : sent[i] = IF i \in results \ Recent(ms) /\ ms[i].size = "large"
                                THEN Cleared(ms[i]) ELSE ms[i]
  BY <1>1 DEF Compacted
<1>4. sent \in [1..n -> Messages]
  BY <1>1, <1>2 DEF Compacted
<1>5. results \in SUBSET Nat /\ IsFiniteSet(results)
  <2>1. results \in SUBSET (1..n)
    BY <1>1 DEF ToolMessages
  <2> HIDE DEF n
  <2>2. IsFiniteSet(1..n)
    BY <1>1, FS_Interval
  <2> QED BY <1>1, <2>1, <2>2, FS_Subset
<1> HIDE DEF results
<1>6. KeepRecent \in Nat
  BY ToolLoopAssumption
<1>7. Recent(ms) = {i \in results : Cardinality({j \in results : j > i}) < KeepRecent}
  BY DEF Recent, results
<1>8. /\ Recent(ms) \in SUBSET results
      /\ Cardinality(Recent(ms)) =
           IF Cardinality(results) < KeepRecent THEN Cardinality(results) ELSE KeepRecent
      /\ \A i \in Recent(ms), j \in results \ Recent(ms) : j < i
  BY <1>5, <1>6, <1>7, LastOnes
<1>9. DOMAIN sent = DOMAIN ms /\ Len(sent) = Len(ms)
  <2> HIDE DEF sent, n
  <2>1. Len(sent) = n
    BY <1>1, <1>4
  <2> QED BY <1>1, <1>4, <2>1 DEF n
<1>10. \A i \in DOMAIN ms : sent[i].role = ms[i].role /\ sent[i].calls = ms[i].calls
                            /\ sent[i].wrote = ms[i].wrote
  BY <1>1, <1>2, <1>3
<1> HIDE DEF sent, n
<1> QED BY <1>1, <1>3, <1>8, <1>9, <1>10 DEF sent, results

(* RequestsAreWellFormed: what the model is sent is the conversation, with
   every call of the turns before answered in its place, the latest results
   whole and of the other results only the large ones shortened.            *)
THEOREM RequestsAreGood ==
  Spec => []RequestsAreWellFormed
<1>1. Init => Talk
  <2> SUFFICES ASSUME Init
               PROVE  Talk
    OBVIOUS
  <2>1. messages = <<Message("system"), Message("user")>>
    BY DEF Init
  <2>2. Message("system") \in Messages /\ Message("user") \in Messages
        /\ Message("system").role = "system" /\ Message("user").role = "user"
    BY PlainMessages
  <2> QED BY <2>1, <2>2 DEF Talk, Settled
<1>2. IInv /\ Talk => RequestsAreWellFormed
  <2> SUFFICES ASSUME IInv, Talk, pc = "turn"
               PROVE  RequestsAreWellFormed
    BY DEF RequestsAreWellFormed
  <2>1. queue = <<>> /\ messages \in Seq(Messages)
    BY DEF IInv, Typed, Talk
  <2>2. ASSUME NEW i \in DOMAIN messages, messages[i].role = "assistant",
               NEW k \in DOMAIN messages[i].calls
        PROVE  Answered(messages, i + k, messages[i].calls[k])
    BY <2>1, <2>2 DEF Talk, Settled, Waiting
  <2> DEFINE sent == Compacted(messages)
  <2>3. /\ DOMAIN sent = DOMAIN messages /\ Len(sent) = Len(messages)
        /\ \A i \in DOMAIN messages : /\ sent[i].role = messages[i].role
                                      /\ sent[i].calls = messages[i].calls
                                      /\ sent[i].wrote = messages[i].wrote
    BY <2>1, Compaction
  <2>4. ASSUME NEW i \in DOMAIN sent, sent[i].role = "assistant",
               NEW k \in DOMAIN messages[i].calls
        PROVE  /\ i + k \in DOMAIN sent /\ sent[i + k].role = "tool"
               /\ sent[i + k].calls = <<messages[i].calls[k]>>
    <3> HIDE DEF sent
    <3> QED BY <2>2, <2>3, <2>4 DEF Answered
  <2> QED BY <2>1, <2>3, <2>4, Compaction DEF RequestsAreWellFormed
<1> QED BY <1>1, <1>2, TalkInductive, Invariance, PTL DEF Spec
=============================================================================
