--------------------------- MODULE EventStreamProofs ---------------------------
(***************************************************************************)
(* Theorems about the specification of EventStream, which composes the     *)
(* artifact store, the stream of its events and the client that follows    *)
(* it.  The first half is about the store alone: its inductive invariant,  *)
(* for any contents, ports, attempts and budgets, says that committed rows *)
(* have their files, also while a transaction is open that may still fail  *)
(* or die, and that the outputs of a task are announced and become visible *)
(* all at once.  The second half adds the part of the stream and concludes *)
(* about the composition.                                                  *)
(***************************************************************************)
EXTENDS EventStream, FiniteSetTheorems, TLAPS

Events == [id : Nat, type : EventTypes, artifact : Artifacts \cup {NoArtifact}]
Transactions == [owner : Attempts, db : Databases, todo : SUBSET Ports, hash : [Ports -> Hashes]]
BlobStates == {"absent", "intact", "damaged"}
ChildStates == {"off", "running", "publishing", "failing", "looking", "marking", "telling"}
Stages == {"idle", "lease", "confirm", "stage one", "stage two"}
Collectors == [pc : Stages,
               manifest : SUBSET Artifacts, todo : SUBSET Artifacts,
               confirmed : SUBSET Artifacts, seen : [Hashes -> Nat]]

Outputs(d) == {a \in d.rows : a[1] \in Ports}
OutputPorts(d) == {a[1] : a \in Outputs(d)}
Announced(d) == {i \in DOMAIN d.log : d.log[i].type = "artifact.published"}

(* The log announces every output once.                                    *)
OutputsAnnounced(d) ==
    /\ IsFiniteSet(Outputs(d)) /\ IsFiniteSet(Announced(d))
    /\ Cardinality(Announced(d)) = Cardinality(Outputs(d))
    /\ {d.log[i].artifact : i \in Announced(d)} = Outputs(d)

(* An event that ends the run is written with the end.                     *)
EndIsTrue(d) ==
    \A i \in DOMAIN d.log : d.log[i].type \in {"run.completed", "run.failed"} => d.run # "running"

(* What holds of the database also in the middle of a transaction.         *)
DatabaseFits(d) ==
    /\ d \in Databases
    /\ OutputsAnnounced(d) /\ EndIsTrue(d)
    /\ d.task = "running" <=> d.holder # Nobody

HasBlobs(d) == \A a \in d.rows : blobs[HashOf(a)] # "absent"

CommittedFits ==
    /\ DatabaseFits(db) /\ HasBlobs(db)
    /\ db.task # "succeeded" => Outputs(db) = {}
    /\ db.task = "succeeded" => OutputPorts(db) = Ports

(* A transaction can be rolled back at any time: it has taken no file from *)
(* a committed row; and it publishes port by port.                         *)
OpenFits ==
    \/ txn = Closed
    \/ /\ txn \in Transactions
       /\ DatabaseFits(txn.db) /\ HasBlobs(txn.db)
       /\ db.rows \subseteq txn.db.rows
       /\ Len(db.log) <= Len(txn.db.log)
       /\ txn.db.holder = txn.owner => OutputPorts(txn.db) = Ports \ txn.todo

FilesFit ==
    /\ blobs \in [Hashes -> BlobStates] /\ mtime \in [Hashes -> Nat]
    /\ child \in [Attempts -> ChildStates]
    /\ gc \in Collectors

StoreIInv == CommittedFits /\ OpenFits /\ FilesFit

(* The log only grows.                                                     *)
LogGrows == Len(db.log) <= Len(db'.log)

-----------------------------------------------------------------------------
(* Databases: what an event, and a publication, change.                    *)
LEMMA LogEffect ==
    ASSUME NEW d \in Databases, NEW type \in EventTypes,
           NEW a \in Artifacts \cup {NoArtifact}
    PROVE  /\ Log(d, type, a) \in Databases
           /\ Log(d, type, a).rows = d.rows /\ Log(d, type, a).run = d.run
           /\ Log(d, type, a).task = d.task /\ Log(d, type, a).holder = d.holder
           /\ Len(Log(d, type, a).log) = Len(d.log) + 1
           /\ DOMAIN Log(d, type, a).log = DOMAIN d.log \cup {Len(d.log) + 1}
           /\ Len(d.log) + 1 \notin DOMAIN d.log
           /\ \A i \in DOMAIN d.log : Log(d, type, a).log[i] = d.log[i]
           /\ Log(d, type, a).log[Len(d.log) + 1].type = type
           /\ Log(d, type, a).log[Len(d.log) + 1].artifact = a
  <1> DEFINE e == [id |-> d.lastId + 1, type |-> type, artifact |-> a]
             new == Log(d, type, a)
  <1>1. d.log \in Seq(Events) /\ d.lastId \in Nat
    BY DEF Databases, Events
  <1>2. e \in Events /\ e.type = type /\ e.artifact = a
    BY <1>1 DEF Events
  <1>3. new = [d EXCEPT !.log = Append(d.log, e), !.lastId = d.lastId + 1]
    BY DEF Log, Databases
  <1> HIDE DEF e, new
  <1>4. /\ Append(d.log, e) \in Seq(Events) /\ Len(Append(d.log, e)) = Len(d.log) + 1
        /\ DOMAIN Append(d.log, e) = DOMAIN d.log \cup {Len(d.log) + 1}
        /\ Len(d.log) + 1 \notin DOMAIN d.log
        /\ \A i \in DOMAIN d.log : Append(d.log, e)[i] = d.log[i]
        /\ Append(d.log, e)[Len(d.log) + 1] = e
    BY <1>1, <1>2
  <1>5. /\ new.log = Append(d.log, e) /\ new.rows = d.rows /\ new.run = d.run
        /\ new.task = d.task /\ new.holder = d.holder
    BY <1>3 DEF Databases
  <1>6. new \in Databases
    <2> DEFINE logs == Seq(Events)
               rest == [rows : SUBSET Artifacts, inputs : SUBSET Artifacts,
                        leases : SUBSET Artifacts, old : SUBSET Artifacts,
                        run : RunStatuses, task : TaskStatuses,
                        attempts : 0 .. MaxAttempts, holder : {Nobody} \cup Attempts,
                        log : logs, lastId : Nat]
    <2>1. Databases = rest
      BY DEF Databases, Events
    <2>2. Append(d.log, e) \in logs /\ d.lastId + 1 \in Nat
      BY <1>1, <1>4
    <2> HIDE DEF logs
    <2> QED
      BY <1>3, <2>1, <2>2
  <1> QED
    BY <1>2, <1>4, <1>5, <1>6 DEF new

(* Rows of other ports, claims and statuses: the outputs stay announced.   *)
LEMMA SameOutputsFit ==
    ASSUME NEW d, NEW e, DatabaseFits(d), e \in Databases,
           Outputs(e) = Outputs(d), e.log = d.log,
           e.run = d.run \/ e.run # "running",
           e.task = "running" <=> e.holder # Nobody
    PROVE  DatabaseFits(e)
  <1>1. Announced(e) = Announced(d)
    BY DEF Announced
  <1>2. OutputsAnnounced(e)
    BY <1>1 DEF DatabaseFits, OutputsAnnounced
  <1>3. EndIsTrue(e)
    BY DEF DatabaseFits, EndIsTrue
  <1> QED
    BY <1>2, <1>3 DEF DatabaseFits

(* An event that announces no output.                                      *)
LEMMA QuietLogFits ==
    ASSUME NEW d, DatabaseFits(d), NEW type \in EventTypes \ {"artifact.published"},
           type \in {"run.completed", "run.failed"} => d.run # "running"
    PROVE  /\ DatabaseFits(LogRun(d, type))
           /\ LogRun(d, type).rows = d.rows /\ LogRun(d, type).run = d.run
           /\ LogRun(d, type).task = d.task /\ LogRun(d, type).holder = d.holder
           /\ Len(d.log) <= Len(LogRun(d, type).log)
           /\ Outputs(LogRun(d, type)) = Outputs(d)
  <1> DEFINE e == LogRun(d, type)
  <1>1. d \in Databases /\ Len(d.log) \in Nat
    BY DEF DatabaseFits, Databases
  <1>2. /\ e \in Databases /\ e.rows = d.rows /\ e.run = d.run
        /\ e.task = d.task /\ e.holder = d.holder
        /\ Len(e.log) = Len(d.log) + 1
        /\ DOMAIN e.log = DOMAIN d.log \cup {Len(d.log) + 1}
        /\ \A i \in DOMAIN d.log : e.log[i] = d.log[i]
        /\ e.log[Len(d.log) + 1].type = type
    BY <1>1, LogEffect DEF LogRun
  <1> HIDE DEF e
  <1>3. Announced(e) = Announced(d)
    BY <1>2 DEF Announced
  <1>4. \A i \in Announced(d) : e.log[i] = d.log[i]
    BY <1>2 DEF Announced
  <1>5. Outputs(e) = Outputs(d)
    BY <1>2 DEF Outputs
  <1>6. OutputsAnnounced(e)
    BY <1>3, <1>4, <1>5 DEF DatabaseFits, OutputsAnnounced
  <1>7. EndIsTrue(e)
    BY <1>2 DEF DatabaseFits, EndIsTrue
  <1>8. DatabaseFits(e)
    BY <1>2, <1>6, <1>7 DEF DatabaseFits
  <1> QED
    BY <1>1, <1>2, <1>5, <1>8 DEF e

LEMMA AggregateFits ==
    ASSUME NEW d, DatabaseFits(d)
    PROVE  /\ DatabaseFits(Aggregate(d))
           /\ Aggregate(d).rows = d.rows /\ Aggregate(d).task = d.task
           /\ Len(d.log) <= Len(Aggregate(d).log)
           /\ Outputs(Aggregate(d)) = Outputs(d)
  <1>1. ASSUME NEW s \in {"completed", "failed"}, NEW type \in {"run.completed", "run.failed"},
               Aggregate(d) = LogRun(LogRun([d EXCEPT !.run = s], "run.status_changed"), type)
        PROVE  /\ DatabaseFits(Aggregate(d))
               /\ Aggregate(d).rows = d.rows /\ Aggregate(d).task = d.task
               /\ Len(d.log) <= Len(Aggregate(d).log)
               /\ Outputs(Aggregate(d)) = Outputs(d)
    <2> DEFINE e == [d EXCEPT !.run = s]
               f == LogRun(e, "run.status_changed")
    <2>1. /\ e \in Databases /\ e.rows = d.rows /\ e.log = d.log /\ e.task = d.task
          /\ e.holder = d.holder /\ e.run = s
      BY DEF DatabaseFits, Databases, RunStatuses
    <2>2. f = LogRun(e, "run.status_changed") /\ Aggregate(d) = LogRun(f, type)
      BY <1>1
    <2>3. Len(d.log) \in Nat
      BY DEF DatabaseFits, Databases
    <2> HIDE DEF e, f
    <2>4. Outputs(e) = Outputs(d)
      BY <2>1 DEF Outputs
    <2>5. DatabaseFits(e)
      BY <2>1, <2>4, SameOutputsFit DEF DatabaseFits
    <2>6. /\ DatabaseFits(f) /\ f.rows = e.rows /\ f.run = e.run /\ f.task = e.task
          /\ Len(e.log) <= Len(f.log) /\ Outputs(f) = Outputs(e)
      BY <2>2, <2>5, QuietLogFits DEF EventTypes
    <2>7. /\ DatabaseFits(LogRun(f, type)) /\ LogRun(f, type).rows = f.rows
          /\ LogRun(f, type).task = f.task /\ Len(f.log) <= Len(LogRun(f, type).log)
          /\ Outputs(LogRun(f, type)) = Outputs(f)
      BY <2>1, <2>6, QuietLogFits DEF EventTypes
    <2>8. Len(f.log) \in Nat /\ Len(LogRun(f, type).log) \in Nat
      BY <2>6, <2>7 DEF DatabaseFits, Databases
    <2> QED
      BY <2>1, <2>2, <2>3, <2>4, <2>6, <2>7, <2>8
  <1> QED
    BY <1>1 DEF Aggregate

(* An output and its announcement.                                         *)
LEMMA PublishLogFits ==
    ASSUME NEW d, DatabaseFits(d), NEW p \in Ports, NEW h \in Hashes, p \notin OutputPorts(d),
           NEW e, e = Log([d EXCEPT !.rows = @ \cup {<<p, h>>}], "artifact.published", <<p, h>>)
    PROVE  /\ DatabaseFits(e) /\ e.rows = d.rows \cup {<<p, h>>}
           /\ e.task = d.task /\ e.holder = d.holder
           /\ Len(d.log) <= Len(e.log)
           /\ OutputPorts(e) = OutputPorts(d) \cup {p}
  <1> DEFINE a == <<p, h>>
             b == [d EXCEPT !.rows = @ \cup {a}]
             n == Len(d.log) + 1
  <1>1. a \in Artifacts /\ a[1] = p
    BY DEF Artifacts, Names
  <1>2. e = Log(b, "artifact.published", a)
    OBVIOUS
  <1>3. d \in Databases
    BY DEF DatabaseFits
  <1>4. /\ b \in Databases /\ b.rows = d.rows \cup {a} /\ b.log = d.log /\ b.run = d.run
        /\ b.task = d.task /\ b.holder = d.holder
    BY <1>1, <1>3 DEF Databases
  <1> HIDE DEF a, b
  <1>5. /\ e \in Databases /\ e.rows = d.rows \cup {a} /\ e.run = d.run
        /\ e.task = d.task /\ e.holder = d.holder
        /\ Len(e.log) = n
        /\ DOMAIN e.log = DOMAIN d.log \cup {n} /\ n \notin DOMAIN d.log
        /\ \A i \in DOMAIN d.log : e.log[i] = d.log[i]
        /\ e.log[n].type = "artifact.published" /\ e.log[n].artifact = a
    <2>1. "artifact.published" \in EventTypes /\ a \in Artifacts \cup {NoArtifact}
      BY <1>1 DEF EventTypes
    <2>2. /\ e \in Databases /\ e.rows = b.rows /\ e.run = b.run
          /\ e.task = b.task /\ e.holder = b.holder
          /\ Len(e.log) = Len(b.log) + 1
          /\ DOMAIN e.log = DOMAIN b.log \cup {Len(b.log) + 1} /\ Len(b.log) + 1 \notin DOMAIN b.log
          /\ \A i \in DOMAIN b.log : e.log[i] = b.log[i]
          /\ e.log[Len(b.log) + 1].type = "artifact.published"
          /\ e.log[Len(b.log) + 1].artifact = a
      <3> HIDE DEF n
      <3> QED
        BY ONLY <1>2, <1>4, <2>1, LogEffect
    <2> QED
      BY ONLY <1>4, <2>2
  <1> HIDE DEF n
  <1>6. Announced(e) = Announced(d) \cup {n} /\ n \notin Announced(d)
    BY ONLY <1>5 DEF Announced
  <1>7. Outputs(e) = Outputs(d) \cup {a} /\ a \notin Outputs(d)
    BY <1>1, <1>4, <1>5 DEF Outputs, OutputPorts
  <1>8. OutputsAnnounced(e)
    <2>1. /\ IsFiniteSet(Outputs(d)) /\ IsFiniteSet(Announced(d))
          /\ Cardinality(Announced(d)) = Cardinality(Outputs(d))
          /\ {d.log[i].artifact : i \in Announced(d)} = Outputs(d)
      BY DEF DatabaseFits, OutputsAnnounced
    <2>2. IsFiniteSet(Outputs(e)) /\ Cardinality(Outputs(e)) = Cardinality(Outputs(d)) + 1
      BY <1>7, <2>1, FS_AddElement
    <2>3. IsFiniteSet(Announced(e)) /\ Cardinality(Announced(e)) = Cardinality(Announced(d)) + 1
      BY <1>6, <2>1, FS_AddElement
    <2>4. \A i \in Announced(d) : e.log[i] = d.log[i]
      BY <1>4, <1>5 DEF Announced
    <2>5. {e.log[i].artifact : i \in Announced(e)} = Outputs(e)
      <3>1. {e.log[i].artifact : i \in Announced(e)} =
            {e.log[i].artifact : i \in Announced(d)} \cup {e.log[n].artifact}
        BY ONLY <1>6
      <3>2. {e.log[i].artifact : i \in Announced(d)} = {d.log[i].artifact : i \in Announced(d)}
        BY ONLY <2>4
      <3> QED
        BY ONLY <1>5, <1>7, <2>1, <3>1, <3>2
    <2> QED
      BY <2>1, <2>2, <2>3, <2>5 DEF OutputsAnnounced
  <1>9. EndIsTrue(e)
    BY <1>4, <1>5 DEF DatabaseFits, EndIsTrue
  <1>10. DatabaseFits(e)
    BY <1>4, <1>5, <1>8, <1>9 DEF DatabaseFits
  <1>11. OutputPorts(e) = OutputPorts(d) \cup {p}
    BY <1>1, <1>7 DEF OutputPorts
  <1>12. Len(d.log) <= Len(e.log)
    BY <1>3, <1>5 DEF Databases, n
  <1> QED
    BY <1>5, <1>10, <1>11, <1>12 DEF a

-----------------------------------------------------------------------------
(* Files.  A blob that is put in place is there; one that is withdrawn was *)
(* no row's.                                                               *)
LEMMA ReplaceTyped ==
    ASSUME FilesFit, NEW h \in Hashes, Replace(h)
    PROVE  mtime' \in [Hashes -> Nat]
  BY DEF FilesFit, Replace

LEMMA PutEffect ==
    ASSUME FilesFit, NEW h \in Hashes, PutBlob(h)
    PROVE  /\ blobs' \in [Hashes -> BlobStates] /\ mtime' \in [Hashes -> Nat]
           /\ blobs'[h] = "intact" /\ \A g \in Hashes \ {h} : blobs'[g] = blobs[g]
  BY ReplaceTyped DEF FilesFit, PutBlob, BlobStates

LEMMA WithdrawEffect ==
    ASSUME FilesFit, NEW h \in Hashes, NEW d \in Databases, Withdraw(d, h), HasBlobs(d)
    PROVE  blobs' \in [Hashes -> BlobStates] /\ \A a \in d.rows : blobs'[HashOf(a)] # "absent"
  <1>1. \A a \in d.rows : HashOf(a) \in Hashes
    BY DEF Databases, Artifacts, HashOf
  <1>2. blobs' \in [Hashes -> BlobStates]
    BY DEF FilesFit, Withdraw, BlobStates
  <1>3. \A g \in Hashes \ {h} : blobs'[g] = blobs[g]
    BY DEF FilesFit, Withdraw
  <1>4. (\E a \in d.rows : HashOf(a) = h) => blobs'[h] = "intact"
    BY DEF FilesFit, Withdraw
  <1> QED
    BY <1>1, <1>2, <1>3, <1>4 DEF HasBlobs

(* The hash of a row is the hash of a blob.                                *)
LEMMA RowHashes ==
    ASSUME NEW d \in Databases, NEW a \in d.rows
    PROVE  HashOf(a) \in Hashes
  BY DEF Databases, Artifacts, HashOf

-----------------------------------------------------------------------------
(* Kinds of steps.                                                         *)
LEMMA DbLength ==
    ASSUME StoreIInv
    PROVE  db \in Databases /\ Len(db.log) \in Nat
  BY DEF StoreIInv, CommittedFits, DatabaseFits, Databases

(* Nothing in the database, no file lost.                                  *)
LEMMA FileStepKeeps ==
    ASSUME StoreIInv, UNCHANGED <<db, txn>>, FilesFit',
           \A h \in Hashes : blobs[h] # "absent" => blobs'[h] # "absent"
    PROVE  StoreIInv' /\ LogGrows
  <1>1. HasBlobs(db)'
    BY DbLength, RowHashes DEF StoreIInv, CommittedFits, HasBlobs
  <1>2. CommittedFits'
    BY <1>1 DEF StoreIInv, CommittedFits
  <1>3. OpenFits'
    <2>1. CASE txn = Closed
      BY <2>1 DEF OpenFits
    <2>2. CASE txn # Closed
      <3>1. DatabaseFits(txn.db) /\ HasBlobs(txn.db)
        BY <2>2 DEF StoreIInv, OpenFits
      <3>2. HasBlobs(txn.db)'
        BY <3>1, RowHashes DEF DatabaseFits, HasBlobs
      <3> QED
        BY <2>2, <3>2 DEF StoreIInv, OpenFits
    <2> QED
      BY <2>1, <2>2
  <1> QED
    BY <1>2, <1>3, DbLength DEF StoreIInv, LogGrows

(* The open transaction is rolled back, by an error or a crash.            *)
LEMMA RollbackKeeps ==
    ASSUME StoreIInv, UNCHANGED db, txn' = Closed, FilesFit',
           \A a \in db.rows : blobs'[HashOf(a)] # "absent"
    PROVE  StoreIInv' /\ LogGrows
  <1>1. CommittedFits'
    BY DEF StoreIInv, CommittedFits, HasBlobs
  <1> QED
    BY <1>1, DbLength DEF StoreIInv, OpenFits, LogGrows

(* A transaction of its own: claims, statuses, references and inputs.      *)
LEMMA WriteKeeps ==
    ASSUME StoreIInv, Writable, UNCHANGED txn, FilesFit', LogGrows,
           DatabaseFits(db'), Outputs(db') = Outputs(db),
           db'.task = "succeeded" <=> db.task = "succeeded",
           \A a \in db'.rows : blobs'[HashOf(a)] # "absent"
    PROVE  StoreIInv' /\ LogGrows
  <1>1. CommittedFits'
    BY DEF StoreIInv, CommittedFits, OutputPorts, HasBlobs
  <1> QED
    BY <1>1 DEF StoreIInv, OpenFits, Writable

(* ... that touches neither the rows nor the files.                        *)
LEMMA StatusWriteKeeps ==
    ASSUME StoreIInv, Writable, UNCHANGED <<txn, blobs>>, FilesFit', LogGrows,
           DatabaseFits(db'), db'.rows = db.rows,
           db'.task = "succeeded" <=> db.task = "succeeded"
    PROVE  StoreIInv' /\ LogGrows
  <1>1. Outputs(db') = Outputs(db)
    BY DEF Outputs
  <1> QED
    BY <1>1, WriteKeeps DEF StoreIInv, CommittedFits, HasBlobs

(* ... that only changes what refers to the rows, or how old they are.     *)
LEMMA ReferenceWriteKeeps ==
    ASSUME StoreIInv, Writable, UNCHANGED <<txn, blobs>>, FilesFit', db' \in Databases,
           db'.rows = db.rows, db'.log = db.log, db'.run = db.run, db'.task = db.task,
           db'.holder = db.holder
    PROVE  StoreIInv' /\ LogGrows
  <1>1. Outputs(db') = Outputs(db)
    BY DEF Outputs
  <1>2. DatabaseFits(db')
    BY <1>1, SameOutputsFit DEF StoreIInv, CommittedFits, DatabaseFits
  <1> QED
    BY <1>2, StatusWriteKeeps, DbLength DEF LogGrows

-----------------------------------------------------------------------------
(* The task and its attempts.                                              *)
LEMMA ClaimTaskKeeps ==
    ASSUME StoreIInv, ClaimTask
    PROVE  StoreIInv' /\ LogGrows
  <1> DEFINE k == db.attempts + 1
             e == [db EXCEPT !.task = "running", !.attempts = k, !.holder = k]
  <1>1. db \in Databases /\ DatabaseFits(db)
    BY DEF StoreIInv, CommittedFits, DatabaseFits
  <1>2. k \in Attempts /\ k \in 0 .. MaxAttempts /\ k # Nobody
    BY <1>1, ArtifactsAssumption DEF Databases, ClaimTask, Attempts, Nobody
  <1>3. /\ e \in Databases /\ e.rows = db.rows /\ e.log = db.log /\ e.run = db.run
        /\ e.task = "running" /\ e.holder = k
    BY <1>1, <1>2 DEF Databases, TaskStatuses
  <1>4. db' = LogRun(e, "task.started") /\ child' = [child EXCEPT ![k] = "running"]
    BY DEF ClaimTask
  <1> HIDE DEF k, e
  <1>5. DatabaseFits(e)
    <2>1. Outputs(e) = Outputs(db)
      BY <1>3 DEF Outputs
    <2> QED
      BY <1>1, <1>2, <1>3, <2>1, SameOutputsFit
  <1>6. /\ DatabaseFits(db') /\ db'.rows = e.rows /\ db'.task = e.task
        /\ Len(e.log) <= Len(db'.log)
    BY <1>4, <1>5, QuietLogFits DEF EventTypes
  <1>7. FilesFit'
    BY <1>4 DEF ClaimTask, StoreIInv, FilesFit, ChildStates
  <1> QED
    BY <1>3, <1>6, <1>7, StatusWriteKeeps DEF ClaimTask, LogGrows

LEMMA RecoverExpiredLeaseKeeps ==
    ASSUME StoreIInv, RecoverExpiredLease
    PROVE  StoreIInv' /\ LogGrows
  <1> DEFINE d == [db EXCEPT !.holder = Nobody]
             Idle(s) == [d EXCEPT !.task = s]
  <1>1. db \in Databases /\ DatabaseFits(db)
    BY DEF StoreIInv, CommittedFits, DatabaseFits
  <1>2. ASSUME NEW s \in {"retry_wait", "failed"}
        PROVE  DatabaseFits(Idle(s)) /\ Idle(s).rows = db.rows /\ Idle(s).log = db.log
               /\ Idle(s).task = s
    <2>1. /\ Idle(s) \in Databases /\ Idle(s).rows = db.rows /\ Idle(s).log = db.log
          /\ Idle(s).run = db.run /\ Idle(s).task = s /\ Idle(s).holder = Nobody
      BY <1>1 DEF Databases, TaskStatuses
    <2> HIDE DEF d, Idle
    <2>2. Outputs(Idle(s)) = Outputs(db)
      BY <2>1 DEF Outputs
    <2> QED
      BY <1>1, <2>1, <2>2, SameOutputsFit
  <1>3. db' = LogRun(Idle("retry_wait"), "task.retry_wait")
        \/ db' = Aggregate(LogRun(Idle("failed"), "task.lease_expired"))
    BY DEF RecoverExpiredLease
  <1>4. db.task = "running" /\ Len(db.log) \in Nat
    BY DbLength DEF RecoverExpiredLease
  <1> HIDE DEF d, Idle
  <1>5. /\ DatabaseFits(db') /\ db'.rows = db.rows /\ db'.task \in {"retry_wait", "failed"}
        /\ LogGrows
    <2>1. CASE db' = LogRun(Idle("retry_wait"), "task.retry_wait")
      BY <1>2, <2>1, QuietLogFits DEF EventTypes, LogGrows
    <2>2. CASE db' = Aggregate(LogRun(Idle("failed"), "task.lease_expired"))
      <3> DEFINE e == LogRun(Idle("failed"), "task.lease_expired")
      <3>1. /\ DatabaseFits(e) /\ e.rows = db.rows /\ e.task = "failed"
            /\ Len(db.log) <= Len(e.log)
        BY <1>2, QuietLogFits DEF EventTypes
      <3>2. /\ DatabaseFits(Aggregate(e)) /\ Aggregate(e).rows = e.rows
            /\ Aggregate(e).task = e.task /\ Len(e.log) <= Len(Aggregate(e).log)
        BY <3>1, AggregateFits
      <3>3. Len(e.log) \in Nat /\ Len(Aggregate(e).log) \in Nat
        BY <3>1, <3>2 DEF DatabaseFits, Databases
      <3> HIDE DEF e
      <3> QED
        BY <1>4, <2>2, <3>1, <3>2, <3>3 DEF e, LogGrows
    <2> QED
      BY <1>3, <2>1, <2>2
  <1>6. FilesFit'
    BY DEF RecoverExpiredLease, StoreIInv, FilesFit
  <1> QED
    BY <1>4, <1>5, <1>6, StatusWriteKeeps DEF RecoverExpiredLease

LEMMA FinishRunKeeps ==
    ASSUME StoreIInv, FinishRun
    PROVE  StoreIInv' /\ LogGrows
  <1>1. /\ DatabaseFits(db') /\ db'.rows = db.rows /\ db'.task = db.task
        /\ Len(db.log) <= Len(db'.log)
    BY AggregateFits DEF FinishRun, StoreIInv, CommittedFits
  <1>2. FilesFit'
    BY DEF FinishRun, StoreIInv, FilesFit
  <1> QED
    BY <1>1, <1>2, StatusWriteKeeps DEF FinishRun, LogGrows

(* An attempt that failed looks at the task ...                            *)
LEMMA FailureLooksKeep ==
    ASSUME StoreIInv, NEW k \in Attempts, CheckClaim(k) \/ LookAtTask(k)
    PROVE  StoreIInv' /\ LogGrows
  <1>1. FilesFit'
    BY DEF CheckClaim, LookAtTask, StoreIInv, FilesFit, ChildStates
  <1> QED
    BY <1>1, FileStepKeeps DEF CheckClaim, LookAtTask

(* ... writes its row ...                                                  *)
LEMMA MarkFailedKeeps ==
    ASSUME StoreIInv, NEW k \in Attempts, MarkFailed(k)
    PROVE  StoreIInv' /\ LogGrows
  <1>1. FilesFit'
    BY DEF MarkFailed, StoreIInv, FilesFit, ChildStates
  <1>2. CASE db.holder # k
    BY <1>1, <1>2, FileStepKeeps DEF MarkFailed
  <1>3. CASE db.holder = k
    <2> DEFINE e == [db EXCEPT !.task = "failed", !.holder = Nobody]
    <2>1. db \in Databases /\ DatabaseFits(db) /\ Len(db.log) \in Nat
      BY DbLength DEF StoreIInv, CommittedFits
    <2>2. k # Nobody
      BY ArtifactsAssumption DEF Attempts, Nobody
    <2>3. db.task = "running"
      BY <1>3, <2>1, <2>2 DEF DatabaseFits
    <2>4. /\ e \in Databases /\ e.rows = db.rows /\ e.log = db.log /\ e.run = db.run
          /\ e.task = "failed" /\ e.holder = Nobody
      BY <2>1 DEF Databases, TaskStatuses
    <2>5. db' = LogRun(e, "task.status_changed")
      BY <1>3 DEF MarkFailed
    <2> HIDE DEF e
    <2>6. Outputs(e) = Outputs(db)
      BY <2>4 DEF Outputs
    <2>7. DatabaseFits(e)
      BY <2>1, <2>4, <2>6, SameOutputsFit
    <2>8. DatabaseFits(db') /\ db'.rows = e.rows /\ db'.task = e.task /\ Len(e.log) <= Len(db'.log)
      BY <2>5, <2>7, QuietLogFits DEF EventTypes
    <2> QED
      BY <1>1, <2>3, <2>4, <2>8, StatusWriteKeeps DEF MarkFailed, LogGrows
  <1> QED
    BY <1>2, <1>3

(* ... and tells, whoever has the task by then.                            *)
LEMMA TellFailureKeeps ==
    ASSUME StoreIInv, NEW k \in Attempts, TellFailure(k)
    PROVE  StoreIInv' /\ LogGrows
  <1>1. FilesFit'
    BY DEF TellFailure, StoreIInv, FilesFit, ChildStates
  <1>2. /\ DatabaseFits(db') /\ db'.rows = db.rows /\ db'.task = db.task
        /\ Len(db.log) <= Len(db'.log)
    BY QuietLogFits DEF TellFailure, StoreIInv, CommittedFits, EventTypes
  <1> QED
    BY <1>1, <1>2, StatusWriteKeeps DEF TellFailure, LogGrows

-----------------------------------------------------------------------------
(* The publication of the outputs, in one transaction.                     *)
LEMMA BeginPublicationKeeps ==
    ASSUME StoreIInv, NEW k \in Attempts, BeginPublication(k)
    PROVE  StoreIInv' /\ LogGrows
  <1>1. PICK h \in [Ports -> Hashes] : txn' = [owner |-> k, db |-> db, todo |-> Ports, hash |-> h]
    BY DEF BeginPublication
  <1>2. /\ txn' \in Transactions /\ txn'.db = db /\ txn'.owner = k /\ txn'.todo = Ports
    BY <1>1, DbLength DEF Transactions
  <1>3. db' = db /\ blobs' = blobs
    BY DEF BeginPublication
  <1>4. CommittedFits'
    BY <1>3 DEF StoreIInv, CommittedFits, HasBlobs
  <1>5. db.holder = k => OutputPorts(db) = {}
    <2>1. k # Nobody
      BY ArtifactsAssumption DEF Attempts, Nobody
    <2> QED
      BY <2>1 DEF StoreIInv, CommittedFits, DatabaseFits, OutputPorts
  <1>6. OpenFits'
    BY <1>2, <1>3, <1>4, <1>5, DbLength DEF CommittedFits, OpenFits
  <1>7. FilesFit'
    BY DEF BeginPublication, StoreIInv, FilesFit, ChildStates
  <1> QED
    BY <1>3, <1>4, <1>6, <1>7, DbLength DEF StoreIInv, LogGrows

LEMMA OpenTransaction ==
    ASSUME StoreIInv, NEW k \in Attempts, txn.owner = k
    PROVE  /\ txn \in Transactions /\ txn # Closed
           /\ DatabaseFits(txn.db) /\ HasBlobs(txn.db)
           /\ db.rows \subseteq txn.db.rows /\ Len(db.log) <= Len(txn.db.log)
           /\ txn.db.holder = k => OutputPorts(txn.db) = Ports \ txn.todo
  <1>1. k # Nobody
    BY ArtifactsAssumption DEF Attempts, Nobody
  <1>2. txn # Closed
    BY <1>1 DEF Closed
  <1> QED
    BY <1>2 DEF StoreIInv, OpenFits

LEMMA PublishOutputKeeps ==
    ASSUME StoreIInv, NEW k \in Attempts, NEW p \in Ports, PublishOutput(k, p)
    PROVE  StoreIInv' /\ LogGrows
  <1> DEFINE h == txn.hash[p]
             e == Log([txn.db EXCEPT !.rows = @ \cup {<<p, h>>}], "artifact.published", <<p, h>>)
  <1>1. /\ txn \in Transactions /\ txn # Closed
        /\ DatabaseFits(txn.db) /\ HasBlobs(txn.db)
        /\ db.rows \subseteq txn.db.rows /\ Len(db.log) <= Len(txn.db.log)
        /\ OutputPorts(txn.db) = Ports \ txn.todo
        /\ txn.owner = k /\ txn.db.holder = k /\ p \in txn.todo
    BY OpenTransaction DEF PublishOutput
  <1>2. h \in Hashes /\ PutBlob(h)
    BY <1>1 DEF PublishOutput, Transactions, HashOf
  <1>3. txn' = [txn EXCEPT !.todo = txn.todo \ {p}, !.db = e]
    BY DEF PublishOutput
  <1>4. UNCHANGED <<db, child, gc, left>>
    BY DEF PublishOutput
  <1>5. e = Log([txn.db EXCEPT !.rows = @ \cup {<<p, h>>}], "artifact.published", <<p, h>>)
    OBVIOUS
  <1> HIDE DEF h, e
  <1>6. /\ DatabaseFits(e) /\ e.rows = txn.db.rows \cup {<<p, h>>}
        /\ e.holder = txn.db.holder
        /\ Len(txn.db.log) <= Len(e.log)
        /\ OutputPorts(e) = OutputPorts(txn.db) \cup {p}
    BY <1>1, <1>2, <1>5, PublishLogFits
  <1>7. e \in Databases
    BY <1>6 DEF DatabaseFits
  <1>8. /\ txn' \in Transactions /\ txn'.db = e /\ txn'.owner = k /\ txn'.todo = txn.todo \ {p}
    BY <1>1, <1>3, <1>7 DEF Transactions
  <1>9. FilesFit' /\ blobs'[h] = "intact" /\ \A g \in Hashes \ {h} : blobs'[g] = blobs[g]
    BY <1>2, <1>4, PutEffect DEF StoreIInv, FilesFit
  <1>10. \A g \in Hashes : blobs[g] # "absent" => blobs'[g] # "absent"
    BY <1>9
  <1>11. \A a \in e.rows : blobs'[HashOf(a)] # "absent"
    <2> SUFFICES ASSUME NEW a \in e.rows
                 PROVE  blobs'[HashOf(a)] # "absent"
      OBVIOUS
    <2>1. CASE a = <<p, h>>
      BY <1>9, <2>1 DEF HashOf
    <2>2. CASE a \in txn.db.rows
      <3>1. HashOf(a) \in Hashes
        BY <1>1, <2>2, RowHashes DEF DatabaseFits
      <3> QED
        BY <1>1, <1>10, <2>2, <3>1 DEF HasBlobs
    <2> QED
      BY <1>6, <2>1, <2>2
  <1>12. CommittedFits'
    <2>1. \A a \in db.rows : blobs'[HashOf(a)] # "absent"
      BY <1>1, <1>6, <1>11
    <2> QED
      BY <1>4, <2>1 DEF StoreIInv, CommittedFits, HasBlobs
  <1>13. OpenFits'
    <2>1. db.rows \subseteq e.rows /\ OutputPorts(e) = Ports \ (txn.todo \ {p})
      BY <1>1, <1>6
    <2>2. Len(db.log) <= Len(e.log)
      BY <1>1, <1>6, <1>7, DbLength DEF DatabaseFits, Databases
    <2> QED
      BY <1>1, <1>4, <1>6, <1>8, <1>11, <2>1, <2>2 DEF OpenFits, HasBlobs
  <1> QED
    BY <1>4, <1>9, <1>12, <1>13, DbLength DEF StoreIInv, LogGrows

LEMMA PublishOutputFailsKeeps ==
    ASSUME StoreIInv, NEW k \in Attempts, NEW p \in Ports, PublishOutputFails(k, p)
    PROVE  StoreIInv' /\ LogGrows
  <1>1. /\ txn \in Transactions /\ HasBlobs(txn.db) /\ db.rows \subseteq txn.db.rows
    BY OpenTransaction DEF PublishOutputFails
  <1>2. txn.hash[p] \in Hashes /\ txn.db \in Databases
    BY <1>1 DEF Transactions
  <1>3. /\ blobs' \in [Hashes -> BlobStates] /\ mtime' \in [Hashes -> Nat]
        /\ \A a \in txn.db.rows : blobs'[HashOf(a)] # "absent"
    BY <1>1, <1>2, WithdrawEffect, ReplaceTyped DEF PublishOutputFails, StoreIInv
  <1>4. FilesFit'
    BY <1>3 DEF PublishOutputFails, Rollback, StoreIInv, FilesFit, ChildStates
  <1> QED
    BY <1>1, <1>3, <1>4, RollbackKeeps DEF PublishOutputFails, Rollback

LEMMA CommitTaskKeeps ==
    ASSUME StoreIInv, NEW k \in Attempts, CommitTask(k)
    PROVE  StoreIInv' /\ LogGrows
  <1> DEFINE e == [txn.db EXCEPT !.task = "succeeded", !.holder = Nobody]
  <1>1. /\ DatabaseFits(txn.db) /\ HasBlobs(txn.db) /\ Len(db.log) <= Len(txn.db.log)
        /\ OutputPorts(txn.db) = Ports
    BY OpenTransaction DEF CommitTask
  <1>2. txn.db \in Databases
    BY <1>1 DEF DatabaseFits
  <1>3. /\ e \in Databases /\ e.rows = txn.db.rows /\ e.log = txn.db.log
        /\ e.run = txn.db.run /\ e.task = "succeeded" /\ e.holder = Nobody
    BY <1>2 DEF Databases, TaskStatuses
  <1>4. db' = LogRun(e, "task.completed") /\ txn' = Closed /\ blobs' = blobs
    BY DEF CommitTask
  <1> HIDE DEF e
  <1>5. Outputs(e) = Outputs(txn.db)
    BY <1>3 DEF Outputs
  <1>6. DatabaseFits(e)
    BY <1>1, <1>3, <1>5, SameOutputsFit
  <1>7. /\ DatabaseFits(db') /\ db'.rows = txn.db.rows /\ db'.task = "succeeded"
        /\ Len(e.log) <= Len(db'.log) /\ Outputs(db') = Outputs(txn.db)
    BY <1>3, <1>4, <1>5, <1>6, QuietLogFits DEF EventTypes
  <1>8. CommittedFits'
    BY <1>1, <1>4, <1>7 DEF CommittedFits, HasBlobs, OutputPorts
  <1>9. FilesFit'
    BY DEF CommitTask, StoreIInv, FilesFit, ChildStates
  <1>10. LogGrows
    BY <1>1, <1>3, <1>7, DbLength DEF DatabaseFits, Databases, LogGrows
  <1> QED
    BY <1>4, <1>8, <1>9, <1>10 DEF StoreIInv, OpenFits

LEMMA PublishStaleKeeps ==
    ASSUME StoreIInv, NEW k \in Attempts, PublishStale(k)
    PROVE  StoreIInv' /\ LogGrows
  <1>1. FilesFit'
    BY DEF PublishStale, Rollback, StoreIInv, FilesFit, ChildStates
  <1> QED
    BY <1>1, RollbackKeeps DEF PublishStale, Rollback, StoreIInv, CommittedFits, HasBlobs

LEMMA CrashKeeps ==
    ASSUME StoreIInv, NEW k \in Attempts, Crash(k)
    PROVE  StoreIInv' /\ LogGrows
  <1>1. FilesFit'
    BY DEF Crash, StoreIInv, FilesFit, ChildStates
  <1>2. CASE txn.owner = k
    BY <1>1, <1>2, RollbackKeeps DEF Crash, StoreIInv, CommittedFits, HasBlobs
  <1>3. CASE txn.owner # k
    BY <1>1, <1>3, FileStepKeeps DEF Crash
  <1> QED
    BY <1>2, <1>3

-----------------------------------------------------------------------------
(* Uploads, references, and the disk.                                      *)
(* A row that is no output, with its file in place.                        *)
LEMMA RowWriteKeeps ==
    ASSUME StoreIInv, Writable, UNCHANGED txn, FilesFit', db' \in Databases,
           NEW a \in Artifacts, a[1] \notin Ports, db'.rows = db.rows \cup {a},
           db'.log = db.log, db'.run = db.run, db'.task = db.task, db'.holder = db.holder,
           blobs'[HashOf(a)] # "absent",
           \A h \in Hashes : blobs[h] # "absent" => blobs'[h] # "absent"
    PROVE  StoreIInv' /\ LogGrows
  <1>1. Outputs(db') = Outputs(db)
    BY DEF Outputs
  <1>2. DatabaseFits(db')
    BY <1>1, SameOutputsFit DEF StoreIInv, CommittedFits, DatabaseFits
  <1>3. \A b \in db'.rows : blobs'[HashOf(b)] # "absent"
    BY DbLength, RowHashes DEF StoreIInv, CommittedFits, HasBlobs
  <1> QED
    BY <1>1, <1>2, <1>3, WriteKeeps, DbLength DEF LogGrows

LEMMA UploadedNames ==
    ASSUME NEW h \in Hashes, NEW n \in {Upload, Declared}
    PROVE  <<n, h>> \in Artifacts /\ <<n, h>>[1] \notin Ports /\ HashOf(<<n, h>>) = h
  BY ArtifactsAssumption DEF Artifacts, Names, HashOf

LEMMA UploadFileKeeps ==
    ASSUME StoreIInv, NEW h \in Hashes, UploadFile(h)
    PROVE  StoreIInv' /\ LogGrows
  <1>1. CASE PutBlob(h)
    <2>1. FilesFit' /\ blobs'[h] = "intact" /\ \A g \in Hashes \ {h} : blobs'[g] = blobs[g]
      BY <1>1, PutEffect DEF UploadFile, StoreIInv, FilesFit
    <2>2. \A g \in Hashes : blobs[g] # "absent" => blobs'[g] # "absent"
      BY <2>1
    <2>3. CASE db' = [db EXCEPT !.rows = @ \cup {<<Upload, h>>}]
      <3>1. /\ db' \in Databases /\ db'.rows = db.rows \cup {<<Upload, h>>}
            /\ db'.log = db.log /\ db'.run = db.run /\ db'.task = db.task
            /\ db'.holder = db.holder
        BY <2>3, DbLength, UploadedNames DEF Databases
      <3> QED
        BY <2>1, <2>2, <3>1, UploadedNames, RowWriteKeeps DEF UploadFile
    <2>4. CASE db' = db
      BY <2>1, <2>2, <2>4, FileStepKeeps DEF UploadFile
    <2> QED
      BY <2>3, <2>4 DEF UploadFile
  <1>2. CASE Replace(h) /\ Withdraw(db, h) /\ UNCHANGED db
    <2>1. /\ blobs' \in [Hashes -> BlobStates] /\ mtime' \in [Hashes -> Nat]
          /\ \A a \in db.rows : blobs'[HashOf(a)] # "absent"
      BY <1>2, DbLength, WithdrawEffect, ReplaceTyped DEF StoreIInv, CommittedFits
    <2>2. FilesFit'
      BY <2>1 DEF UploadFile, StoreIInv, FilesFit
    <2> QED
      BY <1>2, <2>1, <2>2, RollbackKeeps DEF UploadFile, Writable
  <1> QED
    BY <1>1, <1>2 DEF UploadFile

LEMMA DeclareCrsKeeps ==
    ASSUME StoreIInv, NEW h \in Hashes, DeclareCrs(h)
    PROVE  StoreIInv' /\ LogGrows
  <1> DEFINE rows == db.rows \cup {<<Declared, h>>}
             id == db.lastId + 1
  <1>3. rows \in SUBSET Artifacts /\ id \in Nat /\ db \in Databases
    <2>1. db \in Databases
      BY DbLength
    <2>2. db.lastId \in Nat /\ db.rows \subseteq Artifacts
      BY <2>1 DEF Databases
    <2>3. <<Declared, h>> \in Artifacts
      BY UploadedNames
    <2>4. rows \in SUBSET Artifacts
      BY <2>2, <2>3
    <2>5. id \in Nat
      BY <2>2
    <2> QED
      BY <2>1, <2>4, <2>5
  <1>4. db' = [db EXCEPT !.rows = rows, !.lastId = id] /\ rows = db.rows \cup {<<Declared, h>>}
    BY DEF DeclareCrs
  <1> HIDE DEF rows, id
  <1>1. /\ db' \in Databases /\ db'.rows = db.rows \cup {<<Declared, h>>}
        /\ db'.log = db.log /\ db'.run = db.run /\ db'.task = db.task
        /\ db'.holder = db.holder
    BY <1>3, <1>4 DEF Databases
  <1>2. FilesFit' /\ blobs'[h] = "intact"
    BY UploadedNames DEF DeclareCrs, Valid, StoreIInv, FilesFit
  <1> QED
    BY <1>1, <1>2, UploadedNames, RowWriteKeeps DEF DeclareCrs

LEMMA AttachTaskInputKeeps ==
    ASSUME StoreIInv, NEW a \in Artifacts, AttachTaskInput(a)
    PROVE  StoreIInv' /\ LogGrows
  <1>1. /\ db' \in Databases /\ db'.rows = db.rows /\ db'.log = db.log /\ db'.run = db.run
        /\ db'.task = db.task /\ db'.holder = db.holder
    BY DbLength DEF AttachTaskInput, Databases
  <1>2. FilesFit'
    BY DEF AttachTaskInput, StoreIInv, FilesFit
  <1> QED
    BY <1>1, <1>2, ReferenceWriteKeeps DEF AttachTaskInput

LEMMA DamageKeeps ==
    ASSUME StoreIInv, NEW h \in Hashes, Damage(h)
    PROVE  StoreIInv' /\ LogGrows
  <1>1. FilesFit' /\ \A g \in Hashes : blobs[g] # "absent" => blobs'[g] # "absent"
    BY DEF Damage, StoreIInv, FilesFit, BlobStates
  <1> QED
    BY <1>1, FileStepKeeps DEF Damage

-----------------------------------------------------------------------------
(* The collector.                                                          *)
LEMMA CollectorReadsKeep ==
    ASSUME StoreIInv, UNCHANGED <<db, txn, blobs, mtime, child>>, gc' \in Collectors
    PROVE  StoreIInv' /\ LogGrows
  <1>1. FilesFit'
    BY DEF StoreIInv, FilesFit
  <1> QED
    BY <1>1, FileStepKeeps

LEMMA CollectorWritesKeep ==
    ASSUME StoreIInv, Writable, UNCHANGED <<txn, blobs, mtime, child>>, gc' \in Collectors,
           \/ db' = db
           \/ \E leases \in SUBSET Artifacts : db' = [db EXCEPT !.leases = leases]
           \/ \E old \in SUBSET Artifacts : db' = [db EXCEPT !.old = old]
    PROVE  StoreIInv' /\ LogGrows
  <1>1. /\ db' \in Databases /\ db'.rows = db.rows /\ db'.log = db.log /\ db'.run = db.run
        /\ db'.task = db.task /\ db'.holder = db.holder
    BY DbLength DEF Databases
  <1>2. FilesFit'
    BY DEF StoreIInv, FilesFit
  <1> QED
    BY <1>1, <1>2, ReferenceWriteKeeps

LEMMA CollectKeeps ==
    ASSUME StoreIInv, Collect
    PROVE  StoreIInv' /\ LogGrows
  <1>1. /\ gc \in Collectors /\ mtime \in [Hashes -> Nat]
        /\ db.rows \subseteq Artifacts /\ db.leases \subseteq Artifacts
        /\ db.old \subseteq Artifacts
    BY DbLength DEF StoreIInv, FilesFit, Databases
  <1>2. CASE CandidateManifest
    <2>1. gc' \in Collectors
      BY <1>1, <1>2 DEF CandidateManifest, Collectors, Stages
    <2> QED
      BY <1>2, <2>1, CollectorReadsKeep DEF CandidateManifest
  <1>3. CASE ManifestDone
    <2>1. gc' \in Collectors
      BY <1>1, <1>3 DEF ManifestDone, Collectors, Stages
    <2> QED
      BY <1>3, <2>1, CollectorReadsKeep DEF ManifestDone
  <1>4. CASE StageOne
    <2> DEFINE todo == {a \in gc.manifest : HashOf(a) \notin ReachableHashes(db)
                                           /\ blobs[HashOf(a)] = "intact"}
    <2>1. todo \subseteq Artifacts
      BY <1>1 DEF Collectors
    <2>2. gc' = [gc EXCEPT !.pc = "stage two", !.seen = mtime, !.todo = todo]
      BY <1>4 DEF StageOne
    <2> HIDE DEF todo
    <2>3. gc' \in Collectors
      BY <1>1, <2>1, <2>2 DEF Collectors, Stages
    <2> QED
      BY <1>4, <2>3, CollectorReadsKeep DEF StageOne
  <1>5. CASE ConfirmDone
    <2>1. gc' \in Collectors
      BY <1>1, <1>5 DEF ConfirmDone, Collectors, Stages
    <2> QED
      BY <1>5, <2>1, CollectorReadsKeep DEF ConfirmDone
  <1>6. CASE ReleaseManifest
    <2>1. gc' \in Collectors
      BY <1>1, <1>6 DEF ReleaseManifest, Collectors, Stages
    <2>2. db' = [db EXCEPT !.leases = db.leases \ gc.manifest]
      BY <1>6 DEF ReleaseManifest
    <2> QED
      BY <1>1, <1>6, <2>1, <2>2, CollectorWritesKeep DEF ReleaseManifest
  <1>7. ASSUME NEW a \in Artifacts, LeaseCandidate(a)
        PROVE  StoreIInv' /\ LogGrows
    <2>1. gc' \in Collectors
      BY <1>1, <1>7 DEF LeaseCandidate, Collectors
    <2>2. db' = db \/ db' = [db EXCEPT !.leases = db.leases \cup {a}]
      BY <1>7 DEF LeaseCandidate
    <2> QED
      BY <1>1, <1>7, <2>1, <2>2, CollectorWritesKeep DEF LeaseCandidate
  <1>8. ASSUME NEW a \in Artifacts, StageTwo(a)
        PROVE  StoreIInv' /\ LogGrows
    <2>3. \/ gc' = [gc EXCEPT !.todo = gc.todo \ {a}, !.confirmed = gc.confirmed \cup {a}]
          \/ gc' = [gc EXCEPT !.todo = gc.todo \ {a}]
      BY <1>8 DEF StageTwo
    <2>1. gc' \in Collectors
      BY <1>1, <2>3 DEF Collectors
    <2>2. db' = db \/ db' = [db EXCEPT !.leases = db.leases \cup {a}]
      BY <1>8 DEF StageTwo
    <2> QED
      BY <1>1, <1>8, <2>1, <2>2, CollectorWritesKeep DEF StageTwo
  <1>9. ASSUME NEW a \in Artifacts, LeaseExpires(a)
        PROVE  StoreIInv' /\ LogGrows
    <2>1. db' = [db EXCEPT !.leases = db.leases \ {a}]
      BY <1>9 DEF LeaseExpires
    <2> QED
      BY <1>1, <1>9, <2>1, CollectorWritesKeep DEF LeaseExpires
  <1>10. ASSUME NEW a \in Artifacts, Age(a)
         PROVE  StoreIInv' /\ LogGrows
    <2>1. db' = [db EXCEPT !.old = db.old \cup {a}]
      BY <1>10 DEF Age
    <2> QED
      BY <1>1, <1>10, <2>1, CollectorWritesKeep DEF Age
  <1> QED
    BY <1>2, <1>3, <1>4, <1>5, <1>6, <1>7, <1>8, <1>9, <1>10 DEF Collect

-----------------------------------------------------------------------------
LEMMA StoreIInvInit == StoreInit => StoreIInv
  <1> SUFFICES ASSUME StoreInit
               PROVE  StoreIInv
    OBVIOUS
  <1>1. /\ db.rows = {} /\ db.log = <<>> /\ DOMAIN db.log = {} /\ db.task = "ready"
        /\ db.holder = Nobody
    BY DEF StoreInit
  <1>2. db \in Databases
    BY ArtifactsAssumption DEF StoreInit, Databases, RunStatuses, TaskStatuses
  <1>3. Outputs(db) = {} /\ Announced(db) = {}
    BY <1>1 DEF Outputs, Announced
  <1>4. OutputsAnnounced(db)
    BY <1>3, FS_EmptySet DEF OutputsAnnounced
  <1>5. CommittedFits
    BY <1>1, <1>2, <1>3, <1>4 DEF CommittedFits, DatabaseFits, EndIsTrue, HasBlobs
  <1>6. FilesFit
    BY DEF StoreInit, FilesFit, BlobStates, ChildStates, Collectors, Stages
  <1> QED
    BY <1>5, <1>6 DEF StoreInit, StoreIInv, OpenFits

LEMMA StoreIInvStep ==
    ASSUME StoreIInv, StoreNext
    PROVE  StoreIInv' /\ LogGrows
  <1>1. ASSUME NEW k \in Attempts, Attempt(k) \/ Crash(k)
        PROVE  StoreIInv' /\ LogGrows
    BY <1>1, BeginPublicationKeeps, CommitTaskKeeps, PublishStaleKeeps, PublishOutputKeeps,
       PublishOutputFailsKeeps, FailureLooksKeep, MarkFailedKeeps, TellFailureKeeps, CrashKeeps
       DEF Attempt
  <1>2. ASSUME NEW h \in Hashes, UploadFile(h) \/ DeclareCrs(h) \/ Damage(h)
        PROVE  StoreIInv' /\ LogGrows
    BY <1>2, UploadFileKeeps, DeclareCrsKeeps, DamageKeeps
  <1> QED
    BY <1>1, <1>2, ClaimTaskKeeps, RecoverExpiredLeaseKeeps, FinishRunKeeps,
       AttachTaskInputKeeps, CollectKeeps DEF StoreNext

(* Nothing of the store.                                                   *)
LEMMA StoreIInvStutter ==
    ASSUME StoreIInv, UNCHANGED <<db, txn, blobs, mtime, child, gc>>
    PROVE  StoreIInv' /\ LogGrows
  BY CollectorReadsKeep DEF StoreIInv, FilesFit

-----------------------------------------------------------------------------
(* The server, the wire, the client and the proxy.                         *)
Servers == [pc : {"none", "poll", "check", "done"}, last : Nat]
Clients == [pc : {"away", "connect", "rebase", "open", "live", "refresh", "settled", "closed"},
            view : Projections, terminal : BOOLEAN]

(* Nobody is ahead of the log: the frames on the wire are positions of it, *)
(* the projection and the snapshot of a proxy were taken from it.          *)
WireFits == wire \in Seq(1 .. Len(db.log))
ClientFits == client \in Clients /\ client.view.seq <= Len(db.log)
CacheFits == cached \in Projections /\ cached.seq <= Len(db.log)
StreamFits == server \in Servers /\ WireFits /\ ClientFits /\ CacheFits

EventStreamIInv == StoreIInv /\ left \in [Kinds -> Nat] /\ StreamFits

-----------------------------------------------------------------------------
(* What can be read from the database.                                     *)
LEMMA SnapshotTyped ==
    ASSUME StoreIInv
    PROVE  /\ Snapshot \in Projections /\ Snapshot.seq = Len(db.log) /\ Snapshot.run = db.run
           /\ db.log \in Seq(Events) /\ Len(db.log) \in Nat /\ DOMAIN db.log = 1 .. Len(db.log)
  <1>1. /\ db.log \in Seq(Events) /\ db.run \in RunStatuses /\ db.task \in TaskStatuses
        /\ db.rows \subseteq Artifacts
    BY DEF StoreIInv, CommittedFits, DatabaseFits, Databases, Events
  <1>2. Len(db.log) \in Nat /\ DOMAIN db.log = 1 .. Len(db.log)
    BY <1>1
  <1>3. LastId(db.log) \in Nat
    <2>1. CASE db.log = <<>>
      BY <2>1 DEF LastId
    <2>2. CASE db.log # <<>>
      <3>1. Len(db.log) \in DOMAIN db.log
        BY <1>1, <1>2, <2>2
      <3>2. db.log[Len(db.log)] \in Events
        BY <1>1, <3>1
      <3> QED
        BY <2>2, <3>2 DEF LastId, Events
    <2> QED
      BY <2>1, <2>2
  <1> QED
    BY <1>1, <1>2, <1>3 DEF Snapshot, Projections

LEMMA ApplyTyped ==
    ASSUME StoreIInv, NEW v \in Projections, NEW i \in 1 .. Len(db.log)
    PROVE  Apply(v, i) \in Projections /\ Apply(v, i).seq = i
  <1>1. db.log[i] \in Events
    BY SnapshotTyped
  <1>2. v.run \in RunStatuses /\ v.task \in TaskStatuses /\ v.artifacts \subseteq Artifacts
    BY DEF Projections
  <1>3. RunStatus(v, i) \in RunStatuses
    BY <1>2 DEF RunStatus, RunStatuses
  <1>4. TaskStatus(v, db.log[i]) \in TaskStatuses
    BY <1>2 DEF TaskStatus, TaskStatuses
  <1>5. /\ db.log[i].id \in Nat
        /\ db.log[i].artifact = NoArtifact \/ db.log[i].artifact \in Artifacts
    BY <1>1 DEF Events
  <1>6. i \in Nat
    BY SnapshotTyped
  <1> QED
    BY <1>2, <1>3, <1>4, <1>5, <1>6 DEF Apply, Projections

LEMMA PositionTyped ==
    ASSUME StoreIInv, NEW id
    PROVE  Position(id) \in Nat
  <1> DEFINE seen == {i \in DOMAIN db.log : db.log[i].id <= id}
  <1>1. IsFiniteSet(DOMAIN db.log)
    BY SnapshotTyped, FS_Interval
  <1>2. seen \subseteq DOMAIN db.log
    OBVIOUS
  <1> HIDE DEF seen
  <1>3. IsFiniteSet(seen)
    BY <1>1, <1>2, FS_Subset
  <1>4. Cardinality(seen) \in Nat
    BY <1>3, FS_CardinalityType
  <1> QED
    BY <1>4 DEF Position, seen

LEMMA SpendTyped ==
    ASSUME left \in [Kinds -> Nat], NEW kind \in Kinds, Spend(kind)
    PROVE  left' \in [Kinds -> Nat]
  <1>1. left[kind] \in Nat /\ left[kind] > 0
    BY DEF Spend
  <1>2. left[kind] - 1 \in Nat
    BY <1>1
  <1> QED
    BY <1>2 DEF Spend

LEMMA AnswersTyped ==
    ASSUME EventStreamIInv, NEW s \in Answers
    PROVE  s \in Projections /\ s.seq <= Len(db.log)
  BY SnapshotTyped DEF Answers, EventStreamIInv, StreamFits, CacheFits

LEMMA AnsweredTyped ==
    ASSUME EventStreamIInv, NEW s \in Answers, Answered(s)
    PROVE  left' \in [Kinds -> Nat] /\ cached' \in Projections /\ cached'.seq <= Len(db.log)
  <1>1. s \in Projections /\ s.seq <= Len(db.log)
    BY AnswersTyped
  <1> QED
    BY <1>1, SpendTyped DEF Answered, EventStreamIInv, StreamFits, CacheFits, Kinds

-----------------------------------------------------------------------------
(* Steps of the stream and of the client.                                  *)
LEMMA StreamStepKeeps ==
    ASSUME EventStreamIInv, StoreUnchanged, left' \in [Kinds -> Nat], server' \in Servers,
           wire' \in Seq(1 .. Len(db.log)),
           client' \in Clients, client'.view.seq <= Len(db.log),
           cached' \in Projections, cached'.seq <= Len(db.log)
    PROVE  EventStreamIInv'
  <1>1. StoreIInv'
    BY StoreIInvStutter DEF EventStreamIInv, StoreUnchanged
  <1>2. db' = db
    BY DEF StoreUnchanged
  <1> QED
    BY <1>1, <1>2 DEF EventStreamIInv, StreamFits, WireFits, ClientFits, CacheFits

LEMMA Parts ==
    ASSUME EventStreamIInv
    PROVE  /\ left \in [Kinds -> Nat] /\ server \in Servers
           /\ wire \in Seq(1 .. Len(db.log))
           /\ client \in Clients /\ client.view \in Projections
           /\ client.terminal \in BOOLEAN /\ client.view.seq <= Len(db.log)
           /\ client.view.seq \in Nat
           /\ cached \in Projections /\ cached.seq <= Len(db.log)
           /\ Len(db.log) \in Nat
           /\ NoServer \in Servers /\ <<>> \in Seq(1 .. Len(db.log))
  BY SnapshotTyped DEF EventStreamIInv, StreamFits, WireFits, ClientFits, CacheFits, Clients,
     Servers, NoServer, Projections

LEMMA ServeKeeps ==
    ASSUME EventStreamIInv, Serve, StoreUnchanged
    PROVE  EventStreamIInv'
  <1>1. CASE Poll
    <2>1. Deliverable \in Seq(1 .. Len(db.log))
      <3>1. server.last \in Nat /\ Len(db.log) \in Nat
        BY Parts DEF Servers
      <3>2. \A i \in 1 .. Len(db.log) - server.last : server.last + i \in 1 .. Len(db.log)
        BY <3>1
      <3>3. CASE Len(db.log) - server.last \in Nat
        BY <3>2, <3>3 DEF Deliverable
      <3>4. CASE Len(db.log) - server.last \notin Nat
        <4>1. 1 .. Len(db.log) - server.last = {}
          BY <3>1, <3>4
        <4>2. Deliverable = <<>>
          BY <4>1 DEF Deliverable
        <4> QED
          BY <4>2, Parts
      <3> QED
        BY <3>3, <3>4
    <2>2. wire' \in Seq(1 .. Len(db.log))
      BY <1>1, <2>1, Parts DEF Poll
    <2>3. server' \in Servers
      BY <1>1, Parts DEF Poll, Servers
    <2> QED
      BY <1>1, <2>2, <2>3, Parts, StreamStepKeeps DEF Poll, Serve
  <1>2. CASE CheckTerminal
    <2>1. server' \in Servers
      BY <1>2, Parts DEF CheckTerminal, Servers
    <2> QED
      BY <1>2, <2>1, Parts, StreamStepKeeps DEF CheckTerminal, Serve
  <1> QED
    BY <1>1, <1>2 DEF Serve

LEMMA ConnectKeeps ==
    ASSUME EventStreamIInv, Connect, StoreUnchanged
    PROVE  EventStreamIInv'
  <1>1. client' \in Clients /\ client'.view = client.view
    BY Parts DEF Connect, Clients
  <1>2. left' \in [Kinds -> Nat]
    BY Parts, SpendTyped DEF Connect, Kinds
  <1> QED
    BY <1>1, <1>2, Parts, StreamStepKeeps DEF Connect

LEMMA GetSnapshotKeeps ==
    ASSUME EventStreamIInv, GetSnapshot, StoreUnchanged
    PROVE  EventStreamIInv'
  <1>1. ASSUME NEW s \in Answers, Rebase(s), Answered(s)
        PROVE  EventStreamIInv'
    <2>1. Terminal(s.run) \in BOOLEAN /\ s \in Projections /\ s.seq <= Len(db.log)
      BY AnswersTyped DEF Terminal
    <2>2. client' \in Clients /\ client'.view = s
      BY <1>1, <2>1 DEF Rebase, Clients
    <2> QED
      BY <1>1, <2>1, <2>2, AnsweredTyped, Parts, StreamStepKeeps DEF GetSnapshot
  <1>2. CASE /\ Spend("net")
             /\ client' = [client EXCEPT !.pc = IF @ = "connect" THEN "closed" ELSE "rebase"]
             /\ UNCHANGED cached
    <2>1. client' \in Clients /\ client'.view = client.view
      BY <1>2, Parts DEF Clients
    <2>2. left' \in [Kinds -> Nat]
      BY <1>2, Parts, SpendTyped DEF Kinds
    <2> QED
      BY <1>2, <2>1, <2>2, Parts, StreamStepKeeps DEF GetSnapshot
  <1> QED
    BY <1>1, <1>2 DEF GetSnapshot

LEMMA OpenStreamKeeps ==
    ASSUME EventStreamIInv, OpenStream, StoreUnchanged
    PROVE  EventStreamIInv'
  <1>1. client' \in Clients /\ client'.view = client.view
    BY Parts DEF OpenStream, Clients
  <1>2. server' \in Servers
    <2>1. Position(client.view.id) \in Nat
      BY PositionTyped DEF EventStreamIInv
    <2> QED
      BY <2>1, Parts DEF OpenStream, Servers
  <1> QED
    BY <1>1, <1>2, Parts, StreamStepKeeps DEF OpenStream

LEMMA ReceiveKeeps ==
    ASSUME EventStreamIInv, Receive, StoreUnchanged
    PROVE  EventStreamIInv'
  <1> DEFINE i == Head(wire)
  <1>1. i \in 1 .. Len(db.log) /\ Tail(wire) \in Seq(1 .. Len(db.log))
    BY Parts DEF Receive
  <1>2. CASE wire' = Tail(wire) /\ UNCHANGED <<server, client>>
    BY <1>1, <1>2, Parts, StreamStepKeeps DEF Receive
  <1>3. CASE Hangup /\ client' = [client EXCEPT !.pc = "rebase"]
    <2>1. client' \in Clients /\ client'.view = client.view
      BY <1>3, Parts DEF Clients
    <2> QED
      BY <1>3, <2>1, Parts, StreamStepKeeps DEF Receive, Hangup
  <1>4. CASE /\ client' = [pc |-> IF Checkpoint(db.log[i].type) THEN "refresh" ELSE "live",
                           view |-> Apply(client.view, i),
                           terminal |-> client.terminal \/ EndsRun(i)]
             /\ wire' = Tail(wire) /\ UNCHANGED server
    <2>1. Apply(client.view, i) \in Projections /\ Apply(client.view, i).seq = i
      BY <1>1, Parts, ApplyTyped DEF EventStreamIInv
    <2>2. (client.terminal \/ EndsRun(i)) \in BOOLEAN
      OBVIOUS
    <2>3. client' \in Clients /\ client'.view = Apply(client.view, i)
      BY <1>4, <2>1, <2>2 DEF Clients
    <2>4. i <= Len(db.log)
      BY <1>1, Parts
    <2> QED
      BY <1>1, <1>4, <2>1, <2>3, <2>4, Parts, StreamStepKeeps DEF Receive
  <1> QED
    BY <1>2, <1>3, <1>4 DEF Receive

LEMMA RefreshKeeps ==
    ASSUME EventStreamIInv, Refresh, StoreUnchanged
    PROVE  EventStreamIInv'
  <1>1. ASSUME NEW v \in Projections, v.seq <= Len(db.log), NEW t \in BOOLEAN, Refreshed(v, t),
               left' \in [Kinds -> Nat], cached' \in Projections, cached'.seq <= Len(db.log)
        PROVE  EventStreamIInv'
    <2>1. client' \in Clients /\ client'.view = v
      BY <1>1 DEF Refreshed, Clients
    <2>2. server' \in Servers /\ wire' \in Seq(1 .. Len(db.log))
      BY <1>1, Parts DEF Refreshed, Hangup
    <2> QED
      BY <1>1, <2>1, <2>2, StreamStepKeeps
  <1>2. ASSUME NEW s \in Answers, Answered(s),
               Refreshed(s, Terminal(s.run)) \/ Refreshed(client.view, client.terminal)
        PROVE  EventStreamIInv'
    <2>1. Terminal(s.run) \in BOOLEAN /\ s \in Projections /\ s.seq <= Len(db.log)
      BY AnswersTyped DEF Terminal
    <2> QED
      BY <1>1, <1>2, <2>1, AnsweredTyped, Parts
  <1>3. CASE Spend("net") /\ Refreshed(client.view, client.terminal) /\ UNCHANGED cached
    <2>1. left' \in [Kinds -> Nat]
      BY <1>3, Parts, SpendTyped DEF Kinds
    <2> QED
      BY <1>1, <1>3, <2>1, Parts
  <1> QED
    BY <1>2, <1>3 DEF Refresh

LEMMA ReconnectKeeps ==
    ASSUME EventStreamIInv, Reconnect, StoreUnchanged
    PROVE  EventStreamIInv'
  <1>1. client' \in Clients /\ client'.view = client.view
    BY Parts DEF Reconnect, Clients
  <1> QED
    BY <1>1, Parts, StreamStepKeeps DEF Reconnect

LEMMA NetworkKeeps ==
    ASSUME EventStreamIInv, Network, StoreUnchanged
    PROVE  EventStreamIInv'
  <1>1. left' \in [Kinds -> Nat]
    BY Parts, SpendTyped DEF Network, Disconnect, LoseFrame, RepeatFrame, Offline, Kinds
  <1>2. CASE Disconnect
    <2>1. PICK n \in 0 .. Len(wire) : wire' = SubSeq(wire, 1, n)
      BY <1>2 DEF Disconnect
    <2>2. wire' \in Seq(1 .. Len(db.log))
      BY <2>1, Parts
    <2> QED
      BY <1>1, <1>2, <2>2, Parts, StreamStepKeeps DEF Disconnect
  <1>3. CASE LoseFrame
    <2>1. wire' \in Seq(1 .. Len(db.log))
      BY <1>3, Parts DEF LoseFrame
    <2> QED
      BY <1>1, <1>3, <2>1, Parts, StreamStepKeeps DEF LoseFrame
  <1>4. CASE RepeatFrame
    <2>1. PICK i \in 1 .. client.view.seq : wire' = <<i>> \o wire
      BY <1>4 DEF RepeatFrame
    <2>2. i \in 1 .. Len(db.log)
      BY Parts
    <2>3. wire' \in Seq(1 .. Len(db.log))
      BY <2>1, <2>2, Parts
    <2> QED
      BY <1>1, <1>4, <2>3, Parts, StreamStepKeeps DEF RepeatFrame
  <1>5. CASE Offline
    <2>1. client' \in Clients /\ client'.view = client.view
      BY <1>5, Parts DEF Offline, Clients
    <2> QED
      BY <1>1, <1>5, <2>1, Parts, StreamStepKeeps DEF Offline, Hangup
  <1> QED
    BY <1>2, <1>3, <1>4, <1>5 DEF Network

-----------------------------------------------------------------------------
(* Steps of the store.                                                     *)
LEMMA SeqGrows ==
    ASSUME NEW S, NEW T, S \subseteq T, NEW s \in Seq(S)
    PROVE  s \in Seq(T)
  OBVIOUS

LEMMA StoreStepFits ==
    ASSUME EventStreamIInv, StoreNext, UNCHANGED streamVars
    PROVE  EventStreamIInv'
  <1>1. StoreIInv' /\ Len(db.log) <= Len(db'.log)
    BY StoreIInvStep DEF EventStreamIInv, LogGrows
  <1>2. Len(db.log) \in Nat /\ Len(db'.log) \in Nat
    <2>1. db'.log \in Seq(Events)
      BY <1>1 DEF StoreIInv, CommittedFits, DatabaseFits, Databases, Events
    <2> QED
      BY <2>1, Parts
  <1>3. left' \in [Kinds -> Nat]
    BY Parts, SpendTyped DEF StoreNext, Attempt, Collect, ClaimTask, RecoverExpiredLease,
       FinishRun, BeginPublication, CommitTask, PublishStale, PublishOutput,
       PublishOutputFails, CheckClaim, LookAtTask, MarkFailed, TellFailure, Crash,
       UploadFile, DeclareCrs, Damage,
       AttachTaskInput, CandidateManifest, ManifestDone, ReleaseManifest, StageOne,
       ConfirmDone, LeaseCandidate, StageTwo, LeaseExpires, Age, Kinds
  <1>4. wire \in Seq(1 .. Len(db'.log))
    <2>1. 1 .. Len(db.log) \subseteq 1 .. Len(db'.log)
      BY <1>1, <1>2
    <2>2. wire \in Seq(1 .. Len(db.log))
      BY Parts
    <2> QED
      BY <2>1, <2>2, SeqGrows
  <1>5. client.view.seq <= Len(db'.log) /\ cached.seq <= Len(db'.log)
    BY <1>1, <1>2, Parts DEF Projections
  <1> QED
    BY <1>1, <1>3, <1>4, <1>5, Parts
       DEF EventStreamIInv, StreamFits, WireFits, ClientFits, CacheFits, streamVars

LEMMA EventStreamIInvInit == Init => EventStreamIInv
  <1> SUFFICES ASSUME Init
               PROVE  EventStreamIInv
    OBVIOUS
  <1>1. StoreIInv
    BY StoreIInvInit DEF Init
  <1>2. left \in [Kinds -> Nat]
    BY ArtifactsAssumption DEF Init, StoreInit
  <1>3. Len(db.log) \in Nat /\ Snapshot \in Projections /\ Snapshot.seq <= Len(db.log)
    BY <1>1, SnapshotTyped
  <1>4. server \in Servers /\ WireFits
    BY <1>3 DEF Init, NoServer, Servers, WireFits
  <1>5. ClientFits
    BY <1>3 DEF Init, ClientFits, Clients
  <1> QED
    BY <1>1, <1>2, <1>3, <1>4, <1>5 DEF Init, EventStreamIInv, StreamFits, CacheFits

LEMMA EventStreamIInvStep == EventStreamIInv /\ [Next]_vars => EventStreamIInv'
  <1> SUFFICES ASSUME EventStreamIInv, [Next]_vars
               PROVE  EventStreamIInv'
    OBVIOUS
  <1>1. CASE StoreNext /\ UNCHANGED streamVars
    BY <1>1, StoreStepFits
  <1>2. CASE StreamNext /\ StoreUnchanged
    BY <1>2, ServeKeeps, ConnectKeeps, GetSnapshotKeeps, OpenStreamKeeps, ReceiveKeeps,
       RefreshKeeps, ReconnectKeeps, NetworkKeeps DEF StreamNext, Watch
  <1>3. CASE UNCHANGED vars
    BY <1>3, Parts, StreamStepKeeps DEF vars, StoreUnchanged
  <1> QED
    BY <1>1, <1>2, <1>3 DEF Next, StoreUnchanged

LEMMA EventStreamInvariant == Spec => []EventStreamIInv
  BY EventStreamIInvInit, EventStreamIInvStep, PTL DEF Spec

-----------------------------------------------------------------------------
(* Type correctness of the store, of the stream and of the client: for one *)
(* thing, the frames on the wire always name events of the log.            *)
THEOREM StreamTypeCorrect == Spec => []StreamTypeOK
  <1>1. EventStreamIInv => StreamTypeOK
    <2> SUFFICES ASSUME EventStreamIInv
                 PROVE  StreamTypeOK
      OBVIOUS
    <2>1. StoreTypeOK
      <3>1. db \in Databases
        BY DEF EventStreamIInv, StoreIInv, CommittedFits, DatabaseFits
      <3>2. /\ txn.owner \in {Nobody} \cup Attempts
            /\ txn.owner # Nobody => txn.db \in Databases /\ txn.todo \subseteq Ports
                                     /\ txn.hash \in [Ports -> Hashes]
        BY DEF EventStreamIInv, StoreIInv, OpenFits, Closed, Transactions
      <3>3. gc \in Collectors
        BY DEF EventStreamIInv, StoreIInv, FilesFit
      <3>4. /\ gc.pc \in {"idle", "lease", "confirm", "stage one", "stage two"}
            /\ gc.manifest \subseteq Artifacts /\ gc.todo \subseteq Artifacts
            /\ gc.confirmed \subseteq Artifacts /\ gc.seen \in [Hashes -> Nat]
        BY <3>3 DEF Collectors, Stages
      <3> QED
        BY <3>1, <3>2, <3>4, Parts
           DEF EventStreamIInv, StoreIInv, FilesFit, BlobStates, ChildStates, StoreTypeOK
    <2>2. wire \in Seq(Nat)
      <3>1. 1 .. Len(db.log) \subseteq Nat
        BY Parts
      <3> QED
        BY <3>1, Parts
    <2> QED
      BY <2>1, <2>2, Parts DEF StreamTypeOK, Servers, Clients
  <1> QED
    BY <1>1, EventStreamInvariant, PTL

(* A committed row always has its file: transactions that fail or crash    *)
(* between a move of a file and their commit do not take it away, nor does *)
(* a refused row of another artifact with the same content.                *)
THEOREM RowsHaveBlobs == Spec => []RowHasBlob
  <1>1. EventStreamIInv => RowHasBlob
    BY DEF EventStreamIInv, StoreIInv, CommittedFits, HasBlobs, RowHasBlob
  <1> QED
    BY <1>1, EventStreamInvariant, PTL

(* The outputs of a task become visible together, with the success of the  *)
(* task, and each was announced exactly once.                              *)
THEOREM OutputsAreAtomic == Spec => []OutputsAppearTogether
  <1>1. EventStreamIInv => OutputsAppearTogether
    BY DEF EventStreamIInv, StoreIInv, CommittedFits, DatabaseFits, OutputsAnnounced, Outputs,
       OutputPorts, Announced, OutputsAppearTogether
  <1> QED
    BY <1>1, EventStreamInvariant, PTL

(* The collector confirms only what nothing refers to in the database it   *)
(* confirms against, whatever was committed since the manifest was made.   *)
THEOREM CollectorIsSafe == Spec => ConfirmedIsGarbage
  <1> DEFINE Safe == \A a \in gc'.confirmed \ gc.confirmed :
                         \A b \in Referenced(db') : HashOf(b) # HashOf(a)
  <1>1. ASSUME EventStreamIInv, NEW a \in Artifacts, StageTwo(a)
        PROVE  Safe
    <2>1. gc \in Collectors /\ db \in Databases
      BY <1>1 DEF EventStreamIInv, StoreIInv, FilesFit, CommittedFits, DatabaseFits
    <2>2. CASE StillGarbage(a)
      <3>1. gc' = [gc EXCEPT !.todo = gc.todo \ {a}, !.confirmed = gc.confirmed \cup {a}]
        BY <1>1, <2>2 DEF StageTwo
      <3>2. gc'.confirmed \ gc.confirmed \subseteq {a}
        BY <2>1, <3>1 DEF Collectors
      <3>3. db' = [db EXCEPT !.leases = db.leases \cup {a}]
        BY <1>1, <2>2 DEF StageTwo
      <3>4. db'.rows = db.rows /\ db'.inputs = db.inputs
        BY <2>1, <3>3 DEF Databases
      <3>5. Referenced(db') = Referenced(db)
        BY <3>4 DEF Referenced, Parents
      <3>6. \A b \in Referenced(db) : HashOf(b) # HashOf(a)
        BY <2>2 DEF StillGarbage, ReachableHashes
      <3> QED
        BY <3>2, <3>5, <3>6
    <2>3. CASE ~StillGarbage(a)
      <3>1. gc' = [gc EXCEPT !.todo = gc.todo \ {a}]
        BY <1>1, <2>3 DEF StageTwo
      <3>2. gc'.confirmed = gc.confirmed
        BY <2>1, <3>1 DEF Collectors
      <3> QED
        BY <3>2
    <2> QED
      BY <2>2, <2>3
  <1>2. ASSUME EventStreamIInv, Collect, \A a \in Artifacts : ~StageTwo(a)
        PROVE  gc'.confirmed \subseteq gc.confirmed
    <2>1. gc \in Collectors
      BY <1>2 DEF EventStreamIInv, StoreIInv, FilesFit
    <2> QED
      BY <1>2, <2>1 DEF Collect, CandidateManifest, ManifestDone, ReleaseManifest, StageOne,
         ConfirmDone, LeaseCandidate, LeaseExpires, Age, Collectors
  <1>3. ASSUME StoreNext, ~Collect
        PROVE  gc' = gc
    BY <1>3 DEF StoreNext, Attempt, ClaimTask, RecoverExpiredLease,
       FinishRun, BeginPublication, CommitTask, PublishStale, PublishOutput,
       PublishOutputFails, CheckClaim, LookAtTask, MarkFailed, TellFailure, Crash, UploadFile,
       DeclareCrs, Damage, AttachTaskInput
  <1>4. EventStreamIInv /\ [Next]_vars => [Safe]_storeVars
    <2>1. ASSUME EventStreamIInv, StoreNext
          PROVE  Safe
      BY <1>1, <1>2, <1>3, <2>1
    <2>2. gc' = gc => Safe
      OBVIOUS
    <2> QED
      BY <2>1, <2>2 DEF Next, vars, storeVars
  <1> QED
    BY <1>4, EventStreamInvariant, PTL DEF Spec, ConfirmedIsGarbage

(* A stream ends only when all of the log was sent and the run is over,    *)
(* though the two are read at different times.                             *)
THEOREM StreamsEndInOrder == Spec => NoTailLost
  <1> DEFINE Sent == server.pc # "done" /\ server'.pc = "done"
                        => server'.last = Len(db.log) /\ Terminal(db.run)
  <1>1. ASSUME EventStreamIInv, Poll
        PROVE  Sent
    <2> SUFFICES ASSUME server'.pc = "done"
                 PROVE  server'.last = Len(db.log) /\ Terminal(db.run)
      OBVIOUS
    <2>1. PICK n \in DOMAIN Deliverable : EndsRun(Deliverable[n])
      BY <1>1 DEF Poll
    <2>2. Deliverable[n] \in DOMAIN db.log
      <3>1. server.last \in Nat /\ Len(db.log) \in Nat /\ DOMAIN db.log = 1 .. Len(db.log)
        BY <1>1, Parts, SnapshotTyped DEF Servers, EventStreamIInv
      <3> QED
        BY <3>1 DEF Deliverable
    <2>3. db.run # "running" /\ db.run \in RunStatuses
      BY <1>1, <2>1, <2>2 DEF EventStreamIInv, StoreIInv, CommittedFits, DatabaseFits,
         EndIsTrue, EndsRun, Databases
    <2> QED
      BY <1>1, <2>3 DEF Poll, Terminal, RunStatuses
  <1>2. ASSUME EventStreamIInv, CheckTerminal
        PROVE  Sent
    BY <1>2, Parts DEF CheckTerminal, Servers
  <1>3. ASSUME EventStreamIInv, StreamNext, ~Serve
        PROVE  server' = server \/ server'.pc # "done"
    BY <1>3 DEF StreamNext, Watch, Network, Connect, GetSnapshot, OpenStream, Receive, Refresh,
       Refreshed, Reconnect, Disconnect, LoseFrame, RepeatFrame, Offline, Hangup, NoServer
  <1>4. EventStreamIInv /\ [Next]_vars => [Sent]_vars
    <2>1. server' = server => Sent
      OBVIOUS
    <2>2. ASSUME EventStreamIInv, StreamNext
          PROVE  Sent
      BY <1>1, <1>2, <1>3, <2>1, <2>2 DEF Serve
    <2> QED
      BY <2>1, <2>2 DEF Next, vars, streamVars
  <1> QED
    BY <1>4, EventStreamInvariant, PTL DEF Spec, NoTailLost
=============================================================================
