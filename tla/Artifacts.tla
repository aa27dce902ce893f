------------------------------ MODULE Artifacts ------------------------------
(***************************************************************************)
(* The artifact store of runtime/artifacts.py: blobs on disk, named by the *)
(* hash of their content, and rows of table artifacts that refer to them.  *)
(* The outputs of a task are published by the process of an attempt, in    *)
(* one transaction with the success of the task and its events; files are  *)
(* moved while that transaction is open, and are not rolled back with it.  *)
(* Uploads, the records a planner derives from them, and the collector of  *)
(* unreferenced blobs work on the same rows and files.                     *)
(*                                                                         *)
(* SQLite has one writer at a time and readers see what is committed: db   *)
(* is the committed database, txn the copy an open transaction works on.   *)
(***************************************************************************)
EXTENDS Naturals, Sequences, FiniteSets

CONSTANTS
    Hashes,       \* content hashes
    Ports,        \* output ports of the task
    Upload,       \* name of the uploaded file
    Declared,     \* name of the record derived from it (declared CRS)
    MaxAttempts,  \* max_attempts of the task's retry policy
    Budgets       \* bound: how often the rest of the world may act, see Kinds

Attempts == 1 .. MaxAttempts
Nobody == 0

Kinds == {"crash", "failure", "upload", "damage", "collect", "watch", "net"}

ASSUME ArtifactsAssumption ==
    /\ Upload # Declared /\ {Upload, Declared} \cap Ports = {}
    /\ MaxAttempts \in Nat \ {0}
    /\ Budgets \subseteq [Kinds -> Nat]

(* An artifact is named by what produced it and by its content: the id of  *)
(* a task output is computed from these, that of an upload is fresh.       *)
Names == Ports \cup {Upload, Declared}
Artifacts == Names \X Hashes
HashOf(a) == a[2]

EventTypes == {"task.started", "task.retry_wait", "task.lease_expired", "artifact.published",
               "task.completed", "task.status_changed", "task.failed",
               "run.status_changed", "run.completed", "run.failed"}
NoArtifact == <<>>

VARIABLES
    db,       \* the committed database
    txn,      \* the open write transaction: its owner, its view, ports left
    blobs,    \* the files under artifacts/sha256
    mtime,    \* their modification times: how often each was put in place
    child,    \* the process of every attempt
    gc,       \* the collector
    left      \* bound: what is left of the budget

storeVars == <<db, txn, blobs, mtime, child, gc, left>>

RunStatuses == {"running", "completed", "failed"}
TaskStatuses == {"ready", "running", "retry_wait", "succeeded", "failed"}

Databases == [rows : SUBSET Artifacts,        \* artifacts
              inputs : SUBSET Artifacts,      \* task_inputs (of other runs)
              leases : SUBSET Artifacts,      \* artifact_leases: live, by key
              old : SUBSET Artifacts,         \* created before the grace period
              run : RunStatuses, task : TaskStatuses,
              attempts : 0 .. MaxAttempts,
              holder : {Nobody} \cup Attempts, \* the claim on the task
              log : Seq([id : Nat, type : EventTypes, artifact : Artifacts \cup {NoArtifact}]),
              lastId : Nat]                   \* event_id is shared by all runs

StoreTypeOK ==
    /\ db \in Databases
    /\ txn.owner \in {Nobody} \cup Attempts
    /\ txn.owner # Nobody => txn.db \in Databases /\ txn.todo \subseteq Ports
                             /\ txn.hash \in [Ports -> Hashes]
    /\ blobs \in [Hashes -> {"absent", "intact", "damaged"}]
    /\ mtime \in [Hashes -> Nat]
    /\ child \in [Attempts -> {"off", "running", "publishing", "failing",
                                "looking", "marking", "telling"}]
    /\ gc.pc \in {"idle", "lease", "confirm", "stage one", "stage two"}
    /\ gc.manifest \subseteq Artifacts /\ gc.todo \subseteq Artifacts
    /\ gc.confirmed \subseteq Artifacts /\ gc.seen \in [Hashes -> Nat]
    /\ left \in [Kinds -> Nat]

Closed == [owner |-> Nobody]

StoreInit ==
    /\ db = [rows |-> {}, inputs |-> {}, leases |-> {}, old |-> {}, run |-> "running",
             task |-> "ready", attempts |-> 0, holder |-> Nobody, log |-> <<>>, lastId |-> 0]
    /\ txn = Closed
    /\ blobs = [h \in Hashes |-> "absent"]
    /\ mtime = [h \in Hashes |-> 0]
    /\ child = [k \in Attempts |-> "off"]
    /\ gc = [pc |-> "idle", manifest |-> {}, todo |-> {}, confirmed |-> {},
             seen |-> [h \in Hashes |-> 0]]
    /\ left \in Budgets

-----------------------------------------------------------------------------
(* Transactions.                                                           *)
Writable == txn = Closed
Spend(kind) == left[kind] > 0 /\ left' = [left EXCEPT ![kind] = @ - 1]

(* _append_event_conn: the next seq of the run, the next id of the table.  *)
Log(d, type, a) ==
    [d EXCEPT !.log = Append(@, [id |-> d.lastId + 1, type |-> type, artifact |-> a]),
              !.lastId = @ + 1]
LogRun(d, type) == Log(d, type, NoArtifact)

(* Mutation of Aggregate: the run takes over the status of the task.       *)
AggregateByTask(d) ==
    LogRun(LogRun([d EXCEPT !.run = d.task], "run.status_changed"), "run." \o d.task)

(* aggregate_run_terminal, for a plan of one task.                         *)
Aggregate(d) ==
    IF d.task = "succeeded"
    THEN LogRun(LogRun([d EXCEPT !.run = "completed"], "run.status_changed"), "run.completed")
    ELSE LogRun(LogRun([d EXCEPT !.run = "failed"], "run.status_changed"), "run.failed")

-----------------------------------------------------------------------------
(* Files.                                                                  *)
(* What publish_staged does to the blob of hash h: a healthy one is used   *)
(* again, else the staged file replaces it.                                *)
Replace(h) == mtime' = IF blobs[h] = "intact" THEN mtime ELSE [mtime EXCEPT ![h] = @ + 1]
PutBlob(h) == blobs' = [blobs EXCEPT ![h] = "intact"] /\ Replace(h)

(* Mutation of Withdraw: the other rows with this content are not asked    *)
(* for.                                                                    *)
WithdrawAlways(d, h) == blobs' = [blobs EXCEPT ![h] = "absent"]

(* The row could not be inserted: the blob goes to quarantine unless a row *)
(* has its hash.                                                           *)
Withdraw(d, h) ==
    blobs' = [blobs EXCEPT ![h] = IF \E a \in d.rows : HashOf(a) = h THEN "intact" ELSE "absent"]

(* _require_valid_artifact: a row can be referred to if its file is there. *)
Valid(a) == a \in db.rows /\ blobs[HashOf(a)] = "intact"

-----------------------------------------------------------------------------
(* The task, by module TaskQueue in detail: a claim starts an attempt, the *)
(* fence of an attempt whose lease ran out is void, and so is its process. *)
ClaimTask ==
    /\ Writable
    /\ db.task \in {"ready", "retry_wait"} /\ db.attempts < MaxAttempts
    /\ LET k == db.attempts + 1
       IN  /\ db' = LogRun([db EXCEPT !.task = "running", !.attempts = k, !.holder = k],
                           "task.started")
           /\ child' = [child EXCEPT ![k] = "running"]
    /\ UNCHANGED <<txn, blobs, mtime, gc, left>>

(* recover_expired_leases, for a task without side effects (one that has   *)
(* them is parked for its user, by module TaskQueue).                      *)
RecoverExpiredLease ==
    /\ Writable
    /\ db.task = "running"
    /\ IF child[db.holder] = "off" THEN UNCHANGED left ELSE Spend("crash")
    /\ LET d == [db EXCEPT !.holder = Nobody]
       IN  db' = IF db.attempts < MaxAttempts
                 THEN LogRun([d EXCEPT !.task = "retry_wait"], "task.retry_wait")
                 ELSE Aggregate(LogRun([d EXCEPT !.task = "failed"], "task.lease_expired"))
    /\ UNCHANGED <<txn, blobs, mtime, child, gc>>

(* RuntimeExecutor.execute.  The handler has run and its outputs are       *)
(* encoded; their contents, which may be equal, are the handler's.         *)
BeginPublication(k) ==
    /\ Writable
    /\ child[k] = "running"
    /\ child' = [child EXCEPT ![k] = "publishing"]
    /\ \E h \in [Ports -> Hashes] :
           txn' = [owner |-> k, db |-> db, todo |-> Ports, hash |-> h]
    /\ UNCHANGED <<db, blobs, mtime, gc, left>>

(* An exception: the transaction is rolled back.                           *)
Rollback(k) == txn' = Closed /\ child' = [child EXCEPT ![k] = "failing"]

(* Mutation of PublishOutput: each output commits on its own.              *)
PublishAndCommit(k, p) ==
    LET a == <<p, txn.hash[p]>>
        d == Log([txn.db EXCEPT !.rows = @ \cup {a}], "artifact.published", a)
    IN  /\ txn.owner = k /\ p \in txn.todo /\ txn.db.holder = k
        /\ PutBlob(HashOf(a))
        /\ db' = d
        /\ txn' = [txn EXCEPT !.todo = @ \ {p}, !.db = d]
        /\ UNCHANGED <<child, gc, left>>

(* stage_bytes and publish_staged under the fence of the claim.            *)
PublishOutput(k, p) ==
    LET a == <<p, txn.hash[p]>>
        d == Log([txn.db EXCEPT !.rows = @ \cup {a}], "artifact.published", a)
    IN  /\ txn.owner = k /\ p \in txn.todo /\ txn.db.holder = k
        /\ PutBlob(HashOf(a))
        /\ txn' = [txn EXCEPT !.todo = @ \ {p}, !.db = d]
        /\ UNCHANGED <<db, child, gc, left>>

(* The row is refused, by the fence or by the database.                    *)
PublishOutputFails(k, p) ==
    /\ txn.owner = k /\ p \in txn.todo /\ txn.db.holder = k
    /\ Spend("failure")
    /\ Replace(txn.hash[p]) /\ Withdraw(txn.db, txn.hash[p])
    /\ Rollback(k)
    /\ UNCHANGED <<db, gc>>

CommitTask(k) ==
    /\ txn.owner = k /\ txn.todo = {} /\ txn.db.holder = k
    /\ db' = LogRun([txn.db EXCEPT !.task = "succeeded", !.holder = Nobody], "task.completed")
    /\ txn' = Closed
    /\ child' = [child EXCEPT ![k] = "off"]
    /\ UNCHANGED <<blobs, mtime, gc, left>>

(* assert_claim_current finds another claim.                               *)
PublishStale(k) ==
    /\ txn.owner = k /\ txn.db.holder # k
    /\ Rollback(k)
    /\ UNCHANGED <<db, blobs, mtime, gc, left>>

(* _mark_failed, four transactions.  A first read finds another claim, and *)
(* the attempt is silent ...                                               *)
CheckClaim(k) ==
    /\ child[k] = "failing"
    /\ child' = [child EXCEPT ![k] = IF db.holder = k THEN "looking" ELSE "off"]
    /\ UNCHANGED <<db, txn, blobs, mtime, gc, left>>

(* ... a second one finds a task that is not running any more ...          *)
LookAtTask(k) ==
    /\ child[k] = "looking"
    /\ child' = [child EXCEPT ![k] = IF db.task = "running" THEN "marking" ELSE "telling"]
    /\ UNCHANGED <<db, txn, blobs, mtime, gc, left>>

(* ... update_task_status has the fence of the claim ...                   *)
MarkFailed(k) ==
    /\ Writable
    /\ child[k] = "marking"
    /\ IF db.holder = k
       THEN /\ db' = LogRun([db EXCEPT !.task = "failed", !.holder = Nobody],
                            "task.status_changed")
            /\ child' = [child EXCEPT ![k] = "telling"]
       ELSE child' = [child EXCEPT ![k] = "off"] /\ UNCHANGED db
    /\ UNCHANGED <<txn, blobs, mtime, gc, left>>

(* ... and append_event has none: the task may be in other hands, and the  *)
(* run over.                                                               *)
TellFailure(k) ==
    /\ Writable
    /\ child[k] = "telling"
    /\ db' = LogRun(db, "task.failed")
    /\ child' = [child EXCEPT ![k] = "off"]
    /\ UNCHANGED <<txn, blobs, mtime, gc, left>>

(* The process dies, or is killed, and SQLite forgets its transaction.     *)
Crash(k) ==
    /\ child[k] # "off"
    /\ Spend("crash")
    /\ child' = [child EXCEPT ![k] = "off"]
    /\ txn' = IF txn.owner = k THEN Closed ELSE txn
    /\ UNCHANGED <<db, blobs, mtime, gc>>

FinishRun ==
    /\ Writable
    /\ db.run = "running" /\ db.task \in {"succeeded", "failed"}
    /\ db' = Aggregate(db)
    /\ UNCHANGED <<txn, blobs, mtime, child, gc, left>>

Attempt(k) ==
    \/ BeginPublication(k) \/ CommitTask(k) \/ PublishStale(k)
    \/ \E p \in Ports : PublishOutput(k, p) \/ PublishOutputFails(k, p)
    \/ CheckClaim(k) \/ LookAtTask(k) \/ MarkFailed(k) \/ TellFailure(k)

-----------------------------------------------------------------------------
(* Uploads and references from elsewhere.                                  *)
(* upload_runtime_artifact: the row commits, or is refused, or the process *)
(* dies between the move of the file and the commit.                       *)
UploadFile(h) ==
    /\ Writable
    /\ ~\E a \in db.rows : a[1] = Upload
    /\ Spend("upload")
    /\ \/ PutBlob(h) /\ db' = [db EXCEPT !.rows = @ \cup {<<Upload, h>>}]
       \/ PutBlob(h) /\ UNCHANGED db
       \/ Replace(h) /\ Withdraw(db, h) /\ UNCHANGED db
    /\ UNCHANGED <<txn, child, gc>>

(* _resolve_file_crs_declarations, for another run: a second row for the   *)
(* same blob, without the file being touched.  Its event takes an id.      *)
DeclareCrs(h) ==
    /\ Writable
    /\ Valid(<<Upload, h>>) /\ <<Declared, h>> \notin db.rows
    /\ db' = [db EXCEPT !.rows = @ \cup {<<Declared, h>>}, !.lastId = @ + 1]
    /\ UNCHANGED <<txn, blobs, mtime, child, gc, left>>

(* A task of another run is given the file as its input.                   *)
AttachTaskInput(a) ==
    /\ Writable
    /\ a[1] \in {Upload, Declared} /\ Valid(a) /\ a \notin db.inputs
    /\ db' = [db EXCEPT !.inputs = @ \cup {a}]
    /\ UNCHANGED <<txn, blobs, mtime, child, gc, left>>

(* The disk loses the content of a file.                                   *)
Damage(h) ==
    /\ blobs[h] = "intact"
    /\ Spend("damage")
    /\ blobs' = [blobs EXCEPT ![h] = "damaged"]
    /\ UNCHANGED <<db, txn, mtime, child, gc>>

-----------------------------------------------------------------------------
(* The collector.  It deletes nothing: it hands a manifest to an operator. *)
Parents(d, a) == IF a[1] = Declared THEN {<<Upload, HashOf(a)>>} ELSE {}

(* reachable_artifact_ids without the leases: outputs of tasks, inputs of  *)
(* tasks, and what these were made from.                                   *)
Referenced(d) ==
    LET roots == {a \in d.rows : a[1] \in Ports} \cup d.inputs
    IN  roots \cup UNION {Parents(d, a) : a \in roots}

(* reachable_content_hashes: a live lease keeps its hash, too.             *)
ReachableHashes(d) == {HashOf(a) : a \in Referenced(d) \cup d.leases}

(* _candidate_rows.                                                        *)
CandidateManifest ==
    /\ gc.pc = "idle"
    /\ Spend("collect")
    /\ LET found == {a \in db.rows \cap db.old :
                        HashOf(a) \notin ReachableHashes(db) /\ blobs[HashOf(a)] = "intact"}
       IN  gc' = [gc EXCEPT !.pc = "lease", !.todo = found, !.manifest = {}]
    /\ UNCHANGED <<db, txn, blobs, mtime, child>>

(* lease_artifact, one transaction per candidate; one lease per hash.      *)
LeaseCandidate(a) ==
    /\ gc.pc = "lease" /\ a \in gc.todo
    /\ Writable
    /\ LET taken == \E b \in db.leases \ {a} : HashOf(b) = HashOf(a)
       IN  /\ db' = IF taken THEN db ELSE [db EXCEPT !.leases = @ \cup {a}]
           /\ gc' = [gc EXCEPT !.todo = @ \ {a},
                               !.manifest = IF taken THEN @ ELSE @ \cup {a}]
    /\ UNCHANGED <<txn, blobs, mtime, child, left>>

ManifestDone ==
    /\ gc.pc = "lease" /\ gc.todo = {}
    /\ gc' = [gc EXCEPT !.pc = IF gc.manifest = {} THEN "idle" ELSE "confirm"]
    /\ UNCHANGED <<db, txn, blobs, mtime, child, left>>

(* confirm_candidate_manifest gives the leases of the manifest back ...    *)
ReleaseManifest ==
    /\ gc.pc = "confirm"
    /\ Writable
    /\ db' = [db EXCEPT !.leases = @ \ gc.manifest]
    /\ gc' = [gc EXCEPT !.pc = "stage one"]
    /\ UNCHANGED <<txn, blobs, mtime, child, left>>

(* ... reads references and files without a transaction ...                *)
StageOne ==
    /\ gc.pc = "stage one"
    /\ gc' = [gc EXCEPT !.pc = "stage two", !.seen = mtime,
                        !.todo = {a \in gc.manifest : HashOf(a) \notin ReachableHashes(db)
                                                      /\ blobs[HashOf(a)] = "intact"}]
    /\ UNCHANGED <<db, txn, blobs, mtime, child, left>>

(* Mutation of StillGarbage: stage two trusts stage one.                   *)
GarbageAsSeen(a) == blobs[HashOf(a)] # "absent" /\ mtime[HashOf(a)] = gc.seen[HashOf(a)]

(* The file is the one that was seen, and nothing came to refer to it.     *)
StillGarbage(a) ==
    /\ blobs[HashOf(a)] # "absent" /\ mtime[HashOf(a)] = gc.seen[HashOf(a)]
    /\ HashOf(a) \notin ReachableHashes(db)

(* ... and takes each in a transaction that looks again.                   *)
StageTwo(a) ==
    /\ gc.pc = "stage two" /\ a \in gc.todo
    /\ Writable
    /\ IF StillGarbage(a)
       THEN /\ db' = [db EXCEPT !.leases = @ \cup {a}]
            /\ gc' = [gc EXCEPT !.todo = @ \ {a}, !.confirmed = @ \cup {a}]
       ELSE gc' = [gc EXCEPT !.todo = @ \ {a}] /\ UNCHANGED db
    /\ UNCHANGED <<txn, blobs, mtime, child, left>>

ConfirmDone ==
    /\ gc.pc = "stage two" /\ gc.todo = {}
    /\ gc' = [gc EXCEPT !.pc = "idle", !.manifest = {}, !.confirmed = {}]
    /\ UNCHANGED <<db, txn, blobs, mtime, child, left>>

(* Time: a lease of one hour ends, a file outlives the grace period.       *)
LeaseExpires(a) ==
    /\ Writable
    /\ a \in db.leases
    /\ db' = [db EXCEPT !.leases = @ \ {a}]
    /\ UNCHANGED <<txn, blobs, mtime, child, gc, left>>

(* Bound: nothing ages once nobody will collect, nor what is referenced as *)
(* the output of a task.                                                   *)
Age(a) ==
    /\ Writable
    /\ left["collect"] > 0
    /\ a \in db.rows \ db.old /\ a[1] \notin Ports
    /\ db' = [db EXCEPT !.old = @ \cup {a}]
    /\ UNCHANGED <<txn, blobs, mtime, child, gc, left>>

Collect ==
    \/ CandidateManifest \/ ManifestDone \/ ReleaseManifest \/ StageOne \/ ConfirmDone
    \/ \E a \in Artifacts : LeaseCandidate(a) \/ StageTwo(a) \/ LeaseExpires(a) \/ Age(a)

StoreNext ==
    \/ ClaimTask \/ RecoverExpiredLease \/ FinishRun
    \/ \E k \in Attempts : Attempt(k) \/ Crash(k)
    \/ \E h \in Hashes : UploadFile(h) \/ DeclareCrs(h) \/ Damage(h)
    \/ \E a \in Artifacts : AttachTaskInput(a)
    \/ Collect

-----------------------------------------------------------------------------
(* "The database never refers to a missing payload": whatever is committed *)
(* has its file, though files are moved inside transactions that fail,     *)
(* crash, or share the content with others.  (What the disk damages stays  *)
(* damaged until the content is published again.)                          *)
RowHasBlob == \A a \in db.rows : blobs[HashOf(a)] # "absent"

(* A reader sees all the outputs of a task or none, and the task as        *)
(* succeeded only with all of them, one per port, announced once each.     *)
OutputsAppearTogether ==
    LET outputs == {a \in db.rows : a[1] \in Ports}
        announced == {i \in DOMAIN db.log : db.log[i].type = "artifact.published"}
    IN  /\ db.task # "succeeded" => outputs = {}
        /\ db.task = "succeeded" => {a[1] : a \in outputs} = Ports
        /\ Cardinality(announced) = Cardinality(outputs)
        /\ {db.log[i].artifact : i \in announced} = outputs

(* What the collector confirms has no reference, by any artifact with the  *)
(* same content, from any row committed until then.                        *)
ConfirmedIsGarbage ==
    [][\A a \in gc'.confirmed \ gc.confirmed :
          \A b \in Referenced(db') : HashOf(b) # HashOf(a)]_storeVars
=============================================================================
