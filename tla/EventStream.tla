----------------------------- MODULE EventStream -----------------------------
(***************************************************************************)
(* A browser watches a run: useRuntimeRun.ts takes a snapshot, follows the *)
(* events of the run through _event_stream of api/runtime.py from the      *)
(* cursor of the snapshot, and refreshes its projection at checkpoints.    *)
(* Connections break, proxies lose and repeat frames and answer with old   *)
(* snapshots, and the run goes on in module Artifacts, which this module   *)
(* composes with the stream and the client.                                *)
(***************************************************************************)
EXTENDS Artifacts

VARIABLES
    server,   \* the generator behind the open connection, if any
    wire,     \* frames on their way, as positions in the log
    client,   \* the hook: its state and its projection
    cached    \* the snapshot a proxy still has

streamVars == <<server, wire, client, cached>>
vars == <<db, txn, blobs, mtime, child, gc, left, server, wire, client, cached>>

Terminal(status) == status \in {"completed", "failed"}

(* get_run_snapshot, in one read transaction; seq and id are its cursor.   *)
LastId(log) == IF log = <<>> THEN 0 ELSE log[Len(log)].id
Snapshot ==
    [run |-> db.run, task |-> db.task, artifacts |-> {a \in db.rows : a[1] \in Ports},
     seq |-> Len(db.log), id |-> LastId(db.log)]

Projections == [run : RunStatuses, task : TaskStatuses, artifacts : SUBSET Artifacts,
                seq : Nat, id : Nat]

(* "closed": the first snapshot failed, and only the user can try again.   *)
StreamTypeOK ==
    /\ StoreTypeOK
    /\ server.pc \in {"none", "poll", "check", "done"} /\ server.last \in Nat
    /\ wire \in Seq(Nat)
    /\ client.pc \in {"away", "connect", "rebase", "open", "live", "refresh", "settled", "closed"}
    /\ client.view \in Projections /\ client.terminal \in BOOLEAN
    /\ cached \in Projections

NoServer == [pc |-> "none", last |-> 0]

Init ==
    /\ StoreInit
    /\ server = NoServer
    /\ wire = <<>>
    /\ client = [pc |-> "away", view |-> Snapshot, terminal |-> FALSE]
    /\ cached = Snapshot

-----------------------------------------------------------------------------
(* The server.                                                             *)
(* run_events: the cursor is 0 or the id of an event of this run.          *)
Position(id) == Cardinality({i \in DOMAIN db.log : db.log[i].id <= id})
ValidCursor(id) == id = 0 \/ \E i \in DOMAIN db.log : db.log[i].id = id

Deliverable == [i \in 1 .. Len(db.log) - server.last |-> server.last + i]
EndsRun(i) == db.log[i].type \in {"run.completed", "run.failed"}

(* One round of _event_stream: all events after the cursor; the generator  *)
(* returns after a batch with the end of the run.                          *)
Poll ==
    /\ server.pc = "poll"
    /\ wire' = wire \o Deliverable
    /\ server' = [pc |-> IF Deliverable = <<>> THEN "check"
                         ELSE IF \E n \in DOMAIN Deliverable : EndsRun(Deliverable[n]) THEN "done"
                         ELSE "poll",
                  last |-> Len(db.log)]
    /\ UNCHANGED <<client, cached>>

(* Mutation of CheckTerminal: a terminal run has nothing more to say.      *)
CheckWithoutDrain ==
    /\ server.pc = "check"
    /\ server' = [server EXCEPT !.pc = IF Terminal(db.run) THEN "done" ELSE "poll"]
    /\ UNCHANGED <<wire, client, cached>>

(* Nothing new: a snapshot tells if the run is over, and if something was  *)
(* committed since the poll.                                               *)
CheckTerminal ==
    /\ server.pc = "check"
    /\ server' = [server EXCEPT !.pc = IF Terminal(db.run) /\ Len(db.log) = server.last
                                       THEN "done" ELSE "poll"]
    /\ UNCHANGED <<wire, client, cached>>

-----------------------------------------------------------------------------
(* The client.                                                             *)
Hangup == server' = NoServer /\ wire' = <<>>

(* The answer to a request for the snapshot: the server's, or, from a      *)
(* proxy, one it gave before.                                              *)
Answers == {Snapshot} \cup (IF left["net"] > 0 THEN {cached} ELSE {})
Answered(s) ==
    IF s = Snapshot THEN cached' = s /\ UNCHANGED left
    ELSE Spend("net") /\ UNCHANGED cached

Rebase(s) ==
    client' = [pc |-> IF Terminal(s.run) THEN "settled" ELSE "open",
               view |-> s, terminal |-> Terminal(s.run)]

(* connect, by the user or when the browser is online again.               *)
Connect ==
    /\ client.pc \in {"away", "closed"}
    /\ Spend("watch")
    /\ client' = [client EXCEPT !.pc = "connect"]
    /\ UNCHANGED <<server, wire, cached>>

(* getRuntimeRun at the start, or after a gap: only the latter is retried. *)
GetSnapshot ==
    /\ client.pc \in {"connect", "rebase"}
    /\ \/ \E s \in Answers : Rebase(s) /\ Answered(s)
       \/ /\ Spend("net")
          /\ client' = [client EXCEPT !.pc = IF @ = "connect" THEN "closed" ELSE "rebase"]
          /\ UNCHANGED cached
    /\ UNCHANGED <<server, wire>>

(* runtimeEventsStream from the cursor of the projection.                  *)
OpenStream ==
    /\ client.pc = "open"
    /\ IF ValidCursor(client.view.id)
       THEN /\ server' = [pc |-> "poll", last |-> Position(client.view.id)]
            /\ client' = [client EXCEPT !.pc = "live"]
       ELSE client' = [client EXCEPT !.pc = "rebase"] /\ UNCHANGED server
    /\ UNCHANGED <<wire, cached, left>>

(* taskStatusByEvent, and the status in the payload where there is one; it *)
(* has no entry for task.lease_expired.                                    *)
TaskStatus(v, e) ==
    CASE e.type = "task.started" -> "running"
      [] e.type = "task.retry_wait" -> "retry_wait"
      [] e.type = "task.completed" -> "succeeded"
      [] e.type \in {"task.status_changed", "task.failed"} -> "failed"
      [] OTHER -> v.task

RunStatus(v, i) ==
    CASE db.log[i].type = "run.completed" -> "completed"
      [] db.log[i].type = "run.failed" -> "failed"
      [] db.log[i].type = "run.status_changed" ->
            (IF db.log[i + 1].type = "run.completed" THEN "completed" ELSE "failed")
      [] OTHER -> v.run

(* reduceRuntimeEvent on the event at position i of the log.               *)
Apply(v, i) ==
    LET e == db.log[i]
    IN  [run |-> RunStatus(v, i), task |-> TaskStatus(v, e),
         artifacts |-> v.artifacts \cup (IF e.artifact = NoArtifact THEN {} ELSE {e.artifact}),
         seq |-> i, id |-> e.id]

Checkpoint(type) == type \notin {"artifact.published", "task.lease_expired",
                                 "task.status_changed", "run.status_changed"}

(* Mutation of Fits: what is newer is accepted.                            *)
FitsLoosely(i) == i > client.view.seq

(* The next event of the run; another one is a gap ...                     *)
Fits(i) == i = client.view.seq + 1

(* ... unless the projection has it already.                               *)
Known(i) == i <= client.view.seq /\ db.log[i].id <= client.view.id

Receive ==
    /\ client.pc = "live" /\ wire # <<>>
    /\ LET i == Head(wire)
       IN  IF Known(i) THEN wire' = Tail(wire) /\ UNCHANGED <<server, client>>
           ELSE IF ~Fits(i) THEN Hangup /\ client' = [client EXCEPT !.pc = "rebase"]
           ELSE /\ client' = [pc |-> IF Checkpoint(db.log[i].type) THEN "refresh" ELSE "live",
                              view |-> Apply(client.view, i),
                              terminal |-> client.terminal \/ EndsRun(i)]
                /\ wire' = Tail(wire) /\ UNCHANGED server
    /\ UNCHANGED <<cached, left>>

(* The projection after a checkpoint: an older answer is not taken, and    *)
(* the end of the run, once seen, ends the subscription.                   *)
Refreshed(v, terminal) ==
    /\ client' = [pc |-> IF terminal THEN "settled" ELSE "live", view |-> v, terminal |-> terminal]
    /\ IF terminal THEN Hangup ELSE UNCHANGED <<server, wire>>

Acceptable(s) == s.seq >= client.view.seq

Refresh ==
    /\ client.pc = "refresh"
    /\ \/ \E s \in Answers :
              /\ Answered(s)
              /\ IF Acceptable(s) THEN Refreshed(s, Terminal(s.run))
                 ELSE Refreshed(client.view, client.terminal)
       \/ Spend("net") /\ Refreshed(client.view, client.terminal) /\ UNCHANGED cached

(* Mutation of Reconnect: a stream that ended in order needs no other.     *)
ReconnectBroken ==
    /\ client.pc = "live" /\ wire = <<>> /\ server.pc = "none"
    /\ client' = [client EXCEPT !.pc = "open"] /\ server' = NoServer
    /\ UNCHANGED <<wire, cached, left>>

(* The stream ended or broke: another one, from the last complete frame.   *)
Reconnect ==
    /\ client.pc = "live" /\ wire = <<>> /\ server.pc \in {"none", "done"}
    /\ client' = [client EXCEPT !.pc = "open"] /\ server' = NoServer
    /\ UNCHANGED <<wire, cached, left>>

-----------------------------------------------------------------------------
(* The network.                                                            *)
(* The connection breaks, or the API process dies: frames are lost from    *)
(* some point on.                                                          *)
Disconnect ==
    /\ server.pc \in {"poll", "check", "done"}
    /\ Spend("net")
    /\ \E n \in 0 .. Len(wire) : wire' = SubSeq(wire, 1, n)
    /\ server' = NoServer
    /\ UNCHANGED <<client, cached>>

LoseFrame ==
    /\ wire # <<>> /\ Spend("net")
    /\ wire' = Tail(wire)
    /\ UNCHANGED <<server, client, cached>>

RepeatFrame ==
    /\ client.pc = "live" /\ client.view.seq > 0 /\ Spend("net")
    /\ \E i \in 1 .. client.view.seq : wire' = <<i>> \o wire
    /\ UNCHANGED <<server, client, cached>>

(* The browser is offline: requests and stream are aborted.  It comes back *)
(* by itself, as long as Connect has budget.                               *)
Offline ==
    /\ client.pc \in {"connect", "rebase", "open", "live", "refresh"}
    /\ Spend("net")
    /\ Hangup
    /\ client' = [client EXCEPT !.pc = "away"]
    /\ UNCHANGED cached

-----------------------------------------------------------------------------
Serve == (Poll \/ CheckTerminal) /\ UNCHANGED left
Watch == GetSnapshot \/ OpenStream \/ Receive \/ Refresh \/ Reconnect
Network == Disconnect \/ LoseFrame \/ RepeatFrame \/ Offline

StreamNext == Serve \/ Watch \/ Connect \/ Network

Next ==
    \/ StoreNext /\ UNCHANGED streamVars
    \/ StreamNext /\ UNCHANGED <<db, txn, blobs, mtime, child, gc>>

(* The generator and the hook run; nobody has to watch, no attempt has to  *)
(* be made, and the network may fail as long as its budget lasts.          *)
StoreUnchanged == UNCHANGED <<db, txn, blobs, mtime, child, gc>>
Fairness == WF_vars(Serve /\ StoreUnchanged) /\ WF_vars(Watch /\ StoreUnchanged)

Spec == Init /\ [][Next]_vars /\ Fairness

-----------------------------------------------------------------------------
(* What an event tells about the task's row.  A lost last lease fails the  *)
(* task; task.failed says nothing, as it may come when the task is already *)
(* in other hands, or when the row says failed before it.                  *)
RowStatus(v, e) ==
    CASE e.type = "task.lease_expired" -> "failed"
      [] e.type = "task.failed" -> v.task
      [] OTHER -> TaskStatus(v, e)

(* The log replayed up to position n: what the tables said then.           *)
Fold[n \in Nat] ==
    IF n = 0 THEN [run |-> "running", task |-> "ready", artifacts |-> {}, seq |-> 0, id |-> 0]
    ELSE [Apply(Fold[n - 1], n) EXCEPT !.task = RowStatus(Fold[n - 1], db.log[n])]

(* The client hears of the task from these.                                *)
SpeaksOfTask(e) == e.type \in {"task.started", "task.retry_wait", "task.completed",
                               "task.status_changed", "task.failed"}

(* Status s is the row after event j, or what event j told, and no event   *)
(* up to n has spoken of the task since.                                   *)
Heard(s, n) ==
    \E j \in 0 .. n :
        /\ \A i \in j + 1 .. n : ~ SpeaksOfTask(db.log[i])
        /\ \/ s = Fold[j].task
           \/ j > 0 /\ s = TaskStatus(Fold[j], db.log[j])

(* The tables are what the log says, and the projection is a state the run *)
(* has really been in: what the tables said when the log had as many       *)
(* events as the cursor says.  Snapshots, events, repetitions, gaps and    *)
(* stale answers all lead to the same view.  Of the task it shows what the *)
(* last event about it told, which may be a failure the row never had, and *)
(* cannot be the last expiry of a lease, until a snapshot puts it right.   *)
ViewIsHistory ==
    /\ Snapshot = Fold[Len(db.log)]
    /\ LET v == client.view
       IN  /\ v = [Fold[v.seq] EXCEPT !.task = v.task]
           /\ Heard(v.task, v.seq)

(* The server ends a stream when it has sent the whole log, and the run is *)
(* over: an event committed between two reads is not left behind.          *)
NoTailLost ==
    [][server.pc # "done" /\ server'.pc = "done"
          => server'.last = Len(db.log) /\ Terminal(db.run)]_vars

(* Who watches a run that ended learns that it did, whatever was lost.     *)
Watching == client.pc \in {"connect", "rebase", "open", "live", "refresh"}
WatcherSettles == Terminal(db.run) /\ Watching ~> ~Watching
=============================================================================
