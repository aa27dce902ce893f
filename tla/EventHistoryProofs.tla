-------------------------- MODULE EventHistoryProofs --------------------------
(***************************************************************************)
(* What the client shows is a state the run has been in.  The property is  *)
(* stated with the recursive function Fold, which replays the log; here    *)
(* the recursion is shown to define what it says, for every position, and  *)
(* every projection (the client's, the proxy's, the server's own) is shown *)
(* to be the replay of the log up to its cursor.                           *)
(***************************************************************************)
EXTENDS EventStreamProofs, WellFoundedInduction

-----------------------------------------------------------------------------
(* Induction on natural numbers, for sets: a set of numbers that is not    *)
(* empty has a least member.                                               *)
LEMMA LeastNumber ==
    ASSUME NEW T \in SUBSET Nat, T # {}
    PROVE  \E n \in T : \A m \in T : n <= m
  <1> DEFINE R == OpToRel(<, Nat)
  <1>1. IsWellFoundedOn(R, Nat)
    BY NatLessThanWellFounded
  <1>2. \A x, y \in Nat : x < y => <<x, y>> \in R
    BY DEF OpToRel
  <1> HIDE DEF R
  <1>3. PICK n \in T : \A m \in T : ~ (<<m, n>> \in R)
    BY <1>1, WFMin
  <1>4. \A m \in T : ~ (m < n)
    BY <1>2, <1>3
  <1> QED
    BY <1>4

LEMMA SetInduction ==
    ASSUME NEW S \in SUBSET Nat, 0 \in S, \A n \in S : n + 1 \in S
    PROVE  S = Nat
  <1> SUFFICES ASSUME S # Nat
               PROVE  FALSE
    OBVIOUS
  <1>1. PICK n \in Nat \ S : \A m \in Nat \ S : n <= m
    BY LeastNumber
  <1>2. n # 0 /\ n - 1 \in Nat /\ n - 1 < n
    BY <1>1
  <1>3. n - 1 \in S
    BY <1>1, <1>2
  <1> QED
    BY <1>1, <1>3

-----------------------------------------------------------------------------
(* Fold is defined by its recursion.                                       *)
Beginning == [run |-> "running", task |-> "ready", artifacts |-> {}, seq |-> 0, id |-> 0]

Tables(v, i) == [Apply(v, i) EXCEPT !.task = RowStatus(v, db.log[i])]

(* f is a replay of the first n events.                                    *)
Replays(f, n) == f[0] = Beginning /\ \A m \in 1 .. n : f[m] = Tables(f[m - 1], m)
Replay(n) == CHOOSE f : Replays(f, n)

LEMMA ReplayExists ==
    ASSUME NEW n \in Nat
    PROVE  Replays(Replay(n), n)
  <1> DEFINE S == {k \in Nat : \E f : Replays(f, k)}
  <1>1. 0 \in S
    <2> DEFINE f == [m \in Nat |-> Beginning]
    <2>1. Replays(f, 0)
      BY DEF Replays
    <2> QED
      BY <2>1
  <1>2. ASSUME NEW k \in S
        PROVE  k + 1 \in S
    <2>1. PICK f : Replays(f, k)
      OBVIOUS
    <2> DEFINE last == Tables(f[k], k + 1)
               g == [m \in Nat |-> IF m = k + 1 THEN last ELSE f[m]]
    <2>2. k \in Nat /\ k + 1 \in Nat /\ k # k + 1 /\ 0 # k + 1
      OBVIOUS
    <2>3. \A m \in Nat : m # k + 1 => g[m] = f[m]
      OBVIOUS
    <2>4. g[k + 1] = Tables(g[k], k + 1)
      BY <2>2
    <2> HIDE DEF g
    <2>5. \A m \in 1 .. k : g[m] = Tables(g[m - 1], m)
      <3> TAKE m \in 1 .. k
      <3>1. m \in Nat /\ m - 1 \in Nat /\ m # k + 1 /\ m - 1 # k + 1
        BY <2>2
      <3>2. g[m] = f[m] /\ g[m - 1] = f[m - 1]
        BY <2>3, <3>1
      <3>3. f[m] = Tables(f[m - 1], m)
        BY <2>1 DEF Replays
      <3> QED
        BY <3>2, <3>3
    <2>6. \A m \in 1 .. k + 1 : m \in 1 .. k \/ m = k + 1
      BY <2>2
    <2>7. (k + 1) - 1 = k
      BY <2>2
    <2>8. \A m \in 1 .. k + 1 : g[m] = Tables(g[m - 1], m)
      BY <2>4, <2>5, <2>6, <2>7
    <2>9. g[0] = Beginning
      BY <2>1, <2>2, <2>3 DEF Replays
    <2>10. Replays(g, k + 1)
      BY <2>8, <2>9 DEF Replays
    <2> QED
      BY <2>2, <2>10
  <1> HIDE DEF S
  <1>3. S \in SUBSET Nat
    BY DEF S
  <1>4. S = Nat
    BY <1>1, <1>2, <1>3, SetInduction
  <1>5. \E f : Replays(f, n)
    BY <1>4 DEF S
  <1> QED
    BY <1>5 DEF Replay

LEMMA ReplayUnique ==
    ASSUME NEW n \in Nat, NEW f, NEW g, Replays(f, n), Replays(g, n)
    PROVE  f[n] = g[n]
  <1> DEFINE S == {k \in Nat : k <= n => f[k] = g[k]}
  <1>1. 0 \in S
    BY DEF Replays
  <1>2. ASSUME NEW k \in S
        PROVE  k + 1 \in S
    <2>1. k \in Nat /\ k + 1 \in Nat /\ (k + 1) - 1 = k
      OBVIOUS
    <2>2. ASSUME k + 1 <= n
          PROVE  f[k + 1] = g[k + 1]
      <3>1. k + 1 \in 1 .. n /\ k <= n
        BY <2>1, <2>2
      <3>2. f[k] = g[k]
        BY <3>1
      <3>3. f[k + 1] = Tables(f[(k + 1) - 1], k + 1) /\ g[k + 1] = Tables(g[(k + 1) - 1], k + 1)
        BY <3>1 DEF Replays
      <3> QED
        BY <2>1, <3>2, <3>3
    <2> QED
      BY <2>1, <2>2
  <1> HIDE DEF S
  <1>3. S \in SUBSET Nat
    BY DEF S
  <1>4. n \in S
    BY <1>1, <1>2, <1>3, SetInduction
  <1> QED
    BY <1>4 DEF S

LEMMA FoldReplays ==
    /\ Fold[0] = Beginning
    /\ \A n \in Nat \ {0} : Fold[n] = Tables(Fold[n - 1], n)
  <1> DEFINE Next0(f) == [n \in Nat |-> IF n = 0 THEN Beginning ELSE Tables(f[n - 1], n)]
             h == [n \in Nat |-> Replay(n)[n]]
  <1>1. h[0] = Beginning
    BY ReplayExists DEF Replays
  <1>2. ASSUME NEW n \in Nat \ {0}
        PROVE  h[n] = Tables(h[n - 1], n)
    <2>1. n \in Nat /\ n - 1 \in Nat /\ n \in 1 .. n /\ 1 .. n - 1 \subseteq 1 .. n
      OBVIOUS
    <2>2. Replays(Replay(n), n) /\ Replays(Replay(n - 1), n - 1)
      BY <2>1, ReplayExists
    <2>3. Replays(Replay(n), n - 1)
      BY <2>1, <2>2 DEF Replays
    <2>4. Replay(n)[n - 1] = Replay(n - 1)[n - 1]
      BY <2>1, <2>2, <2>3, ReplayUnique
    <2>5. Replay(n)[n] = Tables(Replay(n)[n - 1], n)
      BY <2>1, <2>2 DEF Replays
    <2> QED
      BY <2>1, <2>4, <2>5
  <1>3. h = Next0(h)
    <2>1. \A n \in Nat : h[n] = IF n = 0 THEN Beginning ELSE Tables(h[n - 1], n)
      BY <1>1, <1>2
    <2>2. h = [n \in Nat |-> h[n]]
      OBVIOUS
    <2> HIDE DEF h
    <2> QED
      BY <2>1, <2>2
  <1> HIDE DEF h
  <1>4. Fold = CHOOSE f : f = Next0(f)
    BY DEF Fold, Beginning, Tables
  <1>5. Fold = Next0(Fold)
    BY <1>3, <1>4
  <1> QED
    BY <1>5

-----------------------------------------------------------------------------
(* Replays of any log: the invariant also speaks of the log of an open     *)
(* transaction, and of the log after a step.                               *)
RunAfter(log, v, i) ==
    CASE log[i].type = "run.completed" -> "completed"
      [] log[i].type = "run.failed" -> "failed"
      [] log[i].type = "run.status_changed" ->
            (IF log[i + 1].type = "run.completed" THEN "completed" ELSE "failed")
      [] OTHER -> v.run

(* The row of the task after an event of the given type.                   *)
RowAfter(type, task) ==
    CASE type = "task.started" -> "running"
      [] type = "task.retry_wait" -> "retry_wait"
      [] type = "task.completed" -> "succeeded"
      [] type \in {"task.status_changed", "task.lease_expired"} -> "failed"
      [] OTHER -> task

After(log, v, i) ==
    [run |-> RunAfter(log, v, i), task |-> RowAfter(log[i].type, v.task),
     artifacts |-> v.artifacts \cup (IF log[i].artifact = NoArtifact THEN {} ELSE {log[i].artifact}),
     seq |-> i, id |-> log[i].id]

IsHistory(log, f) == f[0] = Beginning /\ \A n \in 1 .. Len(log) : f[n] = After(log, f[n - 1], n)

(* Heard, of any log and replay.                                           *)
HeardIn(log, f, s, n) ==
    \E j \in 0 .. n :
        /\ \A i \in j + 1 .. n : ~ SpeaksOfTask(log[i])
        /\ s = f[j].task \/ (j > 0 /\ s = TaskStatus(f[j], log[j]))

SameButTask(v, w) == v.run = w.run /\ v.artifacts = w.artifacts /\ v.seq = w.seq /\ v.id = w.id

(* The projection is the replay of the log up to its cursor, and its task  *)
(* is what the last event about it told.                                   *)
Remembers(log, v) ==
    \A f : IsHistory(log, f) => SameButTask(v, f[v.seq]) /\ HeardIn(log, f, v.task, v.seq)

(* A change of the run's status is followed by the event that says which.  *)
Paired(log) == \A i \in DOMAIN log : log[i].type = "run.status_changed" => i + 1 \in DOMAIN log

SnapshotOf(d) ==
    [run |-> d.run, task |-> d.task, artifacts |-> Outputs(d), seq |-> Len(d.log),
     id |-> LastId(d.log)]

(* The tables are the replay of the whole log.                             *)
IsTold(log, d) ==
    \A f : IsHistory(log, f) =>
        SameButTask(SnapshotOf(d), f[Len(log)]) /\ d.task = f[Len(log)].task

HistoryFits(d) == Paired(d.log) /\ IsTold(d.log, d)

Extends(old, new) ==
    /\ old \in Seq(Events) /\ new \in Seq(Events)
    /\ Len(old) <= Len(new) /\ \A i \in DOMAIN old : new[i] = old[i]

LEMMA LogIndices ==
    ASSUME NEW log \in Seq(Events)
    PROVE  Len(log) \in Nat /\ DOMAIN log = 1 .. Len(log) /\ \A i \in DOMAIN log : log[i] \in Events
  OBVIOUS

LEMMA ExtendsTransitive ==
    ASSUME NEW r, NEW s, NEW t, Extends(r, s), Extends(s, t)
    PROVE  Extends(r, t)
  <1>1. /\ Len(r) \in Nat /\ Len(s) \in Nat /\ Len(t) \in Nat
        /\ DOMAIN r = 1 .. Len(r) /\ DOMAIN s = 1 .. Len(s)
    BY LogIndices DEF Extends
  <1>2. DOMAIN r \subseteq DOMAIN s
    BY <1>1 DEF Extends
  <1> QED
    BY <1>1, <1>2 DEF Extends

(* What was true of a shorter log stays true.                              *)
LEMMA HistoryShortens ==
    ASSUME NEW old, NEW new, Extends(old, new), Paired(old), NEW f, IsHistory(new, f)
    PROVE  IsHistory(old, f)
  <1>1. /\ Len(old) \in Nat /\ Len(new) \in Nat
        /\ DOMAIN old = 1 .. Len(old) /\ DOMAIN new = 1 .. Len(new)
    BY LogIndices DEF Extends
  <1>2. ASSUME NEW n \in 1 .. Len(old)
        PROVE  f[n] = After(old, f[n - 1], n)
    <2>1. n \in 1 .. Len(new) /\ new[n] = old[n]
      BY <1>1 DEF Extends
    <2>2. f[n] = After(new, f[n - 1], n)
      BY <2>1 DEF IsHistory
    <2>3. RunAfter(new, f[n - 1], n) = RunAfter(old, f[n - 1], n)
      <3>1. CASE old[n].type = "run.status_changed"
        <4>1. new[n + 1] = old[n + 1]
          BY <1>1, <3>1 DEF Paired, Extends
        <4> QED
          BY <2>1, <4>1 DEF RunAfter
      <3>2. CASE old[n].type # "run.status_changed"
        BY <2>1, <3>2 DEF RunAfter
      <3> QED
        BY <3>1, <3>2
    <2> QED
      BY <2>1, <2>2, <2>3 DEF After
  <1> QED
    BY <1>2 DEF IsHistory

LEMMA HeardAt ==
    ASSUME NEW log, NEW f, NEW s, NEW n, NEW j \in 0 .. n,
           \A i \in j + 1 .. n : ~ SpeaksOfTask(log[i]),
           s = f[j].task \/ (j > 0 /\ s = TaskStatus(f[j], log[j]))
    PROVE  HeardIn(log, f, s, n)
  <1>1. SUFFICES \E m \in 0 .. n :
                    /\ \A i \in m + 1 .. n : ~ SpeaksOfTask(log[i])
                    /\ s = f[m].task \/ (m > 0 /\ s = TaskStatus(f[m], log[m]))
    BY DEF HeardIn
  <1> WITNESS j \in 0 .. n
  <1> QED
    OBVIOUS

LEMMA RememberedLater ==
    ASSUME NEW old, NEW new, Extends(old, new), Paired(old),
           NEW v, v.seq \in 0 .. Len(old), Remembers(old, v)
    PROVE  Remembers(new, v)
  <1> SUFFICES ASSUME NEW f, IsHistory(new, f)
               PROVE  SameButTask(v, f[v.seq]) /\ HeardIn(new, f, v.task, v.seq)
    BY DEF Remembers
  <1>1. SameButTask(v, f[v.seq]) /\ HeardIn(old, f, v.task, v.seq)
    BY HistoryShortens DEF Remembers
  <1>2. \A i \in 1 .. v.seq : new[i] = old[i]
    BY LogIndices DEF Extends
  <1>3. PICK j \in 0 .. v.seq :
            /\ \A i \in j + 1 .. v.seq : ~ SpeaksOfTask(old[i])
            /\ v.task = f[j].task \/ (j > 0 /\ v.task = TaskStatus(f[j], old[j]))
    BY <1>1 DEF HeardIn
  <1>4. \A i \in j + 1 .. v.seq : ~ SpeaksOfTask(new[i])
    BY <1>2, <1>3
  <1>5. j > 0 => new[j] = old[j]
    BY <1>2, <1>3
  <1>6. v.task = f[j].task \/ (j > 0 /\ v.task = TaskStatus(f[j], new[j]))
    BY <1>3, <1>5
  <1>7. HeardIn(new, f, v.task, v.seq)
    BY <1>4, <1>6, HeardAt
  <1> QED
    BY <1>1, <1>7

-----------------------------------------------------------------------------
(* What a transaction writes: the tables change with the log.              *)
AnnouncedBy(a) == IF a = NoArtifact THEN {} ELSE {a}

RunTypes == {"run.status_changed", "run.completed", "run.failed"}

LEMMA RowAfterEvent ==
    ASSUME NEW v, NEW e
    PROVE  RowStatus(v, e) = RowAfter(e.type, v.task)
  BY DEF RowStatus, TaskStatus, RowAfter

(* An event that speaks of the task tells every client the same.           *)
LEMMA TaskTold ==
    ASSUME NEW v, NEW w, NEW e
    PROVE  TaskStatus(v, e) = IF SpeaksOfTask(e) THEN TaskStatus(w, e) ELSE v.task
  BY DEF TaskStatus, SpeaksOfTask

LEMMA LogExtends ==
    ASSUME NEW c \in Databases, NEW type \in EventTypes, NEW a \in Artifacts \cup {NoArtifact}
    PROVE  Extends(c.log, Log(c, type, a).log)
  <1>1. c.log \in Seq(Events) /\ Log(c, type, a).log \in Seq(Events)
    BY LogEffect DEF Databases, Events
  <1>2. Len(c.log) \in Nat
    BY <1>1
  <1> QED
    BY <1>1, <1>2, LogEffect DEF Extends

(* An event about the task, with what it tells.                            *)
LEMMA TaskEventRemembered ==
    ASSUME NEW d \in Databases, HistoryFits(d), NEW c \in Databases,
           NEW type \in EventTypes \ RunTypes, NEW a \in Artifacts \cup {NoArtifact},
           c.log = d.log, c.run = d.run, Outputs(c) = Outputs(d) \cup AnnouncedBy(a),
           c.task = RowAfter(type, d.task)
    PROVE  HistoryFits(Log(c, type, a)) /\ Extends(d.log, Log(c, type, a).log)
  <1> DEFINE e == Log(c, type, a)
             n == Len(d.log) + 1
  <1>1. /\ e \in Databases /\ e.rows = c.rows /\ e.run = d.run /\ e.task = c.task
        /\ Len(e.log) = n /\ n \in DOMAIN e.log /\ n \notin DOMAIN d.log
        /\ DOMAIN e.log = DOMAIN d.log \cup {n}
        /\ \A i \in DOMAIN d.log : e.log[i] = d.log[i]
        /\ e.log[n].type = type /\ e.log[n].artifact = a
    BY LogEffect
  <1>2. Extends(d.log, e.log)
    BY LogExtends
  <1>3. /\ d.log \in Seq(Events) /\ Len(d.log) \in Nat /\ DOMAIN d.log = 1 .. Len(d.log)
        /\ e.log \in Seq(Events) /\ n \in Nat /\ n - 1 = Len(d.log) /\ n \in 1 .. n
    BY <1>2, LogIndices DEF Extends
  <1>4. Outputs(e) = Outputs(c)
    BY <1>1 DEF Outputs
  <1> HIDE DEF e, n
  <1>5. Paired(e.log)
    BY <1>1, <1>3 DEF HistoryFits, Paired, RunTypes
  <1>6. ASSUME NEW f, IsHistory(e.log, f)
        PROVE  SameButTask(SnapshotOf(e), f[n]) /\ e.task = f[n].task
    <2>1. SameButTask(SnapshotOf(d), f[Len(d.log)]) /\ d.task = f[Len(d.log)].task
      BY <1>2, <1>6, HistoryShortens DEF HistoryFits, IsTold
    <2>2. f[n] = After(e.log, f[Len(d.log)], n)
      BY <1>1, <1>3, <1>6 DEF IsHistory
    <2>3. RunAfter(e.log, f[Len(d.log)], n) = e.run
      <3>1. f[Len(d.log)].run = d.run
        BY <2>1 DEF SameButTask, SnapshotOf
      <3> QED
        BY <1>1, <3>1 DEF RunAfter, RunTypes
    <2>4. f[n].artifacts = Outputs(e)
      <3>1. f[Len(d.log)].artifacts = Outputs(d)
        BY <2>1 DEF SameButTask, SnapshotOf
      <3> QED
        BY <1>1, <1>4, <2>2, <3>1 DEF After, AnnouncedBy
    <2>5. f[n].task = e.task
      BY <1>1, <2>1, <2>2 DEF After
    <2>6. LastId(e.log) = e.log[n].id
      BY <1>1, <1>3 DEF LastId
    <2>7. f[n].run = e.run /\ f[n].seq = n /\ f[n].id = e.log[n].id
      BY <2>2, <2>3 DEF After
    <2> QED
      BY <1>1, <2>4, <2>5, <2>6, <2>7 DEF SameButTask, SnapshotOf
  <1> QED
    BY <1>1, <1>2, <1>5, <1>6 DEF HistoryFits, IsTold, e

(* The two events that end the run.                                        *)
LEMMA EndRemembered ==
    ASSUME NEW d \in Databases, HistoryFits(d)
    PROVE  HistoryFits(Aggregate(d)) /\ Extends(d.log, Aggregate(d).log)
  <1>1. ASSUME NEW s \in {"completed", "failed"}, NEW type \in {"run.completed", "run.failed"},
               s = "completed" <=> type = "run.completed",
               Aggregate(d) = LogRun(LogRun([d EXCEPT !.run = s], "run.status_changed"), type)
        PROVE  HistoryFits(Aggregate(d)) /\ Extends(d.log, Aggregate(d).log)
    <2> DEFINE c == [d EXCEPT !.run = s]
               b == LogRun(c, "run.status_changed")
               e == LogRun(b, type)
               k == Len(d.log)
    <2>1. /\ c \in Databases /\ c.rows = d.rows /\ c.log = d.log /\ c.task = d.task
          /\ c.run = s
      BY DEF Databases, RunStatuses
    <2>2. b = Log(c, "run.status_changed", NoArtifact) /\ e = Log(b, type, NoArtifact)
          /\ Aggregate(d) = e
      BY <1>1 DEF LogRun
    <2> HIDE DEF c, b, e
    <2>3. /\ b \in Databases /\ b.rows = d.rows /\ b.run = s /\ b.task = d.task
          /\ Len(b.log) = k + 1 /\ DOMAIN b.log = DOMAIN d.log \cup {k + 1}
          /\ k + 1 \notin DOMAIN d.log
          /\ \A i \in DOMAIN d.log : b.log[i] = d.log[i]
          /\ b.log[k + 1].type = "run.status_changed" /\ b.log[k + 1].artifact = NoArtifact
          /\ Extends(d.log, b.log)
      BY <2>1, <2>2, LogEffect, LogExtends DEF EventTypes
    <2>4. k \in Nat /\ DOMAIN d.log = 1 .. k /\ d.log \in Seq(Events)
      BY <2>3, LogIndices DEF Extends
    <2>5. /\ e \in Databases /\ e.rows = d.rows /\ e.run = s /\ e.task = d.task
          /\ Len(e.log) = k + 2 /\ DOMAIN e.log = DOMAIN b.log \cup {k + 2}
          /\ \A i \in DOMAIN b.log : e.log[i] = b.log[i]
          /\ e.log[k + 2].type = type /\ e.log[k + 2].artifact = NoArtifact
          /\ Extends(b.log, e.log)
      <3>1. Len(b.log) + 1 = k + 2
        BY <2>3, <2>4
      <3> QED
        BY <2>2, <2>3, <3>1, LogEffect, LogExtends DEF EventTypes
    <2>6. Extends(d.log, e.log)
      BY <2>3, <2>5, ExtendsTransitive
    <2>7. /\ e.log[k + 1].type = "run.status_changed" /\ e.log[k + 1].artifact = NoArtifact
          /\ \A i \in DOMAIN d.log : e.log[i] = d.log[i]
      BY <2>3, <2>5
    <2>8. Paired(e.log)
      <3>1. ASSUME NEW i \in DOMAIN d.log, d.log[i].type = "run.status_changed"
            PROVE  i + 1 \in DOMAIN e.log
        BY <2>3, <2>5, <3>1 DEF HistoryFits, Paired
      <3>2. (k + 1) + 1 \in DOMAIN e.log
        BY <2>4, <2>5
      <3>3. e.log[k + 2].type # "run.status_changed"
        BY <2>5
      <3> QED
        BY <2>3, <2>5, <2>7, <3>1, <3>2, <3>3 DEF Paired
    <2>9. Outputs(e) = Outputs(d)
      BY <2>5 DEF Outputs
    <2>10. ASSUME NEW f, IsHistory(e.log, f)
           PROVE  SameButTask(SnapshotOf(e), f[k + 2]) /\ e.task = f[k + 2].task
      <3>1. SameButTask(SnapshotOf(d), f[k]) /\ d.task = f[k].task
        BY <2>6, <2>10, HistoryShortens DEF HistoryFits, IsTold
      <3>2. f[k + 1] = After(e.log, f[k], k + 1) /\ f[k + 2] = After(e.log, f[k + 1], k + 2)
        <4>1. k + 1 \in 1 .. Len(e.log) /\ k + 2 \in 1 .. Len(e.log)
              /\ (k + 1) - 1 = k /\ (k + 2) - 1 = k + 1
          BY <2>4, <2>5
        <4> QED
          BY <2>10, <4>1 DEF IsHistory
      <3>3. f[k + 2].run = s
        BY <1>1, <2>5, <3>2 DEF After, RunAfter
      <3>4. f[k + 2].artifacts = Outputs(d)
        BY <2>5, <2>7, <3>1, <3>2 DEF After, SameButTask, SnapshotOf
      <3>5. f[k + 1].task = f[k].task
        BY <2>7, <3>2 DEF After, RowAfter
      <3>6. f[k + 2].task = f[k + 1].task
        BY <2>5, <3>2 DEF After, RowAfter
      <3>7. LastId(e.log) = e.log[k + 2].id
        BY <2>4, <2>5 DEF LastId
      <3>8. f[k + 2].seq = k + 2 /\ f[k + 2].id = e.log[k + 2].id
        BY <3>2 DEF After
      <3> QED
        BY <2>5, <2>9, <3>1, <3>3, <3>4, <3>5, <3>6, <3>7, <3>8 DEF SameButTask, SnapshotOf
    <2> QED
      BY <2>2, <2>5, <2>6, <2>8, <2>10 DEF HistoryFits, IsTold
  <1> QED
    BY <1>1 DEF Aggregate

(* A write without an event.                                               *)
LEMMA SilentWriteRemembered ==
    ASSUME NEW d \in Databases, HistoryFits(d), NEW e, e.log = d.log, e.run = d.run,
           e.task = d.task, Outputs(e) = Outputs(d)
    PROVE  HistoryFits(e) /\ Extends(d.log, e.log)
  <1>1. d.log \in Seq(Events)
    BY DEF Databases, Events
  <1>2. SnapshotOf(e) = SnapshotOf(d)
    BY DEF SnapshotOf
  <1> QED
    BY <1>1, <1>2 DEF HistoryFits, IsTold, Extends

-----------------------------------------------------------------------------
(* The inductive invariant: the tables are the replay of the log, also in  *)
(* an open transaction, and so is every projection taken from them.        *)
OpenHistoryFits ==
    \/ txn = Closed
    \/ HistoryFits(txn.db) /\ Extends(db.log, txn.db.log)
ViewsFit == Remembers(db.log, client.view) /\ Remembers(db.log, cached)
HistoryIInv == EventStreamIInv /\ HistoryFits(db) /\ OpenHistoryFits /\ ViewsFit

(* What a step of the store does to the history.                           *)
HistoryGoesOn == HistoryFits(db') /\ Extends(db.log, db'.log) /\ OpenHistoryFits'

LEMMA StoreParts ==
    ASSUME HistoryIInv
    PROVE  /\ StoreIInv /\ db \in Databases /\ HistoryFits(db) /\ db.log \in Seq(Events)
           /\ Extends(db.log, db.log)
           /\ NoArtifact \in Artifacts \cup {NoArtifact}
           /\ \A o : o \cup AnnouncedBy(NoArtifact) = o
  BY DbLength DEF HistoryIInv, EventStreamIInv, Databases, Events, Extends, AnnouncedBy

(* A write while no transaction is open.                                   *)
LEMMA WriteGoesOn ==
    ASSUME HistoryIInv, Writable, UNCHANGED txn, HistoryFits(db'), Extends(db.log, db'.log)
    PROVE  HistoryGoesOn
  BY DEF Writable, OpenHistoryFits, HistoryGoesOn

LEMMA SilentGoesOn ==
    ASSUME HistoryIInv, Writable, UNCHANGED txn, db' \in Databases, db'.log = db.log,
           db'.run = db.run, db'.task = db.task, Outputs(db') = Outputs(db)
    PROVE  HistoryGoesOn
  BY StoreParts, SilentWriteRemembered, WriteGoesOn

(* Nothing is written; an open transaction goes on or is rolled back.      *)
LEMMA NoWriteGoesOn ==
    ASSUME HistoryIInv, UNCHANGED db, UNCHANGED txn \/ txn' = Closed
    PROVE  HistoryGoesOn
  BY StoreParts DEF HistoryIInv, OpenHistoryFits, HistoryGoesOn

LEMMA ClaimGoesOn ==
    ASSUME HistoryIInv, ClaimTask
    PROVE  HistoryGoesOn
  <1> DEFINE k == db.attempts + 1
             c == [db EXCEPT !.task = "running", !.attempts = k, !.holder = k]
  <1>1. k \in Attempts /\ k \in 0 .. MaxAttempts
    BY StoreParts, ArtifactsAssumption DEF Databases, ClaimTask, Attempts
  <1>2. /\ c \in Databases /\ c.rows = db.rows /\ c.log = db.log /\ c.run = db.run
        /\ c.task = "running"
    BY <1>1, StoreParts DEF Databases, TaskStatuses
  <1>3. db' = Log(c, "task.started", NoArtifact)
    BY DEF ClaimTask, LogRun
  <1> HIDE DEF k, c
  <1>4. Outputs(c) = Outputs(db) \cup AnnouncedBy(NoArtifact)
    BY <1>2, StoreParts DEF Outputs
  <1>5. c.task = RowAfter("task.started", db.task)
    BY <1>2 DEF RowAfter
  <1>6. HistoryFits(db') /\ Extends(db.log, db'.log)
    BY <1>2, <1>3, <1>4, <1>5, StoreParts, TaskEventRemembered DEF EventTypes, RunTypes
  <1> QED
    BY <1>6, WriteGoesOn DEF ClaimTask

LEMMA RecoverGoesOn ==
    ASSUME HistoryIInv, RecoverExpiredLease
    PROVE  HistoryGoesOn
  <1> DEFINE Idle(s) == [[db EXCEPT !.holder = Nobody] EXCEPT !.task = s]
  <1>1. ASSUME NEW s \in {"retry_wait", "failed"}
        PROVE  /\ Idle(s) \in Databases /\ Idle(s).log = db.log /\ Idle(s).run = db.run
               /\ Idle(s).task = s
               /\ Outputs(Idle(s)) = Outputs(db) \cup AnnouncedBy(NoArtifact)
    <2>1. /\ Idle(s) \in Databases /\ Idle(s).log = db.log /\ Idle(s).run = db.run
          /\ Idle(s).task = s /\ Idle(s).rows = db.rows
      BY StoreParts DEF Databases, TaskStatuses
    <2> HIDE DEF Idle
    <2> QED
      BY <2>1, StoreParts DEF Outputs
  <1>2. \/ db' = Log(Idle("retry_wait"), "task.retry_wait", NoArtifact)
        \/ db' = Aggregate(Log(Idle("failed"), "task.lease_expired", NoArtifact))
    BY DEF RecoverExpiredLease, LogRun
  <1> HIDE DEF Idle
  <1>3. CASE db' = Log(Idle("retry_wait"), "task.retry_wait", NoArtifact)
    <2>1. Idle("retry_wait").task = RowAfter("task.retry_wait", db.task)
      BY <1>1 DEF RowAfter
    <2>2. HistoryFits(db') /\ Extends(db.log, db'.log)
      BY <1>1, <1>3, <2>1, StoreParts, TaskEventRemembered DEF EventTypes, RunTypes
    <2> QED
      BY <2>2, WriteGoesOn DEF RecoverExpiredLease
  <1>4. CASE db' = Aggregate(Log(Idle("failed"), "task.lease_expired", NoArtifact))
    <2> DEFINE e == Log(Idle("failed"), "task.lease_expired", NoArtifact)
    <2>0. Idle("failed").task = RowAfter("task.lease_expired", db.task)
      BY <1>1 DEF RowAfter
    <2>1. HistoryFits(e) /\ Extends(db.log, e.log)
      BY <1>1, <2>0, StoreParts, TaskEventRemembered DEF EventTypes, RunTypes
    <2>2. e \in Databases
      BY <1>1, StoreParts, LogEffect DEF EventTypes
    <2>3. HistoryFits(Aggregate(e)) /\ Extends(e.log, Aggregate(e).log)
      BY <2>1, <2>2, EndRemembered
    <2>4. Extends(db.log, Aggregate(e).log)
      BY <2>1, <2>3, ExtendsTransitive
    <2> QED
      BY <1>4, <2>3, <2>4, WriteGoesOn DEF RecoverExpiredLease
  <1> QED
    BY <1>2, <1>3, <1>4

LEMMA FinishGoesOn ==
    ASSUME HistoryIInv, FinishRun
    PROVE  HistoryGoesOn
  BY StoreParts, EndRemembered, WriteGoesOn DEF FinishRun

LEMMA MarkFailedGoesOn ==
    ASSUME HistoryIInv, NEW k \in Attempts, MarkFailed(k)
    PROVE  HistoryGoesOn
  <1>1. CASE db.holder # k
    BY <1>1, NoWriteGoesOn DEF MarkFailed
  <1>2. CASE db.holder = k
    <2> DEFINE c == [db EXCEPT !.task = "failed", !.holder = Nobody]
    <2>1. /\ c \in Databases /\ c.rows = db.rows /\ c.log = db.log /\ c.run = db.run
          /\ c.task = "failed"
      BY StoreParts DEF Databases, TaskStatuses
    <2>2. db' = Log(c, "task.status_changed", NoArtifact)
      BY <1>2 DEF MarkFailed, LogRun
    <2> HIDE DEF c
    <2>3. Outputs(c) = Outputs(db) \cup AnnouncedBy(NoArtifact)
      BY <2>1, StoreParts DEF Outputs
    <2>4. c.task = RowAfter("task.status_changed", db.task)
      BY <2>1 DEF RowAfter
    <2>5. HistoryFits(db') /\ Extends(db.log, db'.log)
      BY <2>1, <2>2, <2>3, <2>4, StoreParts, TaskEventRemembered DEF EventTypes, RunTypes
    <2> QED
      BY <2>5, WriteGoesOn DEF MarkFailed
  <1> QED
    BY <1>1, <1>2

(* Whoever tells, the row stays what it was.                               *)
LEMMA TellFailureGoesOn ==
    ASSUME HistoryIInv, NEW k \in Attempts, TellFailure(k)
    PROVE  HistoryGoesOn
  <1>1. db' = Log(db, "task.failed", NoArtifact)
    BY DEF TellFailure, LogRun
  <1>2. db.task = RowAfter("task.failed", db.task)
    BY DEF RowAfter
  <1>3. HistoryFits(db') /\ Extends(db.log, db'.log)
    BY <1>1, <1>2, StoreParts, TaskEventRemembered DEF EventTypes, RunTypes
  <1> QED
    BY <1>3, WriteGoesOn DEF TellFailure

LEMMA BeginGoesOn ==
    ASSUME HistoryIInv, NEW k \in Attempts, BeginPublication(k)
    PROVE  HistoryGoesOn
  <1>1. txn'.db = db /\ db' = db
    BY DEF BeginPublication
  <1> QED
    BY <1>1, StoreParts DEF OpenHistoryFits, HistoryGoesOn

LEMMA OpenHistory ==
    ASSUME HistoryIInv, NEW k \in Attempts, txn.owner = k
    PROVE  /\ txn \in Transactions /\ txn.db \in Databases
           /\ HistoryFits(txn.db) /\ Extends(db.log, txn.db.log)
  BY OpenTransaction DEF HistoryIInv, EventStreamIInv, OpenHistoryFits, Transactions

LEMMA PublishGoesOn ==
    ASSUME HistoryIInv, NEW k \in Attempts, NEW p \in Ports, PublishOutput(k, p)
    PROVE  HistoryGoesOn
  <1> DEFINE h == txn.hash[p]
             a == <<p, h>>
             c == [txn.db EXCEPT !.rows = @ \cup {a}]
             e == Log(c, "artifact.published", a)
  <1>1. /\ txn \in Transactions /\ txn.db \in Databases /\ HistoryFits(txn.db)
        /\ Extends(db.log, txn.db.log)
    BY OpenHistory DEF PublishOutput
  <1>2. h \in Hashes
    BY <1>1 DEF Transactions
  <1>3. a \in Artifacts /\ a[1] = p /\ a # NoArtifact
    BY <1>2 DEF Artifacts, Names, NoArtifact
  <1>4. /\ c \in Databases /\ c.rows = txn.db.rows \cup {a} /\ c.log = txn.db.log
        /\ c.run = txn.db.run /\ c.task = txn.db.task
    BY <1>1, <1>3 DEF Databases
  <1>5. txn' = [txn EXCEPT !.todo = txn.todo \ {p}, !.db = e] /\ db' = db
    BY DEF PublishOutput
  <1>6. e = Log(c, "artifact.published", a)
    OBVIOUS
  <1> HIDE DEF h, a, c, e
  <1>7. Outputs(c) = Outputs(txn.db) \cup AnnouncedBy(a)
    BY <1>3, <1>4 DEF Outputs, AnnouncedBy
  <1>8. c.task = RowAfter("artifact.published", txn.db.task)
    BY <1>4 DEF RowAfter
  <1>9. HistoryFits(e) /\ Extends(txn.db.log, e.log)
    BY <1>1, <1>3, <1>4, <1>6, <1>7, <1>8, TaskEventRemembered DEF EventTypes, RunTypes
  <1>10. Extends(db.log, e.log)
    BY <1>1, <1>9, ExtendsTransitive
  <1>11. txn'.db = e
    BY <1>1, <1>5 DEF Transactions
  <1> QED
    BY <1>5, <1>9, <1>10, <1>11, StoreParts DEF OpenHistoryFits, HistoryGoesOn

LEMMA CommitGoesOn ==
    ASSUME HistoryIInv, NEW k \in Attempts, CommitTask(k)
    PROVE  HistoryGoesOn
  <1> DEFINE c == [txn.db EXCEPT !.task = "succeeded", !.holder = Nobody]
  <1>1. txn.db \in Databases /\ HistoryFits(txn.db) /\ Extends(db.log, txn.db.log)
    BY OpenHistory DEF CommitTask
  <1>2. /\ c \in Databases /\ c.rows = txn.db.rows /\ c.log = txn.db.log
        /\ c.run = txn.db.run /\ c.task = "succeeded"
    BY <1>1 DEF Databases, TaskStatuses
  <1>3. db' = Log(c, "task.completed", NoArtifact) /\ txn' = Closed
    BY DEF CommitTask, LogRun
  <1> HIDE DEF c
  <1>4. Outputs(c) = Outputs(txn.db) \cup AnnouncedBy(NoArtifact)
    BY <1>2, StoreParts DEF Outputs
  <1>5. c.task = RowAfter("task.completed", txn.db.task)
    BY <1>2 DEF RowAfter
  <1>6. HistoryFits(db') /\ Extends(txn.db.log, db'.log)
    BY <1>1, <1>2, <1>3, <1>4, <1>5, StoreParts, TaskEventRemembered DEF EventTypes, RunTypes
  <1>7. Extends(db.log, db'.log)
    BY <1>1, <1>6, ExtendsTransitive
  <1> QED
    BY <1>3, <1>6, <1>7 DEF OpenHistoryFits, HistoryGoesOn

LEMMA AttemptGoesOn ==
    ASSUME HistoryIInv, NEW k \in Attempts, Attempt(k) \/ Crash(k)
    PROVE  HistoryGoesOn
  <1>1. CASE \/ PublishStale(k) \/ Crash(k) \/ CheckClaim(k) \/ LookAtTask(k)
             \/ \E p \in Ports : PublishOutputFails(k, p)
    BY <1>1, NoWriteGoesOn DEF PublishStale, Crash, PublishOutputFails, Rollback,
       CheckClaim, LookAtTask
  <1> QED
    BY <1>1, BeginGoesOn, CommitGoesOn, PublishGoesOn, MarkFailedGoesOn, TellFailureGoesOn
       DEF Attempt

(* Uploads, references, leases and ages: no event, no output.              *)
LEMMA UploadGoesOn ==
    ASSUME HistoryIInv, NEW h \in Hashes, UploadFile(h) \/ DeclareCrs(h) \/ Damage(h)
    PROVE  HistoryGoesOn
  <1>1. CASE UNCHANGED <<db, txn>>
    BY <1>1, NoWriteGoesOn
  <1>2. CASE UploadFile(h) /\ db' # db
    <2>1. db' = [db EXCEPT !.rows = @ \cup {<<Upload, h>>}]
      BY <1>2 DEF UploadFile
    <2>2. /\ db' \in Databases /\ db'.rows = db.rows \cup {<<Upload, h>>}
          /\ db'.log = db.log /\ db'.run = db.run /\ db'.task = db.task
      BY <2>1, StoreParts, UploadedNames DEF Databases
    <2>3. Outputs(db') = Outputs(db)
      BY <2>2, UploadedNames DEF Outputs
    <2> QED
      BY <1>2, <2>2, <2>3, SilentGoesOn DEF UploadFile
  <1>3. CASE DeclareCrs(h)
    <2>1. StoreIInv'
      BY <1>3, StoreParts, DeclareCrsKeeps
    <2>2. db' = [db EXCEPT !.rows = db.rows \cup {<<Declared, h>>}, !.lastId = db.lastId + 1]
      BY <1>3 DEF DeclareCrs
    <2>3. db' \in Databases
      BY <2>1 DEF StoreIInv, CommittedFits, DatabaseFits
    <2>4. /\ db'.rows = db.rows \cup {<<Declared, h>>}
          /\ db'.log = db.log /\ db'.run = db.run /\ db'.task = db.task
      BY <2>2, StoreParts DEF Databases
    <2>5. Outputs(db') = Outputs(db)
      BY <2>4, UploadedNames DEF Outputs
    <2> QED
      BY <1>3, <2>3, <2>4, <2>5, SilentGoesOn DEF DeclareCrs
  <1> QED
    BY <1>1, <1>2, <1>3 DEF UploadFile, Damage

LEMMA ReferencesGoOn ==
    ASSUME HistoryIInv,
           Collect \/ \E a \in Artifacts : AttachTaskInput(a)
    PROVE  HistoryGoesOn
  <1>1. ASSUME db' \in Databases, Writable, UNCHANGED txn, db'.rows = db.rows,
               db'.log = db.log, db'.run = db.run, db'.task = db.task
        PROVE  HistoryGoesOn
    <2>1. Outputs(db') = Outputs(db)
      BY <1>1 DEF Outputs
    <2> QED
      BY <1>1, <2>1, SilentGoesOn
  <1>2. StoreIInv'
    BY StoreParts, CollectKeeps, AttachTaskInputKeeps
  <1>3. db' \in Databases
    BY <1>2 DEF StoreIInv, CommittedFits, DatabaseFits
  <1>4. ASSUME Writable, UNCHANGED txn,
               \/ \E s : db' = [db EXCEPT !.leases = s]
               \/ \E s : db' = [db EXCEPT !.old = s]
               \/ \E s : db' = [db EXCEPT !.inputs = s]
        PROVE  HistoryGoesOn
    BY <1>1, <1>3, <1>4, StoreParts DEF Databases
  <1>5. CASE CandidateManifest \/ ManifestDone \/ StageOne \/ ConfirmDone
    BY <1>5, NoWriteGoesOn DEF CandidateManifest, ManifestDone, StageOne, ConfirmDone
  <1>6. CASE ReleaseManifest
    BY <1>4, <1>6 DEF ReleaseManifest
  <1>7. ASSUME NEW a \in Artifacts, LeaseCandidate(a)
        PROVE  HistoryGoesOn
    <2>1. db' = db \/ db' = [db EXCEPT !.leases = db.leases \cup {a}]
      BY <1>7 DEF LeaseCandidate
    <2> QED
      BY <1>4, <1>7, <2>1, NoWriteGoesOn DEF LeaseCandidate
  <1>8. ASSUME NEW a \in Artifacts, StageTwo(a)
        PROVE  HistoryGoesOn
    <2>1. db' = db \/ db' = [db EXCEPT !.leases = db.leases \cup {a}]
      BY <1>8 DEF StageTwo
    <2> QED
      BY <1>4, <1>8, <2>1, NoWriteGoesOn DEF StageTwo
  <1>9. ASSUME NEW a \in Artifacts, LeaseExpires(a) \/ Age(a) \/ AttachTaskInput(a)
        PROVE  HistoryGoesOn
    BY <1>4, <1>9 DEF LeaseExpires, Age, AttachTaskInput
  <1> QED
    BY <1>5, <1>6, <1>7, <1>8, <1>9 DEF Collect

LEMMA StoreGoesOn ==
    ASSUME HistoryIInv, StoreNext
    PROVE  HistoryGoesOn
  BY ClaimGoesOn, RecoverGoesOn, FinishGoesOn, AttemptGoesOn, UploadGoesOn, ReferencesGoOn
     DEF StoreNext

-----------------------------------------------------------------------------
(* The client and its projections.                                         *)
LEMMA SnapshotRemembers ==
    ASSUME HistoryIInv
    PROVE  Remembers(db.log, Snapshot)
  <1>1. Snapshot = SnapshotOf(db) /\ Snapshot.seq = Len(db.log) /\ Snapshot.task = db.task
    BY DEF Snapshot, SnapshotOf, Outputs
  <1>2. Len(db.log) \in Nat
    BY StoreParts
  <1>3. ASSUME NEW f, IsHistory(db.log, f)
        PROVE  /\ SameButTask(Snapshot, f[Snapshot.seq])
               /\ HeardIn(db.log, f, Snapshot.task, Snapshot.seq)
    <2>1. SameButTask(Snapshot, f[Len(db.log)]) /\ Snapshot.task = f[Len(db.log)].task
      BY <1>1, <1>3 DEF HistoryIInv, HistoryFits, IsTold
    <2>2. /\ Len(db.log) \in 0 .. Len(db.log)
          /\ \A i \in Len(db.log) + 1 .. Len(db.log) : ~ SpeaksOfTask(db.log[i])
      BY <1>2
    <2>3. HeardIn(db.log, f, Snapshot.task, Len(db.log))
      BY <2>1, <2>2, HeardAt
    <2> QED
      BY <1>1, <2>1, <2>3
  <1> QED
    BY <1>3 DEF Remembers

LEMMA AnswerRemembers ==
    ASSUME HistoryIInv, NEW s \in Answers
    PROVE  /\ Remembers(db.log, s)
           /\ Answered(s) => Remembers(db.log, cached')
  BY SnapshotRemembers DEF HistoryIInv, ViewsFit, Answers, Answered

(* The next event of the log, applied to the projection.                   *)
LEMMA ApplyRemembers ==
    ASSUME HistoryIInv, NEW i \in 1 .. Len(db.log), i = client.view.seq + 1
    PROVE  Remembers(db.log, Apply(client.view, i))
  <1> DEFINE v == client.view
             w == Apply(client.view, i)
  <1>1. SUFFICES ASSUME NEW f, IsHistory(db.log, f)
                 PROVE  SameButTask(w, f[w.seq]) /\ HeardIn(db.log, f, w.task, w.seq)
    BY DEF Remembers
  <1>2. v.seq \in Nat /\ i - 1 = v.seq /\ i \in Nat /\ w.seq = i /\ i = v.seq + 1
    BY Parts DEF HistoryIInv, Apply
  <1>3. SameButTask(v, f[v.seq]) /\ HeardIn(db.log, f, v.task, v.seq)
    BY <1>1 DEF HistoryIInv, ViewsFit, Remembers
  <1>4. f[i] = After(db.log, f[v.seq], i)
    BY <1>1, <1>2 DEF IsHistory
  <1>5. SameButTask(w, f[i])
    BY <1>3, <1>4 DEF Apply, After, RunStatus, RunAfter, SameButTask
  <1>6. w.task = TaskStatus(v, db.log[i])
    BY DEF Apply
  <1> HIDE DEF v, w
  <1>7. CASE SpeaksOfTask(db.log[i])
    <2>1. w.task = TaskStatus(f[i], db.log[i])
      BY <1>6, <1>7, TaskTold
    <2>2. i \in 0 .. i /\ i > 0 /\ \A m \in i + 1 .. i : FALSE
      BY <1>2
    <2>3. HeardIn(db.log, f, w.task, i)
      BY <2>1, <2>2 DEF HeardIn
    <2> QED
      BY <1>2, <1>5, <2>3
  <1>8. CASE ~ SpeaksOfTask(db.log[i])
    <2>1. w.task = v.task
      BY <1>6, <1>8, TaskTold
    <2>2. PICK j \in 0 .. v.seq :
              /\ \A m \in j + 1 .. v.seq : ~ SpeaksOfTask(db.log[m])
              /\ v.task = f[j].task \/ (j > 0 /\ v.task = TaskStatus(f[j], db.log[j]))
      BY <1>3 DEF HeardIn
    <2>3. j \in 0 .. i /\ \A m \in j + 1 .. i : m \in j + 1 .. v.seq \/ m = i
      BY <1>2
    <2>4. \A m \in j + 1 .. i : ~ SpeaksOfTask(db.log[m])
      BY <1>8, <2>2, <2>3
    <2>5. HeardIn(db.log, f, w.task, i)
      BY <2>1, <2>2, <2>3, <2>4 DEF HeardIn
    <2> QED
      BY <1>2, <1>5, <2>5
  <1> QED
    BY <1>7, <1>8

LEMMA StreamGoesOn ==
    ASSUME HistoryIInv, StreamNext, StoreUnchanged
    PROVE  Remembers(db.log, client'.view) /\ Remembers(db.log, cached')
  <1>1. /\ client \in Clients /\ Remembers(db.log, client.view) /\ Remembers(db.log, cached)
        /\ wire \in Seq(1 .. Len(db.log))
    BY Parts DEF HistoryIInv, ViewsFit
  <1>2. CASE Serve \/ Connect \/ OpenStream \/ Reconnect \/ Network
    <2>1. client'.view = client.view /\ cached' = cached
      BY <1>1, <1>2 DEF Serve, Poll, CheckTerminal, Connect, OpenStream, Reconnect, Network,
         Disconnect, LoseFrame, RepeatFrame, Offline, Clients
    <2> QED
      BY <1>1, <2>1
  <1>3. CASE GetSnapshot
    <2>1. ASSUME NEW s \in Answers, Rebase(s), Answered(s)
          PROVE  Remembers(db.log, client'.view) /\ Remembers(db.log, cached')
      BY <2>1, AnswerRemembers DEF Rebase
    <2>2. CASE /\ client' = [client EXCEPT !.pc = IF @ = "connect" THEN "closed" ELSE "rebase"]
               /\ UNCHANGED cached
      BY <1>1, <2>2 DEF Clients
    <2> QED
      BY <1>3, <2>1, <2>2 DEF GetSnapshot
  <1>4. CASE Receive
    <2> DEFINE i == Head(wire)
    <2>1. i \in 1 .. Len(db.log)
      BY <1>1, <1>4 DEF Receive
    <2>2. CASE client' = client \/ client' = [client EXCEPT !.pc = "rebase"]
      BY <1>1, <1>4, <2>2 DEF Receive, Clients
    <2>3. CASE Fits(i) /\ client'.view = Apply(client.view, i)
      BY <1>1, <1>4, <2>1, <2>3, ApplyRemembers DEF Receive, Fits
    <2> QED
      BY <1>4, <2>2, <2>3 DEF Receive
  <1>5. CASE Refresh
    <2>1. ASSUME NEW s \in Answers, Answered(s), client'.view \in {s, client.view}
          PROVE  Remembers(db.log, client'.view) /\ Remembers(db.log, cached')
      BY <1>1, <2>1, AnswerRemembers
    <2>2. CASE client'.view = client.view /\ UNCHANGED cached
      BY <1>1, <2>2
    <2> QED
      BY <1>5, <2>1, <2>2 DEF Refresh, Refreshed
  <1> QED
    BY <1>2, <1>3, <1>4, <1>5 DEF StreamNext, Watch

-----------------------------------------------------------------------------
LEMMA EmptyHistory ==
    ASSUME NEW log, log = <<>>, NEW v, v = Beginning
    PROVE  Remembers(log, v)
  <1> SUFFICES ASSUME NEW f, IsHistory(log, f)
               PROVE  SameButTask(v, f[v.seq]) /\ HeardIn(log, f, v.task, v.seq)
    BY DEF Remembers
  <1>1. f[0] = Beginning /\ v.seq = 0 /\ v.task = Beginning.task
    BY DEF IsHistory, Beginning
  <1>2. 0 \in 0 .. 0 /\ \A i \in 0 + 1 .. 0 : ~ SpeaksOfTask(log[i])
    OBVIOUS
  <1>3. HeardIn(log, f, v.task, 0)
    BY <1>1, <1>2, HeardAt
  <1> QED
    BY <1>1, <1>3 DEF SameButTask

LEMMA HistoryIInvInit == Init => HistoryIInv
  <1> SUFFICES ASSUME Init
               PROVE  HistoryIInv
    OBVIOUS
  <1>1. /\ db.log = <<>> /\ txn = Closed /\ SnapshotOf(db) = Beginning
        /\ db.task = Beginning.task
    BY DEF Init, StoreInit, SnapshotOf, Outputs, Beginning, LastId
  <1>2. Snapshot = SnapshotOf(db)
    BY DEF Snapshot, SnapshotOf, Outputs
  <1>3. HistoryFits(db)
    BY <1>1 DEF HistoryFits, Paired, IsTold, IsHistory, SameButTask
  <1>4. ViewsFit
    BY <1>1, <1>2, EmptyHistory DEF Init, ViewsFit
  <1> QED
    BY <1>1, <1>3, <1>4, EventStreamIInvInit DEF HistoryIInv, OpenHistoryFits

LEMMA HistoryIInvStep == HistoryIInv /\ [Next]_vars => HistoryIInv'
  <1> SUFFICES ASSUME HistoryIInv, [Next]_vars
               PROVE  HistoryIInv'
    OBVIOUS
  <1>1. EventStreamIInv'
    BY EventStreamIInvStep DEF HistoryIInv
  <1>2. CASE StoreNext /\ UNCHANGED streamVars
    <2>1. HistoryGoesOn
      BY <1>2, StoreGoesOn
    <2>2. client.view.seq \in 0 .. Len(db.log) /\ cached.seq \in 0 .. Len(db.log)
      BY Parts DEF HistoryIInv, Projections
    <2>3. Remembers(db'.log, client.view) /\ Remembers(db'.log, cached)
      BY <2>1, <2>2, RememberedLater DEF HistoryGoesOn, HistoryIInv, ViewsFit, HistoryFits
    <2> QED
      BY <1>1, <1>2, <2>1, <2>3 DEF HistoryGoesOn, HistoryIInv, ViewsFit, streamVars
  <1>3. CASE StreamNext /\ StoreUnchanged
    <2>1. Remembers(db.log, client'.view) /\ Remembers(db.log, cached')
      BY <1>3, StreamGoesOn
    <2> QED
      BY <1>1, <1>3, <2>1 DEF StoreUnchanged, HistoryIInv, OpenHistoryFits, ViewsFit
  <1>4. CASE UNCHANGED vars
    BY <1>1, <1>4 DEF vars, HistoryIInv, OpenHistoryFits, ViewsFit
  <1> QED
    BY <1>2, <1>3, <1>4 DEF Next, StoreUnchanged

LEMMA HistoryInvariant == Spec => []HistoryIInv
  BY HistoryIInvInit, HistoryIInvStep, PTL DEF Spec

(* The tables are what the log says, and the projection of a client is     *)
(* what they said when the log had as many events as its cursor says,      *)
(* however it was put together from snapshots, fresh or old, and events,   *)
(* new or repeated; its task is what the last event about it told.         *)
THEOREM ViewsAreHistory == Spec => []ViewIsHistory
  <1>1. HistoryIInv => ViewIsHistory
    <2> SUFFICES ASSUME HistoryIInv
                 PROVE  ViewIsHistory
      OBVIOUS
    <2>1. \A n \in 1 .. Len(db.log) : Fold[n] = Tables(Fold[n - 1], n)
      <3>1. 1 .. Len(db.log) \subseteq Nat \ {0}
        BY Parts DEF HistoryIInv
      <3> QED
        BY <3>1, FoldReplays
    <2>2. \A v, n : Tables(v, n) = After(db.log, v, n)
      BY RowAfterEvent DEF Tables, Apply, After, RunStatus, RunAfter
    <2>3. IsHistory(db.log, Fold)
      BY <2>1, <2>2, FoldReplays DEF IsHistory
    <2>4. ASSUME NEW n \in 0 .. Len(db.log)
          PROVE  Fold[n] = [run |-> Fold[n].run, task |-> Fold[n].task,
                            artifacts |-> Fold[n].artifacts, seq |-> Fold[n].seq, id |-> Fold[n].id]
      <3>1. CASE n = 0
        BY <3>1, FoldReplays DEF Beginning
      <3>2. CASE n \in 1 .. Len(db.log)
        <4>1. Fold[n] = After(db.log, Fold[n - 1], n)
          BY <2>3, <3>2 DEF IsHistory
        <4> QED
          BY <4>1 DEF After
      <3> QED
        BY <2>4, <3>1, <3>2, StoreParts
    <2>5. Snapshot = Fold[Len(db.log)]
      <3>1. SameButTask(SnapshotOf(db), Fold[Len(db.log)]) /\ db.task = Fold[Len(db.log)].task
        BY <2>3 DEF HistoryIInv, HistoryFits, IsTold
      <3>2. Len(db.log) \in 0 .. Len(db.log)
        BY StoreParts
      <3> QED
        BY <2>4, <3>1, <3>2 DEF SameButTask, Snapshot, SnapshotOf, Outputs
    <2> DEFINE v == client.view
    <2>6. v \in Projections /\ v.seq \in 0 .. Len(db.log)
      BY Parts DEF HistoryIInv, Projections
    <2>7. SameButTask(v, Fold[v.seq]) /\ HeardIn(db.log, Fold, v.task, v.seq)
      BY <2>3 DEF HistoryIInv, ViewsFit, Remembers
    <2>8. v = [Fold[v.seq] EXCEPT !.task = v.task]
      BY <2>4, <2>6, <2>7 DEF SameButTask, Projections
    <2>9. Heard(v.task, v.seq)
      BY <2>7 DEF Heard, HeardIn
    <2> QED
      BY <2>5, <2>8, <2>9 DEF ViewIsHistory
  <1> QED
    BY <1>1, HistoryInvariant, PTL
=============================================================================
