---------------------------- MODULE MCSupervisor ----------------------------
(***************************************************************************)
(* Small instances of Supervisor: one run with a retryable task, a side    *)
(* effect, or the one feeding the other.  Two worker ids: the process ends *)
(* and is started again once.                                              *)
(***************************************************************************)
EXTENDS Supervisor

CONSTANTS run, fetch, publish, w1, w2, nobody, noTask, noRun

MCRunOf == [t \in Tasks |-> run]
MCDeps == [t \in Tasks |-> IF t = publish THEN {fetch} \cap Tasks ELSE {}]
MCMaxAttempts == [t \in Tasks |-> IF t = fetch THEN 2 ELSE 1]
MCRetryable == [t \in Tasks |-> IF t = fetch THEN {"TIMEOUT", "WORKER_LOST"} ELSE {}]

=============================================================================
