----------------------------- MODULE MCTaskQueue -----------------------------
(***************************************************************************)
(* A small instance of TaskQueue: one run that fetches a layer (retryable, *)
(* two attempts), derives a map from it and publishes the map.             *)
(***************************************************************************)
EXTENDS TaskQueue

CONSTANTS run, fetch, derive, publish, w1, w2, nobody

MCRunOf == [t \in Tasks |-> run]
MCDeps == [t \in Tasks |-> CASE t = derive  -> {fetch}
                             [] t = publish -> {derive}
                             [] OTHER       -> {}]
MCMaxAttempts == [t \in Tasks |-> IF t = fetch THEN 2 ELSE 1]
MCRetryable == [t \in Tasks |-> IF t = fetch THEN {"TIMEOUT", "WORKER_LOST"} ELSE {}]
=============================================================================
