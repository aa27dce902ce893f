---------------------------- MODULE MCEventStream ----------------------------
(* Six worlds: the collector and uploads; the same with refused rows and   *)
(* a failing disk; and watchers: over a bad network while an attempt is    *)
(* lost, while all attempts are lost, with an interruption, and while an   *)
(* attempt that failed loses its lease before it has said so.              *)
EXTENDS EventStream

World(crash, failure, upload, damage, collect, watch, net) ==
    [crash |-> crash, failure |-> failure, upload |-> upload, damage |-> damage,
     collect |-> collect, watch |-> watch, net |-> net]

Worlds == {World(0, 0, 1, 0, 2, 0, 0), World(0, 1, 1, 1, 1, 0, 0),
           World(1, 0, 0, 0, 0, 1, 2), World(2, 0, 0, 0, 0, 1, 1),
           World(0, 1, 1, 0, 0, 2, 1), World(1, 1, 0, 0, 0, 1, 0)}
=============================================================================
