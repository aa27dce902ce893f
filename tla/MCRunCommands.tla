--------------------------- MODULE MCRunCommands ---------------------------
(* An API process and a worker of the command line, and two connections    *)
(* that send anything a client may send, in particular the same twice.     *)
EXTENDS RunCommands
=============================================================================
