----------------------------- MODULE MCPlanning -----------------------------
(* The thread of an API process, whose name is never used again, and that  *)
(* of a worker of the command line, whose name may be.                     *)
EXTENDS Planning
=============================================================================
