----------------------------- MODULE MCRestarts -----------------------------
(* Two uploads over an archive that may need an upgrade. *)
EXTENDS Restarts

CONSTANTS u1, u2
=============================================================================
