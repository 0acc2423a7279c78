---------------------------- MODULE MCConnection ----------------------------
(* Connection with a host or none, two timeouts and a few requests. *)
EXTENDS DeviceLink

CONSTANTS h1

\* One setting at a time, or both.
SomePatches == {[host |-> h1], [host |-> NoHost], [timeout |-> 7], [host |-> h1, timeout |-> 5]}
=============================================================================
