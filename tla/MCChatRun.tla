------------------------------ MODULE MCChatRun ------------------------------
(* One answer that is streamed, two questions one after the other, or at once.   *)
EXTENDS ChatRun

Watched == [calls |-> 1, rounds |-> 1, runs |-> 1, streams |-> 2, deltas |-> 1, troubles |-> 2, overlap |-> FALSE]
Unwatched == [calls |-> 2, rounds |-> 2, runs |-> 2, streams |-> 0, deltas |-> 0, troubles |-> 1, overlap |-> FALSE]
Crossed == [calls |-> 1, rounds |-> 1, runs |-> 2, streams |-> 0, deltas |-> 0, troubles |-> 0, overlap |-> TRUE]
EachScene == {Watched, Unwatched, Crossed}
=============================================================================
