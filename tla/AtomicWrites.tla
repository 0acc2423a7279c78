---------------------------- MODULE AtomicWrites ----------------------------
(* What the database promises its callers (db/connection.py): the writes of a    *)
(* transaction reach the file all at once, before success is reported and never  *)
(* after an error was; nothing that reached the file leaves it.                  *)

CONSTANTS Tasks,            \* each makes one call
          Transactions,     \* those that open a transaction; the others run one statement on its own
          Rows(_)           \* what a task writes

VARIABLES file,   \* the rows the file holds
          told    \* what each caller was told

Init == file = {} /\ told = [t \in Tasks |-> "nothing"]

\* The rows of some tasks are stored: of one transaction at most, and of none that was told it failed.
Store(some) ==
  /\ \A t, u \in some \cap Transactions : t = u
  /\ \A t \in some \cap Transactions : told[t] \in {"nothing", "given up"}
  /\ file' = file \cup UNION {Rows(t) : t \in some} /\ UNCHANGED told

Tell(t, what) ==
  /\ told[t] = "nothing" /\ told' = [told EXCEPT ![t] = what]
  /\ t \in Transactions /\ what = "ok" => Rows(t) \subseteq file
  /\ t \in Transactions /\ what = "failed" => Rows(t) \cap file = {}
  /\ UNCHANGED file

Next == \/ \E some \in SUBSET Tasks : Store(some)
        \/ \E t \in Tasks : \E what \in {"ok", "failed", "given up"} : Tell(t, what)
AtomicWritesSpec == Init /\ [][Next]_<<file, told>>
=============================================================================
