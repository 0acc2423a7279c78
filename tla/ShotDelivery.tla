----------------------------- MODULE ShotDelivery -----------------------------
(* What a shot pass relies on when it fetches what is missing: every shot is     *)
(* delivered at most once and about in the order asked for; either all are, or   *)
(* the pass was given up or cancelled.                                           *)
EXTENDS Naturals, Sequences, FiniteSets, SequencesExt

CONSTANTS Items,        \* how many shots are missing; oldest first, they are 1..Items
          Concurrency   \* how many are fetched at a time

VARIABLES delivered,    \* the shots that were handed over, in their order
          ended         \* how the pass ended

deliveryVars == <<delivered, ended>>
Ends == {"no", "all", "gave up", "cancelled"}

DeliveryInit == delivered = <<>> /\ ended = "no"

\* Oldest first, but for the ones that are still under way beside it.
Deliver(i) ==
  /\ ended = "no" /\ i \notin ToSet(delivered)
  /\ Cardinality(1..(i - 1) \ ToSet(delivered)) < Concurrency
  /\ delivered' = Append(delivered, i) /\ UNCHANGED ended

End(how) ==
  /\ ended = "no" /\ how # "no" /\ (how = "all" => ToSet(delivered) = 1..Items)
  /\ ended' = how /\ UNCHANGED delivered

DeliveryNext == (\E i \in 1..Items : Deliver(i)) \/ (\E how \in Ends : End(how))
DeliverySpec == DeliveryInit /\ [][DeliveryNext]_deliveryVars
=============================================================================
