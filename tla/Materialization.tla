--------------------------- MODULE Materialization ---------------------------
(***************************************************************************)
(* What saving a reviewed candidate promises, without commits, attempts,   *)
(* leases or previews: a candidate is either written to its target once    *)
(* and then reported as saved, or withdrawn without ever being written.    *)
(* One that was written is never withdrawn, and nothing settled moves.     *)
(***************************************************************************)
VARIABLE outcome   \* "proposed", "written", "saved" or "withdrawn"

Init == outcome = "proposed"

Write == outcome = "proposed" /\ outcome' = "written"
Save == outcome = "written" /\ outcome' = "saved"
Withdraw == outcome = "proposed" /\ outcome' = "withdrawn"

Next == Write \/ Save \/ Withdraw

Spec == Init /\ [][Next]_outcome
=============================================================================
