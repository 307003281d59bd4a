----------------------------- MODULE TurnBilling -----------------------------
(***************************************************************************)
(* What the billing of chat turns promises to a user who sends a request,  *)
(* without runs, workers, leases, retries or amounts: the question is      *)
(* recorded with the authorization, the answer with the charge.  An        *)
(* authorization is closed once, by the charge or without one; a closed    *)
(* one is never charged.  A question may be taken back, for good, but only *)
(* of a turn that was not charged; an answer never is.                     *)
(***************************************************************************)
CONSTANT Request

VARIABLES row,        \* [Request -> what became of its authorization]
          asked,      \* the requests whose question is in its conversation
          answered    \* the requests whose answer is

Init ==
    /\ row = [q \in Request |-> "none"]
    /\ asked = {}
    /\ answered = {}

\* "released": given up in the same moment.
Ask(q) ==
    /\ row[q] = "none"
    /\ \E b \in {"authorized", "released"} : row' = [row EXCEPT ![q] = b]
    /\ asked' = asked \cup {q}
    /\ UNCHANGED answered

Answer(q) ==
    /\ row[q] = "authorized"
    /\ q \in asked
    /\ row' = [row EXCEPT ![q] = "settled"]
    /\ answered' = answered \cup {q}
    /\ UNCHANGED asked

Close(q) ==
    /\ row[q] = "authorized"
    /\ \E b \in {"released", "expired"} : row' = [row EXCEPT ![q] = b]
    /\ UNCHANGED <<asked, answered>>

Withdraw(q) ==
    /\ q \in asked
    /\ row[q] # "settled"
    /\ row' = [row EXCEPT ![q] = IF @ = "authorized" THEN "released" ELSE @]
    /\ asked' = asked \ {q}
    /\ UNCHANGED answered

Next == \E q \in Request : Ask(q) \/ Answer(q) \/ Close(q) \/ Withdraw(q)

Spec == Init /\ [][Next]_<<row, asked, answered>>
=============================================================================
