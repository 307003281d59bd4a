-------------------------- MODULE OperationReceipts --------------------------
(***************************************************************************)
(* What the operation receipts of a Mission promise, without leases,       *)
(* claims, attempts or crashes: an operation is decided once; it is        *)
(* decided as a success only when its effect happened, or when the receipt *)
(* it rests on is a success; no effect begins after the decision; and a    *)
(* call is reported to the Mission once, as completed only on a success.   *)
(***************************************************************************)
CONSTANTS Call, Key,
          KeyOf,     \* the operation each call asks for
          RestsOn    \* operations whose effect is another one's: a sandbox job

VARIABLES decided,   \* "open", "succeeded" or "failed", for each operation
          happened,  \* the operations whose effect began
          reported   \* "open", "completed" or "failed", for each call

Init ==
    /\ decided = [k \in Key |-> "open"]
    /\ happened = {}
    /\ reported = [c \in Call |-> "open"]

Happen(k) ==
    /\ decided[k] = "open"
    /\ happened' = happened \cup {k}
    /\ UNCHANGED <<decided, reported>>

Confirmed(k) ==
    IF k \in DOMAIN RestsOn THEN decided[RestsOn[k]] = "succeeded" ELSE k \in happened

Decide(k, v) ==
    /\ decided[k] = "open"
    /\ v = "succeeded" => Confirmed(k)
    /\ decided' = [decided EXCEPT ![k] = v]
    /\ UNCHANGED <<happened, reported>>

\* All calls of one Mission operation are reported together.
Report(C, completed) ==
    /\ \A c \in C : reported[c] = "open"
    /\ \A c \in completed : decided[KeyOf[c]] = "succeeded"
    /\ reported' = [c \in Call |-> IF c \in completed THEN "completed"
                                   ELSE IF c \in C THEN "failed" ELSE reported[c]]
    /\ UNCHANGED <<decided, happened>>

Next ==
    \/ \E k \in Key : Happen(k)
    \/ \E k \in Key, v \in {"succeeded", "failed"} : Decide(k, v)
    \/ \E C \in SUBSET Call : \E completed \in SUBSET C : Report(C, completed)

Spec == Init /\ [][Next]_<<decided, happened, reported>>
=============================================================================
