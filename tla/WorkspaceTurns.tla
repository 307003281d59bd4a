--------------------------- MODULE WorkspaceTurns ----------------------------
(***************************************************************************)
(* Whose turn it is in one workspace: the order in which due Missions get  *)
(* the slot, over a run of any length.  The fences of MissionLease are     *)
(* abstracted to one slot that is free, reserved by a dispatch generation, *)
(* or used under a lease; what is kept is every write of next_wakeup_at    *)
(* and of the two expiry instants, and the checks that read them.          *)
(*                                                                         *)
(* The due instants are kept as an order: due is the line of the Missions  *)
(* that have one, due_before says which of two is older.  A Mission is     *)
(* "runnable" when a delivery would make it drive: planning, running, or   *)
(* waiting with an unapplied command.  One that is "waiting" has none.     *)
(***************************************************************************)
EXTENDS Naturals, FiniteSets

CONSTANTS
    Mission,   \* the Missions of one workspace
    None,      \* no Mission
    MaxWakes   \* bound on wakeups written for Missions already in line

ASSUME TurnAssumption ==
    /\ None \notin Mission
    /\ IsFiniteSet(Mission)
    /\ MaxWakes \in Nat

VARIABLES
    status,    \* [Mission -> "new", "runnable", "waiting" or "over"]
    due,       \* Missions that are in line
    due_before,\* <<m, n>>: both are in line, m for longer than n
    later,     \* Missions whose next_wakeup_at is still ahead
    slot,      \* the Mission that has the slot, or None
    leased,    \* the slot is used under a lease
    overtaken, \* [Mission -> leases of its peers since it is in line]
    wakes      \* wakeups written for Missions already in line

vars == <<status, due, due_before, later, slot, leased, overtaken, wakes>>
order == <<due, due_before>>

InLine(m) == m \in due
Without(m) == {p \in due_before : p[1] # m /\ p[2] # m}
Oldest(m) == InLine(m) /\ \A p \in due : <<p, m>> \notin due_before

TypeOK ==
    /\ status \in [Mission -> {"new", "runnable", "waiting", "over"}]
    /\ due \subseteq Mission
    /\ due_before \subseteq Mission \X Mission
    /\ later \subseteq Mission
    /\ slot \in Mission \cup {None}
    /\ leased \in BOOLEAN
    /\ overtaken \in [Mission -> Nat]
    /\ wakes \in Nat

Init ==
    /\ status = [m \in Mission |-> "new"]
    /\ due = {}
    /\ due_before = {}
    /\ later = {}
    /\ slot = None
    /\ leased = FALSE
    /\ overtaken = [m \in Mission |-> 0]
    /\ wakes = 0

-----------------------------------------------------------------------------
(* Falling due.                                                            *)

\* Mutant of DueNow: the newest instant comes first.
DueFirst(m) ==
    /\ due' = due \cup {m}
    /\ due_before' = Without(m) \cup {<<m, p>> : p \in due \ {m}}
    /\ overtaken' = [overtaken EXCEPT ![m] = 0]

\* next_wakeup_at becomes now: the instant moves behind all due ones.
DueNow(m) ==
    /\ due' = due \cup {m}
    /\ due_before' = Without(m) \cup {<<p, m>> : p \in due \ {m}}
    /\ overtaken' = [overtaken EXCEPT ![m] = 0]

\* The instant is cleared, or moves ahead of now.
LeaveLine(m) ==
    /\ due' = due \ {m}
    /\ due_before' = Without(m)

\* create_run and apply_initial_admission; without credit the Mission waits.
Admit(m, s) ==
    /\ status[m] = "new"
    /\ status' = [status EXCEPT ![m] = s]
    /\ IF s = "runnable" THEN DueNow(m) ELSE UNCHANGED <<order, overtaken>>
    /\ UNCHANGED <<later, slot, leased, wakes>>

\* A write from outside the slice sets next_wakeup_at to now.  A Mission in
\* line moves to the end, unless it is there for an expired lease.
Wake(m) ==
    /\ status[m] \in {"runnable", "waiting"}
    /\ later' = later \ {m}
    /\ IF InLine(m)
         THEN /\ wakes < MaxWakes
              /\ wakes' = wakes + 1
              /\ DueNow(m) \/ UNCHANGED <<order, overtaken>>
         ELSE DueNow(m) /\ UNCHANGED wakes
    /\ UNCHANGED <<slot, leased>>

\* A command is appended, the user answers the pending request, or the review
\* item the Mission waits for is settled.
WakeByUser(m) ==
    /\ Wake(m)
    /\ status' = [status EXCEPT ![m] = "runnable"]

\* A review item is rejected or committed while the Mission waits for
\* something else, or does not wait: it is due, and its status stays.
WakeByReview(m) ==
    /\ Wake(m)
    /\ UNCHANGED status

\* pause_run on behalf of an expired credit reservation.
ExpireReservation(m) ==
    /\ status[m] \in {"runnable", "waiting"}
    /\ status' = [status EXCEPT ![m] = "waiting"]
    /\ LeaveLine(m)
    /\ later' = later \ {m}
    /\ IF slot = m /\ leased THEN slot' = None /\ leased' = FALSE
                            ELSE UNCHANGED <<slot, leased>>
    /\ UNCHANGED <<overtaken, wakes>>

FallDue(m) ==
    /\ m \in later
    /\ later' = later \ {m}
    /\ DueNow(m)
    /\ UNCHANGED <<status, slot, leased, wakes>>

-----------------------------------------------------------------------------
(* The slot.                                                               *)

\* Mutant of Dispatch: the Mission that fell due last.
DispatchLast(m) ==
    /\ slot = None
    /\ InLine(m)
    /\ \A p \in due : <<m, p>> \notin due_before
    /\ slot' = m
    /\ UNCHANGED <<status, order, later, leased, overtaken, wakes>>

\* claim_runnable_batch_skip_locked and claim_dispatch_for_run: the oldest.
Dispatch(m) ==
    /\ slot = None
    /\ Oldest(m)
    /\ slot' = m
    /\ UNCHANGED <<status, order, later, leased, overtaken, wakes>>

\* The hint of a delayed wakeup reserves ahead of its instant (not_before_at)
\* while nobody is due.
DispatchAhead(m) ==
    /\ slot = None
    /\ due = {}
    /\ m \in later
    /\ slot' = m
    /\ UNCHANGED <<status, order, later, leased, overtaken, wakes>>

\* The message is delivered and buys a lease.
ClaimLease(m) ==
    /\ slot = m
    /\ ~leased
    /\ status[m] = "runnable"
    /\ InLine(m)
    /\ leased' = TRUE
    /\ LeaveLine(m)
    /\ overtaken' = [p \in Mission |-> IF p # m /\ InLine(p)
                                         THEN overtaken[p] + 1 ELSE overtaken[p]]
    /\ UNCHANGED <<status, later, slot, wakes>>

Free == slot' = None /\ leased' = FALSE

\* The message is delivered and run_slice only releases the generation: the
\* Mission waits, or is not due yet.  next_wakeup_at stays as it is.
ReleaseDispatch(m) ==
    /\ slot = m
    /\ ~leased
    /\ status[m] # "runnable" \/ ~InLine(m)
    /\ Free
    /\ UNCHANGED <<status, order, later, overtaken, wakes>>

\* Its message is lost; the generation expires.
DispatchExpires(m) ==
    /\ slot = m
    /\ ~leased
    /\ Free
    /\ UNCHANGED <<status, order, later, overtaken, wakes>>

\* The worker dies; the lease expires, which makes its Mission due now unless
\* a wakeup written meanwhile is older.
LeaseExpires(m) ==
    /\ slot = m
    /\ leased
    /\ Free
    /\ IF InLine(m) THEN UNCHANGED <<order, overtaken>> ELSE DueNow(m)
    /\ UNCHANGED <<status, later, wakes>>

\* _checkpoint_and_yield: due again, now or after a retry delay.
Yield(m) ==
    /\ slot = m
    /\ leased
    /\ Free
    /\ DueNow(m)
    /\ UNCHANGED <<status, later, wakes>>

YieldForLater(m) ==
    /\ slot = m
    /\ leased
    /\ Free
    /\ later' = later \cup {m}
    /\ LeaveLine(m)
    /\ UNCHANGED <<status, overtaken, wakes>>

\* The slice ends waiting for the user, or the Mission is over.
EndSlice(m, s) ==
    /\ slot = m
    /\ leased
    /\ Free
    /\ status' = [status EXCEPT ![m] = s]
    /\ LeaveLine(m)
    /\ UNCHANGED <<later, overtaken, wakes>>

-----------------------------------------------------------------------------

SliceEnds(m) ==
    Yield(m) \/ YieldForLater(m) \/ \E s \in {"waiting", "over"} : EndSlice(m, s)

Next ==
    \E m \in Mission :
        \/ \E s \in {"runnable", "waiting"} : Admit(m, s)
        \/ WakeByUser(m) \/ WakeByReview(m) \/ ExpireReservation(m)
        \/ FallDue(m)
        \/ Dispatch(m) \/ DispatchAhead(m) \/ ClaimLease(m)
        \/ ReleaseDispatch(m) \/ DispatchExpires(m)
        \/ LeaseExpires(m) \/ SliceEnds(m)

\* The reconciler dispatches what is due, a slice is bounded by its wall time
\* and its lease, and Celery does not lose every message.
Fairness ==
    \A m \in Mission :
        /\ WF_vars(Dispatch(m))
        /\ SF_vars(ClaimLease(m))
        /\ WF_vars(ReleaseDispatch(m))
        /\ WF_vars(SliceEnds(m) \/ LeaseExpires(m))
        /\ WF_vars(FallDue(m))

Spec == Init /\ [][Next]_vars
FairSpec == Spec /\ Fairness

-----------------------------------------------------------------------------
(* What must hold.                                                         *)

\* A Mission that is due is overtaken at most once by each of its peers,
\* whatever yields, expires, is lost or is delayed meanwhile: a peer that has
\* used the slot is behind it from then on.
BoundedOvertaking ==
    \A m \in Mission : InLine(m) => overtaken[m] < Cardinality(Mission)

Runnable(m) == status[m] = "runnable" /\ InLine(m)
Idling(m) == status[m] = "waiting" /\ InLine(m)

\* The oldest runnable wakeup gets the next turn, and so every one gets its
\* turn in the end, unless the Mission is paused or a Mission that has nothing
\* to do is in line.
TurnComes ==
    \A m \in Mission :
        Runnable(m) ~> ~Runnable(m) \/ \E p \in Mission : Idling(p)

=============================================================================
