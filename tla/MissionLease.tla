---------------------------- MODULE MissionLease ----------------------------
(***************************************************************************)
(* How a Mission gets a turn of execution, and how it gives the turn back. *)
(*                                                                         *)
(* A row of mission_runs carries three fences.  A dispatch generation      *)
(* (dispatch_owner, dispatch_epoch, dispatch_expires_at) is reserved       *)
(* before a Celery message is published.  A lease (lease_owner,            *)
(* lease_epoch, lease_expires_at) is claimed by the worker that receives   *)
(* exactly that generation.  state_version makes every other write an      *)
(* optimistic one.  Celery may lose, repeat or delay a message; a worker   *)
(* may die between any two calls; users and the billing and review         *)
(* services write the same row without holding the lease.                  *)
(*                                                                         *)
(* Each action is one DataService transaction, or one local step of a      *)
(* MissionDriveSlice between two transactions.                             *)
(*                                                                         *)
(* Abstractions.  Time: an expiry instant is the flag "live"; it turns     *)
(* FALSE by an action of its own.  next_wakeup_at is "none", "later" (not  *)
(* reached) or "due".  The order of the due instants, which decides whose  *)
(* turn it is, is the relation due_before.  state_version: a driver is     *)
(* "fresh" while the version it read is the current one; every write makes *)
(* the other readers of the row stale.  dispatch_owner is a fresh uuid (or *)
(* task id) per generation, so dispatch_epoch alone identifies one.        *)
(***************************************************************************)
EXTENDS Naturals, FiniteSets, Sequences

CONSTANTS
    Mission,         \* MissionRuns
    Workspace,       \* workspaces; each owns one writable Sandbox
    WorkspaceOf,     \* [Mission -> Workspace]
    Worker,          \* mission-worker processes, concurrency 1
    None,            \* no owner
    CommandType,     \* subset of {"steer", "mode", "pause", "cancel"} users send
    Service,         \* subset of {"review", "billing"} that write the row
    PageLimit,       \* commands applied by one write (90 in the code)
    ModelBudget,     \* model calls the pinned execution budget allows
    PortsMayWait,    \* TRUE: a tool or quality call may ask for the user
    SlowCommits,     \* TRUE: a transaction may commit after an instant it
                     \* compared with now(), the time at which it began
    MaxInputs,       \* bound on writes by users, review and billing
    MaxYields,       \* bound on voluntary yields of one Mission
    MaxGenerations,  \* bound on dispatch generations of one Mission
    MaxFaults        \* bound on crashes, losses, repeats and slow holders

ASSUME NoneAssumption == None \notin Mission \cup Worker
ASSUME WorkspaceAssumption == WorkspaceOf \in [Mission -> Workspace]
ASSUME WriterAssumption ==
    /\ CommandType \subseteq {"steer", "mode", "pause", "cancel"}
    /\ Service \subseteq {"review", "billing"}
ASSUME BoundAssumption ==
    /\ PageLimit \in Nat \ {0}
    /\ ModelBudget \in Nat
    /\ {PortsMayWait, SlowCommits} \subseteq BOOLEAN
    /\ {MaxInputs, MaxYields, MaxGenerations, MaxFaults} \subseteq Nat

VARIABLES
    runs,        \* [Mission -> MissionRunRecord]
    due_before,  \* <<m, n>>: m fell due before n did
    driver,      \* [Worker -> the _SliceState of the delivery it handles]
    publishing,  \* generations reserved, message not yet sent
    queue,       \* messages Celery holds until they are acknowledged
    hints,       \* callers about to run _publish_wakeup
    inputs,      \* writes by users, review and billing so far
    faults       \* faults so far

vars == <<runs, due_before, driver, publishing, queue, hints, inputs, faults>>

-----------------------------------------------------------------------------
(* The row and the driver.                                                 *)

Terminal == {"completed", "failed", "cancelled"}
Status == {"created", "planning", "running", "waiting"} \cup Terminal

Transitions ==
    [created   |-> {"planning", "waiting", "failed", "cancelled"},
     planning  |-> {"running", "waiting", "failed", "cancelled"},
     running   |-> {"planning", "waiting", "completed", "failed", "cancelled"},
     waiting   |-> {"planning", "running", "failed", "cancelled"},
     completed |-> {}, failed |-> {}, cancelled |-> {}]

MissionRun ==
    [status: Status,
     lease_owner: Worker \cup {None}, lease_epoch: Nat, lease_live: BOOLEAN,
     dispatched: BOOLEAN, dispatch_epoch: Nat, dispatch_live: BOOLEAN,
     next_wakeup: {"none", "later", "due"},
     commands: Seq({"steer", "mode", "pause", "cancel"}), last_applied: Nat,
     pending_control: {"none", "pause", "cancel"},
     inflight: BOOLEAN, model_calls: Nat, call: {"closed", "open", "unresolved"},
     yields: Nat, writer_epoch: Nat]

Idle == "idle"
Fetched == {"claiming", "releasing"}
Driving == {"driving", "ready", "deciding", "failing", "decided", "opening",
            "executing", "yielding"}

Driver ==
    [pc: {Idle} \cup Fetched \cup Driving, mission: Mission \cup {None},
     dispatch: Nat, epoch: Nat, fresh: BOOLEAN]

NoDelivery ==
    [pc |-> Idle, mission |-> None, dispatch |-> 0, epoch |-> 0, fresh |-> FALSE]

Message == [mission: Mission, dispatch: Nat]
Hint == [mission: Mission, delayed: BOOLEAN]

TypeOK ==
    /\ runs \in [Mission -> MissionRun]
    /\ due_before \subseteq Mission \X Mission
    /\ driver \in [Worker -> Driver]
    /\ publishing \subseteq Message
    /\ queue \subseteq Message
    /\ hints \subseteq Hint
    /\ inputs \in Nat
    /\ faults \in Nat

Peers(m) == {p \in Mission \ {m} : WorkspaceOf[p] = WorkspaceOf[m]}

Live(m) == runs[m].status \notin Terminal
LeaseActive(m) == runs[m].lease_owner # None /\ runs[m].lease_live
LeaseExpired(m) == runs[m].lease_owner # None /\ ~runs[m].lease_live
\* Mutant of DispatchActive: a generation has no lifetime.
DispatchOutstanding(m) == runs[m].dispatched
DispatchActive(m) == runs[m].dispatched /\ runs[m].dispatch_live
Due(m) == runs[m].next_wakeup = "due" \/ LeaseExpired(m)
Unapplied(m) == runs[m].last_applied < Len(runs[m].commands)
Dispatchable(m) ==
    Live(m) /\ Due(m) /\ ~LeaseActive(m) /\ ~DispatchActive(m)

\* The instants order: m's due time is now, or m has none any more.
LeaveTurn(m) == {p \in due_before : p[1] # m /\ p[2] # m}
JoinTurn(m) == LeaveTurn(m) \cup {<<p, m>> : p \in {q \in Peers(m) : Due(q)}}

\* A wakeup set to "now" is the due time unless an expired lease is older.
WakeNow(m) == IF LeaseExpired(m) THEN due_before ELSE JoinTurn(m)

\* _touch: whoever read the row before this write holds a stale version.
Touched(m) ==
    [w \in Worker |-> IF driver[w].mission = m
                      THEN [driver[w] EXCEPT !.fresh = FALSE] ELSE driver[w]]

\* _transition_status on a run record.
CanTransition(r, s) == s = r.status \/ s \in Transitions[r.status]
Transition(r, s) ==
    IF s \in Terminal
      THEN [r EXCEPT !.status = s, !.lease_owner = None, !.lease_live = FALSE,
                     !.next_wakeup = "none", !.dispatched = FALSE,
                     !.dispatch_live = FALSE]
      ELSE IF s = "waiting"
      THEN [r EXCEPT !.status = s, !.lease_owner = None, !.lease_live = FALSE,
                     !.next_wakeup = "none"]
      ELSE [r EXCEPT !.status = s]

-----------------------------------------------------------------------------
(* Reserving a dispatch generation and publishing its message.             *)

\* Mutant of SlotFree: reserved generations do not take the slot.
NoPeerLeased(m) == \A p \in Peers(m) : ~LeaseActive(p)

\* The workspace slot is free and no other Mission has an earlier turn.
SlotFree(m) ==
    \A p \in Peers(m) : ~LeaseActive(p) /\ ~DispatchActive(p)
HasTurn(m) ==
    \A p \in Peers(m) :
        Dispatchable(p) => Dispatchable(m) /\ <<p, m>> \notin due_before

CanDispatch(m, ready) ==
    /\ Live(m)
    /\ runs[m].next_wakeup \in ready \/ LeaseExpired(m)
    /\ ~LeaseActive(m)
    /\ ~DispatchActive(m)
    /\ SlotFree(m)
    /\ HasTurn(m)
    /\ runs[m].dispatch_epoch < MaxGenerations

Reserve(m) ==
    /\ runs' = [runs EXCEPT ![m].dispatched = TRUE,
                            ![m].dispatch_epoch = @ + 1,
                            ![m].dispatch_live = TRUE]
    /\ driver' = Touched(m)
    /\ publishing' = publishing \cup
           {[mission |-> m, dispatch |-> runs[m].dispatch_epoch + 1]}

\* _publish_wakeup up to the reservation: claim_dispatch_for_run.  A delayed
\* wakeup is reserved ahead of its instant (not_before_at).
ClaimDispatch(h) ==
    /\ h \in hints
    /\ CanDispatch(h.mission, IF h.delayed THEN {"later", "due"} ELSE {"due"})
    /\ Reserve(h.mission)
    /\ hints' = hints \ {h}
    /\ UNCHANGED <<due_before, queue, inputs, faults>>

\* The reservation is refused, fails or its caller dies: the hint is gone.
DropHint(h) ==
    /\ h \in hints
    /\ hints' = hints \ {h}
    /\ UNCHANGED <<runs, due_before, driver, publishing, queue, inputs, faults>>

\* The beat-driven reconciler: claim_runnable_batch_skip_locked.
Reconcile(m) ==
    /\ CanDispatch(m, {"due"})
    /\ Reserve(m)
    /\ UNCHANGED <<due_before, queue, hints, inputs, faults>>

Publish(msg) ==
    /\ msg \in publishing
    /\ publishing' = publishing \ {msg}
    /\ queue' = queue \cup {msg}
    /\ UNCHANGED <<runs, due_before, driver, hints, inputs, faults>>

HoldsDispatch(m, e) == runs[m].dispatched /\ runs[m].dispatch_epoch = e

\* release_dispatch_claim: effective only for the current generation.
ReleaseClaim(m, e) ==
    IF HoldsDispatch(m, e)
      THEN /\ runs' = [runs EXCEPT ![m].dispatched = FALSE,
                                   ![m].dispatch_live = FALSE]
           /\ driver' = Touched(m)
      ELSE UNCHANGED <<runs, driver>>

\* send_task raised, after the broker took the message or before.
PublishFails(msg, sent) ==
    /\ msg \in publishing
    /\ faults < MaxFaults
    /\ faults' = faults + 1
    /\ publishing' = publishing \ {msg}
    /\ queue' = IF sent THEN queue \cup {msg} ELSE queue
    /\ ReleaseClaim(msg.mission, msg.dispatch)
    /\ UNCHANGED <<due_before, hints, inputs>>

\* The process that reserved the generation dies before it publishes.
PublisherDies(msg) ==
    /\ msg \in publishing
    /\ faults < MaxFaults
    /\ faults' = faults + 1
    /\ publishing' = publishing \ {msg}
    /\ UNCHANGED <<runs, due_before, driver, queue, hints, inputs>>

\* The broker loses a message nobody is handling.
LoseMessage(msg) ==
    /\ msg \in queue
    /\ \A w \in Worker : driver[w].mission # msg.mission
                         \/ driver[w].dispatch # msg.dispatch
    /\ faults < MaxFaults
    /\ faults' = faults + 1
    /\ queue' = queue \ {msg}
    /\ UNCHANGED <<runs, due_before, driver, publishing, hints, inputs>>

-----------------------------------------------------------------------------
(* Time.                                                                   *)

WakeupFallsDue(m) ==
    /\ runs[m].next_wakeup = "later"
    /\ runs' = [runs EXCEPT ![m].next_wakeup = "due"]
    /\ due_before' = WakeNow(m)
    /\ UNCHANGED <<driver, publishing, queue, hints, inputs, faults>>

\* Somebody may still use what expires: that is a slow holder, a fault.
LeaseInUse(m) ==
    \E w \in Worker : /\ driver[w].pc \in Driving
                      /\ driver[w].mission = m
                      /\ w = runs[m].lease_owner
                      /\ driver[w].epoch = runs[m].lease_epoch
DispatchInUse(m) ==
    \E msg \in queue \cup publishing :
        msg.mission = m /\ msg.dispatch = runs[m].dispatch_epoch

LeaseExpires(m) ==
    /\ LeaseActive(m)
    /\ LeaseInUse(m) => faults < MaxFaults
    /\ faults' = IF LeaseInUse(m) THEN faults + 1 ELSE faults
    /\ runs' = [runs EXCEPT ![m].lease_live = FALSE]
    /\ due_before' = IF runs[m].next_wakeup = "due" THEN due_before
                                                    ELSE JoinTurn(m)
    /\ UNCHANGED <<driver, publishing, queue, hints, inputs>>

DispatchExpires(m) ==
    /\ DispatchActive(m)
    /\ DispatchInUse(m) => faults < MaxFaults
    /\ faults' = IF DispatchInUse(m) THEN faults + 1 ELSE faults
    /\ runs' = [runs EXCEPT ![m].dispatch_live = FALSE]
    /\ UNCHANGED <<due_before, driver, publishing, queue, hints, inputs>>

-----------------------------------------------------------------------------
(* A delivery, up to the lease: run_slice.                                 *)

Handling(msg) ==
    \E w \in Worker : driver[w].mission = msg.mission
                      /\ driver[w].dispatch = msg.dispatch

\* The worker takes a message and reads the row.  A second delivery of a
\* message another worker still handles is a fault of the broker.
Accept(w, msg, next) ==
    /\ driver[w].pc = Idle
    /\ msg \in queue
    /\ Handling(msg) => faults < MaxFaults
    /\ faults' = IF Handling(msg) THEN faults + 1 ELSE faults
    /\ Live(msg.mission)
    /\ HoldsDispatch(msg.mission, msg.dispatch)
    /\ DispatchActive(msg.mission)
    /\ driver' = [driver EXCEPT
           ![w] = [pc |-> next, mission |-> msg.mission,
                   dispatch |-> msg.dispatch, epoch |-> 0, fresh |-> TRUE]]
    /\ UNCHANGED <<runs, due_before, publishing, queue, hints, inputs>>

\* Mutant of WaitingWithoutCommand: the commands are not asked for.
Waiting(m) == runs[m].status = "waiting"
WaitingWithoutCommand(m) == runs[m].status = "waiting" /\ ~Unapplied(m)

Deliver(w, msg) ==
    /\ ~WaitingWithoutCommand(msg.mission)
    /\ Accept(w, msg, "claiming")
DeliverToWaiting(w, msg) ==
    /\ WaitingWithoutCommand(msg.mission)
    /\ Accept(w, msg, "releasing")

\* mission_already_terminal, stale_delivery, delivery_expired.
DiscardDelivery(w, msg) ==
    /\ driver[w].pc = Idle
    /\ msg \in queue
    /\ \/ ~Live(msg.mission)
       \/ ~HoldsDispatch(msg.mission, msg.dispatch)
       \/ ~DispatchActive(msg.mission)
    /\ queue' = queue \ {msg}
    /\ UNCHANGED <<runs, due_before, driver, publishing, hints, inputs, faults>>

\* The task returns and the message is acknowledged (acks_late).
Acknowledged(w) ==
    queue \ {[mission |-> driver[w].mission, dispatch |-> driver[w].dispatch]}

CanClaimLease(w) ==
    LET m == driver[w].mission IN
    /\ Live(m)
    /\ driver[w].fresh
    /\ Due(m)
    /\ ~LeaseActive(m)
    /\ HoldsDispatch(m, driver[w].dispatch)
    /\ DispatchActive(m) \/ SlowCommits
    /\ \A p \in Peers(m) : ~LeaseActive(p)

\* Mutant of ClaimLease: the generation stays reserved until the slice ends.
ClaimLeaseAgain(w) ==
    LET m == driver[w].mission IN
    /\ driver[w].pc = "claiming"
    /\ CanClaimLease(w)
    /\ runs' = [runs EXCEPT
           ![m].lease_owner = w, ![m].lease_epoch = @ + 1, ![m].lease_live = TRUE,
           ![m].next_wakeup = "none"]
    /\ due_before' = LeaveTurn(m)
    /\ driver' = [Touched(m) EXCEPT
           ![w].pc = "driving", ![w].epoch = runs[m].lease_epoch + 1,
           ![w].fresh = TRUE]
    /\ UNCHANGED <<publishing, queue, hints, inputs, faults>>

\* claim_run_lease consumes the generation and the wakeup.
ClaimLease(w) ==
    LET m == driver[w].mission IN
    /\ driver[w].pc = "claiming"
    /\ CanClaimLease(w)
    /\ runs' = [runs EXCEPT
           ![m].lease_owner = w, ![m].lease_epoch = @ + 1, ![m].lease_live = TRUE,
           ![m].next_wakeup = "none",
           ![m].dispatched = FALSE, ![m].dispatch_live = FALSE]
    /\ due_before' = LeaveTurn(m)
    /\ driver' = [Touched(m) EXCEPT
           ![w].pc = "driving", ![w].epoch = runs[m].lease_epoch + 1,
           ![w].fresh = TRUE]
    /\ UNCHANGED <<publishing, queue, hints, inputs, faults>>

LeaseNotAcquired(w) ==
    /\ driver[w].pc = "claiming"
    /\ ~CanClaimLease(w)
    /\ driver' = [driver EXCEPT ![w].pc = "releasing"]
    /\ UNCHANGED <<runs, due_before, publishing, queue, hints, inputs, faults>>

ReleaseDispatch(w) ==
    LET m == driver[w].mission
        held == HoldsDispatch(m, driver[w].dispatch)
    IN
    /\ driver[w].pc = "releasing"
    /\ runs' = IF held THEN [runs EXCEPT ![m].dispatched = FALSE,
                                         ![m].dispatch_live = FALSE]
                       ELSE runs
    /\ driver' = [(IF held THEN Touched(m) ELSE driver) EXCEPT ![w] = NoDelivery]
    /\ queue' = Acknowledged(w)
    /\ UNCHANGED <<due_before, publishing, hints, inputs, faults>>

-----------------------------------------------------------------------------
(* A MissionDriveSlice under its lease: _drive_claimed.                    *)

Holds(w, m) == runs[m].lease_owner = w /\ runs[m].lease_epoch = driver[w].epoch

\* What w sees when it reads the row, and what the transaction of a write of
\* its own saw when it began.
LeaseHeld(w) ==
    LET m == driver[w].mission IN Live(m) /\ Holds(w, m) /\ LeaseActive(m)
LeaseCurrent(w) ==
    LET m == driver[w].mission IN
    Live(m) /\ Holds(w, m) /\ (LeaseActive(m) \/ SlowCommits)

\* Mutant of Fenced: the version alone protects the write.
VersionCurrent(w) == driver[w].fresh

\* _require_driver_fence.
Fenced(w) == driver[w].fresh /\ LeaseCurrent(w)

\* One accepted write of w: the row becomes r, w goes on at next.  A write
\* that ends the slice has also cleared lease and wakeup.
Write(w, r, next) ==
    LET m == driver[w].mission IN
    /\ runs' = [runs EXCEPT ![m] = [r EXCEPT !.writer_epoch = driver[w].epoch]]
    /\ IF next = Idle
         THEN /\ driver' = [Touched(m) EXCEPT ![w] = NoDelivery]
              /\ queue' = Acknowledged(w)
              /\ due_before' = LeaveTurn(m)
         ELSE /\ driver' = [Touched(m) EXCEPT ![w].pc = next, ![w].fresh = TRUE]
              /\ UNCHANGED <<queue, due_before>>
    /\ UNCHANGED <<publishing, hints, inputs, faults>>

\* A transition that ends the slice: waiting or terminal.
EndSlice(w, s) ==
    /\ CanTransition(runs[driver[w].mission], s)
    /\ Write(w, Transition(runs[driver[w].mission], s), Idle)

At(w, pc) == driver[w].pc = pc

\* _reconcile_model_call_ledger, before anything else: a model call that an
\* earlier slice left open is closed as unresolved, and an unresolved one fails
\* the Mission.  Both writes adopt the current version on a conflict.
CloseRecoveredCall(w) ==
    LET m == driver[w].mission IN
    /\ At(w, "driving")
    /\ LeaseCurrent(w)
    /\ runs[m].call = "open"
    /\ Write(w, [runs[m] EXCEPT !.call = "unresolved"], "driving")

FailUnresolvedCall(w) ==
    LET m == driver[w].mission IN
    /\ At(w, "driving")
    /\ LeaseCurrent(w)
    /\ runs[m].call = "unresolved"
    /\ CanTransition(runs[m], "failed")
    /\ Write(w, Transition([runs[m] EXCEPT !.inflight = FALSE], "failed"), Idle)

\* planning -> running, at the start of the slice or after a replan.
Advance(w) ==
    LET m == driver[w].mission IN
    /\ At(w, "driving")
    /\ Fenced(w)
    /\ runs[m].call = "closed"
    /\ runs[m].status = "planning"
    /\ Write(w, Transition(runs[m], "running"), "driving")

Least(a, b) == IF a < b THEN a ELSE b

\* Mutant of Control: a page forgets what the pages before it asked for.
ControlOfPage(r, types) ==
    IF "cancel" \in types THEN "cancel"
    ELSE IF "pause" \in types THEN "pause" ELSE "none"

\* What the commands applied so far ask for, a cancel before a pause.
Control(r, types) ==
    IF "cancel" \in types \/ r.pending_control = "cancel" THEN "cancel"
    ELSE IF "pause" \in types THEN "pause" ELSE r.pending_control

\* _apply_commands_at_boundary and apply_commands_and_advance_cursor: one page
\* of commands, in order; pause and cancel act once the last page is applied.
ApplyCommands(w) ==
    LET m == driver[w].mission
        r == runs[m]
        through == Least(r.last_applied + PageLimit, Len(r.commands))
        types == {r.commands[i] : i \in (r.last_applied + 1) .. through}
        more == through < Len(r.commands)
        control == Control(r, types)
        applied == [r EXCEPT !.last_applied = through,
                             !.pending_control = IF more THEN control ELSE "none"]
    IN
    /\ driver[w].pc \in {"driving", "decided"}
    /\ Fenced(w)
    /\ r.call = "closed"
    /\ Unapplied(m)
    /\ IF ~more /\ control = "cancel"
         THEN Write(w, Transition([applied EXCEPT !.inflight = FALSE],
                                  "cancelled"), Idle)
       ELSE IF ~more /\ control = "pause"
         THEN Write(w, Transition(applied, "waiting"), Idle)
       ELSE IF r.status = "running" \/ (r.status = "waiting" /\ types # {"mode"})
         THEN Write(w, Transition(applied, "planning"), "driving")
       ELSE IF r.status = "waiting" /\ ~more
         THEN Write(w, Transition(applied, "waiting"), Idle)
       ELSE Write(w, applied, "driving")

\* Mutant of PassBoundary: a replan has not been turned into running yet.
PassBoundaryUnplanned(w) ==
    LET m == driver[w].mission IN
    /\ At(w, "driving")
    /\ Fenced(w)
    /\ runs[m].call = "closed"
    /\ ~Unapplied(m)
    /\ driver' = [driver EXCEPT ![w].pc = "ready"]
    /\ UNCHANGED <<runs, due_before, publishing, queue, hints, inputs, faults>>

\* Every command the driver knows of is applied: past the boundary.
PassBoundary(w) ==
    LET m == driver[w].mission IN
    /\ At(w, "driving")
    /\ Fenced(w)
    /\ runs[m].call = "closed"
    /\ ~Unapplied(m)
    /\ runs[m].status # "planning"
    /\ driver' = [driver EXCEPT ![w].pc = "ready"]
    /\ UNCHANGED <<runs, due_before, publishing, queue, hints, inputs, faults>>

\* A port call is in flight, or a heartbeat is due: the lease is renewed and
\* the driver adopts the version it finds.  (Without one of the two, renewing
\* changes nothing here.)
Heartbeat(w) ==
    LET m == driver[w].mission IN
    /\ driver[w].pc \in {"ready", "deciding", "opening", "executing"}
    /\ LeaseCurrent(w)
    /\ ~driver[w].fresh \/ ~runs[m].lease_live
    /\ runs' = [runs EXCEPT ![m].lease_live = TRUE]
    /\ due_before' = IF runs[m].next_wakeup = "due" THEN due_before
                                                    ELSE LeaveTurn(m)
    /\ driver' = [Touched(m) EXCEPT ![w].fresh = TRUE]
    /\ UNCHANGED <<publishing, queue, hints, inputs, faults>>

\* MissionLeaseLostError, or a conflict of a driver without the lease.
LoseLease(w) ==
    /\ driver[w].pc \in Driving
    /\ ~LeaseHeld(w)
    /\ driver' = [driver EXCEPT ![w] = NoDelivery]
    /\ queue' = Acknowledged(w)
    /\ UNCHANGED <<runs, due_before, publishing, hints, inputs, faults>>

\* A conflict of a driver that still has the lease: it drops the decision it
\* was about to write and starts again at the boundary.
Restart(w) ==
    /\ driver[w].pc \in Driving \ {"deciding"}
    /\ LeaseHeld(w)
    /\ ~driver[w].fresh
    /\ driver' = [driver EXCEPT ![w].pc = "driving", ![w].fresh = TRUE]
    /\ UNCHANGED <<runs, due_before, publishing, queue, hints, inputs, faults>>

\* The slice budget is exhausted, or the in-flight operation lacks time.
DecideToYield(w) ==
    /\ At(w, "ready")
    /\ runs[driver[w].mission].yields < MaxYields
    /\ driver' = [driver EXCEPT ![w].pc = "yielding"]
    /\ UNCHANGED <<runs, due_before, publishing, queue, hints, inputs, faults>>

\* _checkpoint_and_yield: checkpoint, release_run_lease, then a wakeup hint.
ReleaseLease(w, delayed) ==
    LET m == driver[w].mission IN
    /\ At(w, "yielding")
    /\ Fenced(w)
    /\ runs[m].call = "closed"
    /\ runs' = [runs EXCEPT
           ![m].lease_owner = None, ![m].lease_live = FALSE,
           ![m].next_wakeup = IF delayed THEN "later" ELSE "due",
           ![m].yields = @ + 1, ![m].writer_epoch = driver[w].epoch]
    /\ due_before' = IF delayed THEN LeaveTurn(m) ELSE JoinTurn(m)
    /\ driver' = [Touched(m) EXCEPT ![w] = NoDelivery]
    /\ queue' = Acknowledged(w)
    /\ hints' = hints \cup {[mission |-> m, delayed |-> delayed]}
    /\ UNCHANGED <<publishing, inputs, faults>>

\* The ledger writes around a model call adopt the current version on a
\* conflict, as long as the lease is current (_persist_model_ledger_item).
StartModelCall(w) ==
    LET m == driver[w].mission IN
    /\ At(w, "ready")
    /\ LeaseCurrent(w)
    /\ ~runs[m].inflight
    /\ runs[m].call = "closed"
    /\ runs[m].model_calls < ModelBudget
    /\ Write(w, [runs[m] EXCEPT !.model_calls = @ + 1, !.call = "open"], "deciding")

BudgetExhausted(w) ==
    LET m == driver[w].mission IN
    /\ At(w, "ready")
    /\ Fenced(w)
    /\ ~runs[m].inflight
    /\ runs[m].model_calls = ModelBudget
    /\ EndSlice(w, "failed")

\* The usage receipt, or a terminal record of the failed call, closes it.
ModelCallReturns(w) ==
    /\ At(w, "deciding")
    /\ LeaseCurrent(w)
    /\ Write(w, [runs[driver[w].mission] EXCEPT !.call = "closed"], "decided")

\* When the provider may have charged, the outcome is unresolved.
ModelCallFails(w) ==
    /\ At(w, "deciding")
    /\ LeaseCurrent(w)
    /\ \/ Write(w, [runs[driver[w].mission] EXCEPT !.call = "closed"], "failing")
       \/ Write(w, [runs[driver[w].mission] EXCEPT !.call = "unresolved"], "driving")

\* _record_loop_failure, or the protocol repair that asks the model again.
RecordFailure(w) ==
    LET m == driver[w].mission IN
    /\ At(w, "failing")
    /\ Fenced(w)
    /\ \/ EndSlice(w, "failed")
       \/ runs[m].yields < MaxYields /\ Write(w, runs[m], "yielding")
       \/ Write(w, runs[m], "driving")

\* Mutant of Deciding: the decision is handled without a look for commands.
DecidingAtOnce(w) == At(w, "decided") /\ Fenced(w)

\* _handle_decision, after the boundary has found nothing to apply.
Deciding(w) ==
    At(w, "decided") /\ Fenced(w) /\ ~Unapplied(driver[w].mission)

DecideToContinue(w) ==
    Deciding(w) /\ Write(w, runs[driver[w].mission], "driving")
DecideToEnd(w, s) ==
    Deciding(w) /\ EndSlice(w, s)

\* A tool, quality or review decision first asks a port, and the refresh
\* after that call adopts whatever was written meanwhile.
DecideToCallPort(w) ==
    /\ Deciding(w)
    /\ driver' = [driver EXCEPT ![w].pc = "opening"]
    /\ UNCHANGED <<runs, due_before, publishing, queue, hints, inputs, faults>>

\* _begin_operation: the in-flight receipt precedes the effect.
BeginOperation(w) ==
    LET m == driver[w].mission IN
    /\ Fenced(w)
    /\ At(w, "opening") \/ Deciding(w)
    /\ \E next \in {"executing", "driving"} :
           Write(w, [runs[m] EXCEPT !.inflight = TRUE], next)

\* _run_quality_decision and _run_review_decision record the port's verdict.
RecordVerdict(w) ==
    /\ At(w, "opening")
    /\ Fenced(w)
    /\ \/ Write(w, runs[driver[w].mission], "driving")
       \/ EndSlice(w, "failed")
       \/ PortsMayWait /\ EndSlice(w, "waiting")

\* _recover_inflight_operation.
RecoverOperation(w) ==
    /\ At(w, "ready")
    /\ runs[driver[w].mission].inflight
    /\ driver' = [driver EXCEPT ![w].pc = "executing"]
    /\ UNCHANGED <<runs, due_before, publishing, queue, hints, inputs, faults>>

\* _finish_port_operation: done or failed, failed for the last time, waiting
\* for the user with the operation still in flight, or yielded.
FinishOperation(w) ==
    LET m == driver[w].mission
        done == [runs[m] EXCEPT !.inflight = FALSE]
    IN
    /\ At(w, "executing")
    /\ Fenced(w)
    /\ \/ Write(w, done, "driving")
       \/ CanTransition(runs[m], "failed") /\ Write(w, Transition(done, "failed"), Idle)
       \/ PortsMayWait /\ EndSlice(w, "waiting")
       \/ runs[m].yields < MaxYields /\ Write(w, runs[m], "yielding")

\* The worker dies, or the task raises (then the message is acknowledged).
Crash(w, redelivered) ==
    /\ driver[w].pc # Idle
    /\ faults < MaxFaults
    /\ faults' = faults + 1
    /\ driver' = [driver EXCEPT ![w] = NoDelivery]
    /\ queue' = IF redelivered THEN queue ELSE Acknowledged(w)
    /\ UNCHANGED <<runs, due_before, publishing, hints, inputs>>

-----------------------------------------------------------------------------
(* Writers that hold no lease.                                             *)

\* A transactional write of a user or a service; awake says whether it makes
\* the Mission runnable now.
Input(m, r, awake) ==
    /\ inputs < MaxInputs
    /\ inputs' = inputs + 1
    /\ runs' = [runs EXCEPT ![m] = r]
    /\ driver' = Touched(m)
    /\ UNCHANGED <<publishing, queue, faults>>
    /\ hints' = IF awake THEN hints \cup {[mission |-> m, delayed |-> FALSE]}
                         ELSE hints

\* MissionAdmissionService.admit: create_run and apply_initial_admission in
\* one unit of work.  Not enough credit: the Mission waits.
Admit(m, s) ==
    /\ runs[m].status = "created"
    /\ runs' = [runs EXCEPT ![m].status = s,
                            ![m].next_wakeup = IF s = "planning" THEN "due"
                                                                 ELSE "none"]
    /\ due_before' = IF s = "planning" THEN JoinTurn(m) ELSE due_before
    /\ hints' = IF s = "planning"
                  THEN hints \cup {[mission |-> m, delayed |-> FALSE]} ELSE hints
    /\ UNCHANGED <<driver, publishing, queue, inputs, faults>>

\* append_command_once on a live Mission.
AppendCommand(m, type) ==
    /\ runs[m].status # "created"
    /\ Live(m)
    /\ due_before' = WakeNow(m)
    /\ Input(m, [runs[m] EXCEPT !.commands = Append(@, type),
                                !.next_wakeup = "due"], TRUE)

\* append_command_once on a terminal Mission: only the review mode, at once.
ChangeModeAfterEnd(m) ==
    /\ ~Live(m)
    /\ "mode" \in CommandType
    /\ ~Unapplied(m)
    /\ UNCHANGED due_before
    /\ Input(m, [runs[m] EXCEPT !.commands = Append(@, "mode"),
                                !.last_applied = @ + 1], FALSE)

\* Mutant of Resume: nobody schedules the Mission that was answered.
ResumeSilently(m) ==
    /\ runs[m].status = "waiting"
    /\ UNCHANGED due_before
    /\ Input(m, Transition(runs[m], "planning"), FALSE)

\* resume_run: the user answers the pending request.
Resume(m) ==
    /\ runs[m].status = "waiting"
    /\ due_before' = WakeNow(m)
    /\ Input(m, [Transition(runs[m], "planning") EXCEPT !.next_wakeup = "due"], TRUE)

\* reconcile_expired_reservations -> pause_run: no lease, no version.
ExpireReservation(m) ==
    /\ "billing" \in Service
    /\ runs[m].status \in {"planning", "running", "waiting"}
    /\ due_before' = IF runs[m].status = "waiting" /\ LeaseExpired(m)
                       THEN due_before ELSE LeaveTurn(m)
    /\ Input(m, [(IF runs[m].status = "waiting" THEN runs[m]
                    ELSE Transition(runs[m], "waiting"))
                 EXCEPT !.next_wakeup = "none"], FALSE)

\* Mutant of ReviewSettled: a Mission that is over is woken too.
ReviewSettledLate(m, resolves) ==
    /\ "review" \in Service
    /\ runs[m].status # "created"
    /\ due_before' = WakeNow(m)
    /\ Input(m, [(IF resolves /\ runs[m].status = "waiting"
                    THEN Transition(runs[m], "planning") ELSE runs[m])
                 EXCEPT !.next_wakeup = "due"], TRUE)

\* decide_review_items with a rejection, or finish_commit: wakes the Mission,
\* and ends its wait when the wait is for that review item.
ReviewSettled(m, resolves) ==
    /\ "review" \in Service
    /\ runs[m].status # "created"
    /\ Live(m)
    /\ due_before' = WakeNow(m)
    /\ Input(m, [(IF resolves /\ runs[m].status = "waiting"
                    THEN Transition(runs[m], "planning") ELSE runs[m])
                 EXCEPT !.next_wakeup = "due"], TRUE)

-----------------------------------------------------------------------------
(* The specification.                                                      *)

NewRun ==
    [status |-> "created",
     lease_owner |-> None, lease_epoch |-> 0, lease_live |-> FALSE,
     dispatched |-> FALSE, dispatch_epoch |-> 0, dispatch_live |-> FALSE,
     next_wakeup |-> "none", commands |-> << >>, last_applied |-> 0,
     pending_control |-> "none", inflight |-> FALSE, model_calls |-> 0,
     call |-> "closed", yields |-> 0, writer_epoch |-> 0]

Init ==
    /\ runs = [m \in Mission |-> NewRun]
    /\ due_before = {}
    /\ driver = [w \in Worker |-> NoDelivery]
    /\ publishing = {}
    /\ queue = {}
    /\ hints = {}
    /\ inputs = 0
    /\ faults = 0

Slice(w) ==
    \/ CloseRecoveredCall(w) \/ FailUnresolvedCall(w)
    \/ Advance(w) \/ ApplyCommands(w) \/ PassBoundary(w) \/ Heartbeat(w)
    \/ LoseLease(w) \/ Restart(w) \/ DecideToYield(w)
    \/ \E delayed \in BOOLEAN : ReleaseLease(w, delayed)
    \/ StartModelCall(w) \/ BudgetExhausted(w)
    \/ ModelCallReturns(w) \/ ModelCallFails(w) \/ RecordFailure(w)
    \/ DecideToContinue(w) \/ DecideToCallPort(w)
    \/ \E s \in {"waiting", "completed", "failed"} : DecideToEnd(w, s)
    \/ BeginOperation(w) \/ RecordVerdict(w) \/ RecoverOperation(w)
    \/ FinishOperation(w)

Fetch(w) ==
    \/ \E msg \in queue :
           Deliver(w, msg) \/ DeliverToWaiting(w, msg) \/ DiscardDelivery(w, msg)
    \/ ClaimLease(w) \/ LeaseNotAcquired(w) \/ ReleaseDispatch(w)

Dispatching ==
    \/ \E h \in hints : ClaimDispatch(h) \/ DropHint(h)
    \/ \E msg \in publishing :
           Publish(msg) \/ PublisherDies(msg)
           \/ \E sent \in BOOLEAN : PublishFails(msg, sent)
    \/ \E msg \in queue : LoseMessage(msg)

Elsewhere(m) ==
    \/ \E s \in {"planning", "waiting"} : Admit(m, s)
    \/ \E type \in CommandType : AppendCommand(m, type)
    \/ ChangeModeAfterEnd(m) \/ Resume(m) \/ ExpireReservation(m)
    \/ \E resolves \in BOOLEAN : ReviewSettled(m, resolves)
    \/ Reconcile(m) \/ WakeupFallsDue(m) \/ LeaseExpires(m) \/ DispatchExpires(m)

Next ==
    \/ \E w \in Worker : Slice(w) \/ Fetch(w)
    \/ \E w \in Worker, redelivered \in BOOLEAN : Crash(w, redelivered)
    \/ Dispatching
    \/ \E m \in Mission : Elsewhere(m)

Spec == Init /\ [][Next]_vars

\* Time passes; Celery delivers what it holds; a live worker goes on; the
\* reconciler runs every 15 seconds.  Hints, users and services are free.
Fairness ==
    /\ \A w \in Worker : WF_vars(Slice(w)) /\ WF_vars(Fetch(w))
    /\ WF_vars(\E msg \in publishing : Publish(msg))
    /\ \A m \in Mission :
           /\ WF_vars(Reconcile(m))
           /\ WF_vars(WakeupFallsDue(m))
           /\ WF_vars(LeaseExpires(m))
           /\ WF_vars(DispatchExpires(m))

FairSpec == Spec /\ Fairness

-----------------------------------------------------------------------------
(* What must hold.                                                         *)

\* The writable Sandbox of a workspace has one user: among its Missions, at
\* most one has an active lease or an active dispatch generation.
\* (claim_dispatch_for_run, claim_runnable_batch_skip_locked, claim_run_lease)
SlotTaken(m) == LeaseActive(m) \/ DispatchActive(m)
OneSlotPerWorkspace ==
    \A m, n \in Mission :
        SlotTaken(m) /\ SlotTaken(n) /\ WorkspaceOf[m] = WorkspaceOf[n] => m = n

\* Each lease consumed a dispatch generation of its own: a repeated, late or
\* superseded message never buys a second lease.
OneLeasePerGeneration ==
    \A m \in Mission :
        /\ runs[m].lease_epoch <= runs[m].dispatch_epoch
        /\ runs[m].dispatched => runs[m].lease_epoch < runs[m].dispatch_epoch

\* No Mission is lost: while it is neither finished nor waiting for someone,
\* the row itself says when to run it again, whatever happened to messages
\* and workers.
AlwaysRecoverable ==
    \A m \in Mission :
        runs[m].status \in {"planning", "running"} =>
            runs[m].next_wakeup # "none" \/ runs[m].lease_owner # None

\* A finished Mission holds nothing: no lease, no wakeup, no dispatch, and no
\* model call whose usage nobody has recorded or given up.
TerminalIsQuiet ==
    \A m \in Mission :
        ~Live(m) => /\ runs[m].lease_owner = None
                    /\ runs[m].next_wakeup = "none"
                    /\ ~runs[m].dispatched
                    /\ runs[m].call # "open"

\* A driver with a current lease past the command boundary drives a running
\* Mission: it never asks the model about one that waits or replans.
OnlyRunningIsDriven ==
    \A w \in Worker :
        /\ driver[w].pc \in Driving \ {"driving"}
        /\ LeaseCurrent(w)
        => runs[driver[w].mission].status = "running"

\* A Mission never completes over a command it has not applied.
CompletionIsDrained ==
    \A m \in Mission : runs[m].status = "completed" => ~Unapplied(m)

\* A cancel survives paging, crashes and later commands: once every command
\* is applied, a Mission with a cancel among them is over.
CancelIsKept ==
    \A m \in Mission :
        /\ \E i \in 1 .. Len(runs[m].commands) : runs[m].commands[i] = "cancel"
        /\ ~Unapplied(m)
        => ~Live(m)

\* Every durable command is consumed, or its Mission is over: crashes, lost
\* messages and conflicting writes only delay it.
CommandIsConsumed ==
    \A m \in Mission : Unapplied(m) ~> ~Unapplied(m) \/ ~Live(m)

\* An admitted Mission does not stay between two states for ever: it finishes
\* or waits for somebody.
MissionRests ==
    \A m \in Mission :
        runs[m].status \in {"planning", "running"} ~>
            runs[m].status \in {"waiting"} \cup Terminal

-----------------------------------------------------------------------------
(* The fences implement the slot of a workspace.                           *)

SlotHolder(ws) ==
    IF \E m \in Mission : WorkspaceOf[m] = ws /\ SlotTaken(m)
      THEN CHOOSE m \in Mission : WorkspaceOf[m] = ws /\ SlotTaken(m)
      ELSE None

Slot ==
    INSTANCE WorkspaceSlot WITH
        holder <- [ws \in Workspace |-> SlotHolder(ws)],
        begun <- [m \in Mission |-> LeaseActive(m)],
        term <- [m \in Mission |-> runs[m].lease_epoch],
        written <- [m \in Mission |-> runs[m].writer_epoch]

\* Every write of a driver happens in the current term of the Mission that has
\* the slot of its workspace: a worker that lost its lease, or whose message
\* was repeated, writes nothing.
ImplementsSlot == Slot!Spec

=============================================================================
