------------------------ MODULE MissionDrive_proofs -------------------------
(***************************************************************************)
(* Theorems about the slices of MissionLease: what a driver may rely on    *)
(* while others write its row, what becomes of commands, and that the      *)
(* fences implement WorkspaceSlot.                                         *)
(*                                                                         *)
(* For a worker w, every step is its own or leaves it a bystander: what w  *)
(* knows of its row by its lease and by its version stays true.            *)
(***************************************************************************)
EXTENDS MissionLease_proofs

-----------------------------------------------------------------------------
(* A Mission that is not admitted yet has nothing to be run by.            *)

CreatedIsQuiet ==
    \A m \in Mission :
        runs[m].status = "created" =>
            /\ runs[m].lease_owner = None
            /\ ~runs[m].dispatched
            /\ runs[m].next_wakeup = "none"

LEMMA AdmittedStays ==
    ASSUME TypeInv, [Next]_vars, NEW m \in Mission, runs'[m].status = "created"
    PROVE  runs[m].status = "created"
  <1>1. CASE runs'[m] = runs[m]
    BY <1>1
  <1>2. CASE RowStep(m)
    BY <1>2
    DEF RowStep, Reserved, Claimed, Driven, Ended, Prompted, Lapsed, Terminal
  <1> QED
    BY <1>1, <1>2, EveryRowStep DEF Others

LEMMA CreatedStep ==
    ASSUME TypeInv, CreatedIsQuiet, [Next]_vars
    PROVE  CreatedIsQuiet'
  <1> SUFFICES ASSUME NEW m \in Mission, runs'[m].status = "created"
               PROVE  /\ runs'[m].lease_owner = None
                      /\ ~runs'[m].dispatched
                      /\ runs'[m].next_wakeup = "none"
    BY DEF CreatedIsQuiet
  <1>1. /\ runs[m].status = "created"
        /\ runs[m].lease_owner = None
        /\ ~runs[m].dispatched
        /\ runs[m].next_wakeup = "none"
    BY AdmittedStays DEF CreatedIsQuiet
  <1>2. CASE runs'[m] = runs[m]
    BY <1>1, <1>2
  <1>3. CASE RowStep(m)
    BY <1>1, <1>3
    DEF RowStep, Reserved, Claimed, Driven, Ended, Prompted, Lapsed, Terminal
  <1> QED
    BY <1>2, <1>3, EveryRowStep DEF Others

-----------------------------------------------------------------------------
(* What the steps of others leave to a worker.                             *)

\* The row of m, as w sees it: while w is fresh nobody has moved the status or
\* taken a command away; while w has the lease nobody else has it, and only a
\* Mission that waits is moved.
RowSeen(w, m) ==
    LET r == runs[m]
        q == runs'[m]
    IN  /\ q.status = "created" => r.status = "created"
        /\ driver'[w].fresh /\ r.status # "created" =>
              q.status = r.status /\ (Unapplied(m) => Unapplied(m)')
        /\ q.lease_owner = w =>
              /\ r.lease_owner = w
              /\ q.lease_epoch = r.lease_epoch
              /\ q.lease_live => r.lease_live
              /\ q.call = r.call
              /\ \/ q.status = r.status
                 \/ r.status = "waiting" /\ q.status = "planning"
                 \/ r.status = "created"
              /\ Unapplied(m) => Unapplied(m)'

Bystander(w) ==
    /\ driver'[w].pc = driver[w].pc
    /\ driver'[w].mission = driver[w].mission
    /\ driver'[w].epoch = driver[w].epoch
    /\ driver'[w].fresh => driver[w].fresh
    /\ driver[w].pc # Idle => RowSeen(w, driver[w].mission)

LEMMA SameRowSeen ==
    ASSUME NEW w, NEW m, runs'[m] = runs[m]
    PROVE  RowSeen(w, m)
  BY DEF RowSeen, Unapplied

\* One row changes, and those who work on it may be told.
LEMMA OneRow ==
    ASSUME TypeInv, NEW w \in Worker, NEW m \in Mission, Others(m),
           driver'[w] \in {driver[w], Touched(m)[w]},
           driver[w].mission = m => RowSeen(w, m)
    PROVE  Bystander(w)
  <1>1. /\ driver \in [Worker -> Driver]
        /\ Touched(m)[w].pc = driver[w].pc
        /\ Touched(m)[w].mission = driver[w].mission
        /\ Touched(m)[w].epoch = driver[w].epoch
        /\ Touched(m)[w].fresh => driver[w].fresh
    BY DEF TypeInv, TypeOK, Touched, Driver
  <1>2. ASSUME driver[w].pc # Idle, driver[w].mission # m
        PROVE  RowSeen(w, driver[w].mission)
    <2>1. runs'[driver[w].mission] = runs[driver[w].mission]
      BY <1>2 DEF Others, TypeInv, BusyHasMission
    <2> QED
      BY <2>1, SameRowSeen
  <1> QED
    BY <1>1, <1>2 DEF Bystander

LEMMA NothingSeen ==
    ASSUME TypeInv, NEW w \in Worker, UNCHANGED runs, driver'[w] = driver[w]
    PROVE  Bystander(w)
  BY DEF Bystander, RowSeen, Unapplied

LEMMA SliceBusy ==
    ASSUME NEW w \in Worker, Slice(w)
    PROVE  driver[w].pc \in Driving /\ driver[w].pc # Idle
  BY DEF Slice, At, Idle, CloseRecoveredCall, FailUnresolvedCall, Advance,
         ApplyCommands, PassBoundary, Heartbeat, LoseLease, Restart,
         DecideToYield, ReleaseLease, StartModelCall, BudgetExhausted,
         ModelCallReturns, ModelCallFails, RecordFailure, Deciding,
         DecideToContinue, DecideToCallPort, DecideToEnd, BeginOperation,
         RecordVerdict, RecoverOperation, FinishOperation, Driving

\* What a step of a slice does to the other workers.
LEMMA SliceTouches ==
    ASSUME TypeInv, NEW v \in Worker, NEW w \in Worker \ {v}, Slice(v)
    PROVE  /\ driver'[w] \in {driver[w], Touched(driver[v].mission)[w]}
           /\ UNCHANGED runs \/ /\ LeaseCurrent(v)
                                /\ driver'[w] = Touched(driver[v].mission)[w]
  <1> DEFINE m == driver[v].mission
  <1>1. /\ driver \in [Worker -> Driver]
        /\ Touched(m) \in [Worker -> Driver]
    <2>1. driver \in [Worker -> Driver] /\ DOMAIN Touched(m) = Worker
      BY DEF TypeInv, TypeOK, Touched
    <2> QED
      BY <2>1, SliceRow, TouchedType
  <1>2. ASSUME NEW r, NEW next, Write(v, r, next)
        PROVE  driver'[w] = Touched(m)[w]
    BY <1>1, <1>2 DEF Write
  <1>3. ASSUME NEW s, EndSlice(v, s)
        PROVE  driver'[w] = Touched(m)[w]
    BY <1>2, <1>3 DEF EndSlice
  <1>4. CASE \/ CloseRecoveredCall(v) \/ FailUnresolvedCall(v) \/ Advance(v)
             \/ StartModelCall(v) \/ ModelCallReturns(v) \/ ModelCallFails(v)
    BY <1>2, <1>4 DEF CloseRecoveredCall, FailUnresolvedCall, Advance, Fenced,
                      StartModelCall, ModelCallReturns, ModelCallFails
  <1>5. CASE ApplyCommands(v)
    BY <1>2, <1>5, ApplyCommandsWrites DEF ApplyCommands, Fenced
  <1>6. CASE BudgetExhausted(v) \/ RecordFailure(v)
    BY <1>2, <1>3, <1>6 DEF BudgetExhausted, RecordFailure, Fenced
  <1>7. CASE DecideToContinue(v) \/ \E s \in {"waiting", "completed", "failed"} :
                                        DecideToEnd(v, s)
    BY <1>2, <1>3, <1>7 DEF DecideToContinue, DecideToEnd, Deciding, Fenced
  <1>8. CASE BeginOperation(v) \/ RecordVerdict(v) \/ FinishOperation(v)
    BY <1>2, <1>3, <1>8 DEF BeginOperation, RecordVerdict, FinishOperation, Fenced
  <1>9. CASE Heartbeat(v) \/ \E delayed \in BOOLEAN : ReleaseLease(v, delayed)
    BY <1>1, <1>9 DEF Heartbeat, ReleaseLease, Fenced
  <1>10. CASE \/ PassBoundary(v) \/ LoseLease(v) \/ Restart(v) \/ DecideToYield(v)
              \/ DecideToCallPort(v) \/ RecoverOperation(v)
    BY <1>1, <1>10 DEF PassBoundary, LoseLease, Restart, DecideToYield,
                       DecideToCallPort, RecoverOperation
  <1> QED
    BY <1>4, <1>5, <1>6, <1>7, <1>8, <1>9, <1>10 DEF Slice

LEMMA SliceElse ==
    ASSUME TypeInv, NEW v \in Worker, NEW w \in Worker \ {v}, Slice(v)
    PROVE  Bystander(w)
  <1> DEFINE m == driver[v].mission
  <1>1. /\ m \in Mission
        /\ UNCHANGED runs \/ (Others(m) /\ (Driven(m) \/ Ended(m)))
        /\ driver'[w] \in {driver[w], Touched(m)[w]}
        /\ UNCHANGED runs \/ (LeaseCurrent(v) /\ driver'[w] = Touched(m)[w])
    BY SliceRow, SliceTouches
  <1>2. CASE UNCHANGED runs
    <2>1. Others(m) /\ RowSeen(w, m)
      BY <1>2, SameRowSeen DEF Others
    <2> QED
      BY <1>1, <2>1, OneRow
  <1>3. CASE Others(m) /\ (Driven(m) \/ Ended(m)) /\ ~UNCHANGED runs
    <2>1. ASSUME driver[w].mission = m
          PROVE  RowSeen(w, m)
      <3>1. ~driver'[w].fresh
        BY <1>1, <1>3, <2>1 DEF Touched, TypeInv, TypeOK, Driver
      <3>2. runs'[m].lease_owner # w
        BY <1>1, <1>3, NoneAssumption DEF LeaseCurrent, Holds, Driven, Ended
      <3>3. runs'[m].status = "created" => runs[m].status = "created"
        BY <1>3 DEF Driven, Ended, Terminal
      <3> QED
        BY <3>1, <3>2, <3>3 DEF RowSeen
    <2> QED
      BY <1>1, <1>3, <2>1, OneRow
  <1> QED
    BY <1>1, <1>2, <1>3

\* A row whose status, lease and commands stay.
LEMMA QuietRowSeen ==
    ASSUME NEW w, NEW m,
           LET r == runs[m]
               q == runs'[m]
           IN  /\ q.status = r.status /\ q.call = r.call
               /\ q.lease_owner = r.lease_owner
               /\ q.lease_epoch = r.lease_epoch
               /\ q.lease_live => r.lease_live
               /\ q.commands = r.commands /\ q.last_applied = r.last_applied
    PROVE  RowSeen(w, m)
  BY DEF RowSeen, Unapplied

LEMMA QuietElse ==
    ASSUME TypeInv, NEW w \in Worker, NEW m \in Mission,
           driver'[w] \in {driver[w], Touched(m)[w]},
           \/ UNCHANGED runs
           \/ runs' = [runs EXCEPT ![m].dispatched = TRUE,
                                   ![m].dispatch_epoch = @ + 1,
                                   ![m].dispatch_live = TRUE]
           \/ runs' = [runs EXCEPT ![m].dispatched = FALSE, ![m].dispatch_live = FALSE]
           \/ runs' = [runs EXCEPT ![m].dispatch_live = FALSE]
           \/ runs' = [runs EXCEPT ![m].lease_live = FALSE]
           \/ runs' = [runs EXCEPT ![m].next_wakeup = "due"]
    PROVE  Bystander(w)
  <1> DEFINE r == runs[m]
  <1>1. r \in MissionRun /\ runs \in [Mission -> MissionRun]
    BY DEF TypeInv, TypeOK
  <1>2. /\ Others(m)
        /\ \/ runs'[m] = r
           \/ runs'[m] = [r EXCEPT !.dispatched = TRUE,
                                   !.dispatch_epoch = @ + 1, !.dispatch_live = TRUE]
           \/ runs'[m] = [r EXCEPT !.dispatched = FALSE, !.dispatch_live = FALSE]
           \/ runs'[m] = [r EXCEPT !.dispatch_live = FALSE]
           \/ runs'[m] = [r EXCEPT !.lease_live = FALSE]
           \/ runs'[m] = [r EXCEPT !.next_wakeup = "due"]
    BY <1>1 DEF Others
  <1>3. RowSeen(w, m)
    <2>1. LET q == runs'[m] IN
          /\ q.status = r.status /\ q.call = r.call
          /\ q.lease_owner = r.lease_owner
          /\ q.lease_epoch = r.lease_epoch
          /\ q.lease_live => r.lease_live
          /\ q.commands = r.commands /\ q.last_applied = r.last_applied
      BY <1>1, <1>2 DEF MissionRun
    <2> QED
      BY <2>1, QuietRowSeen
  <1> QED
    BY <1>2, <1>3, OneRow

LEMMA FetchElse ==
    ASSUME TypeInv, NEW v \in Worker, NEW w \in Worker \ {v}, Fetch(v)
    PROVE  Bystander(w)
  <1> DEFINE m == driver[v].mission
  <1>1. driver \in [Worker -> Driver]
    BY DEF TypeInv, TypeOK
  <1>2. CASE ClaimLease(v)
    <2>1. /\ m \in Mission /\ runs \in [Mission -> MissionRun]
          /\ runs[m] \in MissionRun
      BY <1>2 DEF ClaimLease, Idle, TypeInv, BusyHasMission, TypeOK
    <2>2. /\ Others(m)
          /\ runs'[m].status = runs[m].status
          /\ runs'[m].lease_owner = v
      BY <1>2, <2>1 DEF ClaimLease, Others, MissionRun
    <2>3. driver'[w] = Touched(m)[w]
      BY <1>2 DEF ClaimLease, Touched
    <2>4. ASSUME driver[w].mission = m
          PROVE  RowSeen(w, m)
      <3>1. ~driver'[w].fresh
        BY <1>1, <2>3, <2>4 DEF Touched, Driver
      <3> QED
        BY <2>2, <3>1 DEF RowSeen
    <2> QED
      BY <2>1, <2>2, <2>3, <2>4, OneRow
  <1>3. CASE ReleaseDispatch(v)
    <2>1. m \in Mission
      BY <1>3 DEF ReleaseDispatch, Idle, TypeInv, BusyHasMission
    <2>2. driver'[w] \in {driver[w], Touched(m)[w]}
      BY <1>1, <1>3 DEF ReleaseDispatch, Touched
    <2> QED
      BY <1>3, <2>1, <2>2, QuietElse DEF ReleaseDispatch
  <1>4. ASSUME NEW msg \in queue,
               Deliver(v, msg) \/ DeliverToWaiting(v, msg) \/ DiscardDelivery(v, msg)
        PROVE  UNCHANGED runs /\ driver'[w] = driver[w]
    BY <1>1, <1>4 DEF Deliver, DeliverToWaiting, DiscardDelivery, Accept
  <1>5. CASE LeaseNotAcquired(v)
    BY <1>1, <1>5, NothingSeen DEF LeaseNotAcquired
  <1> QED
    BY <1>2, <1>3, <1>4, <1>5, NothingSeen DEF Fetch

LEMMA DispatchingElse ==
    ASSUME TypeInv, NEW w \in Worker, Dispatching
    PROVE  Bystander(w)
  <1>1. hints \subseteq Hint /\ publishing \subseteq Message
    BY DEF TypeInv, TypeOK
  <1>2. ASSUME NEW h \in hints, ClaimDispatch(h)
        PROVE  Bystander(w)
    <2>1. h.mission \in Mission
      BY <1>1 DEF Hint
    <2> QED
      BY <1>2, <2>1, QuietElse DEF ClaimDispatch, Reserve
  <1>3. ASSUME NEW msg \in publishing, NEW sent \in BOOLEAN, PublishFails(msg, sent)
        PROVE  Bystander(w)
    <2>1. msg.mission \in Mission
      BY <1>1 DEF Message
    <2> QED
      BY <1>3, <2>1, QuietElse DEF PublishFails, ReleaseClaim
  <1> QED
    BY <1>2, <1>3, NothingSeen
    DEF Dispatching, DropHint, Publish, PublisherDies, LoseMessage

LEMMA ElsewhereElse ==
    ASSUME TypeInv, NEW w \in Worker, NEW m \in Mission, Elsewhere(m)
    PROVE  Bystander(w)
  <1> DEFINE r == runs[m]
  <1>1. r \in MissionRun /\ runs \in [Mission -> MissionRun]
    BY DEF TypeInv, TypeOK
  <1>2. ASSUME NEW q, runs' = [runs EXCEPT ![m] = q]
        PROVE  runs'[m] = q /\ Others(m)
    BY <1>1, <1>2 DEF Others
  <1>3. ASSUME NEW s \in {"planning", "waiting"}, Admit(m, s)
        PROVE  Bystander(w)
    <2>1. /\ Others(m)
          /\ driver'[w] = driver[w]
          /\ runs'[m] = [r EXCEPT !.status = s,
                                  !.next_wakeup = IF s = "planning" THEN "due"
                                                                    ELSE "none"]
      BY <1>1, <1>3 DEF Admit, Others
    <2>2. /\ runs'[m].status # "created" /\ r.status = "created"
          /\ SameLease(r, runs'[m]) /\ runs'[m].call = r.call
          /\ runs'[m].commands = r.commands
          /\ runs'[m].last_applied = r.last_applied
      BY <1>1, <1>3, <2>1 DEF Admit, MissionRun, SameLease
    <2>3. RowSeen(w, m)
      BY <2>2 DEF RowSeen, SameLease, Unapplied
    <2> QED
      BY <2>1, <2>3, OneRow
  <1>4. ASSUME NEW q, NEW awake, Input(m, q, awake), q.status # "created",
               q.lease_owner = w =>
                   /\ SameLease(r, q) /\ q.call = r.call
                   /\ q.status = r.status
                      \/ (r.status = "waiting" /\ q.status = "planning")
                   /\ Unapplied(m) => q.last_applied < Len(q.commands)
        PROVE  Bystander(w)
    <2>1. /\ Others(m) /\ runs'[m] = q
          /\ driver'[w] = Touched(m)[w]
      BY <1>2, <1>4 DEF Input
    <2>2. ASSUME driver[w].mission = m
          PROVE  RowSeen(w, m)
      <3>1. ~driver'[w].fresh
        BY <2>1, <2>2 DEF Touched, TypeInv, TypeOK, Driver
      <3> QED
        BY <1>4, <2>1, <3>1 DEF RowSeen, SameLease, Unapplied
    <2> QED
      BY <2>1, <2>2, OneRow
  <1>5. ASSUME NEW type \in CommandType, AppendCommand(m, type)
        PROVE  Bystander(w)
    <2> DEFINE q == [r EXCEPT !.commands = Append(@, type), !.next_wakeup = "due"]
    <2>1. /\ q.status = r.status /\ q.call = r.call
          /\ q.commands = Append(r.commands, type)
          /\ q.last_applied = r.last_applied
          /\ SameLease(r, q)
      BY <1>1 DEF MissionRun, SameLease
    <2>2. Unapplied(m) => q.last_applied < Len(q.commands)
      <3>1. /\ r.commands \in Seq({"steer", "mode", "pause", "cancel"})
            /\ type \in {"steer", "mode", "pause", "cancel"}
            /\ r.last_applied \in Nat
        BY <1>1, WriterAssumption DEF MissionRun
      <3> QED
        BY <2>1, <3>1 DEF Unapplied
    <2>3. Input(m, q, TRUE) /\ r.status # "created"
      BY <1>5 DEF AppendCommand
    <2> HIDE DEF q
    <2> QED
      BY <1>4, <2>1, <2>2, <2>3
  <1>6. CASE ChangeModeAfterEnd(m)
    <2> DEFINE q == [r EXCEPT !.commands = Append(@, "mode"), !.last_applied = @ + 1]
    <2>1. /\ q.status = r.status /\ q.call = r.call
          /\ SameLease(r, q)
      BY <1>1 DEF MissionRun, SameLease
    <2>2. Input(m, q, FALSE) /\ r.status # "created" /\ ~Unapplied(m)
      BY <1>6 DEF ChangeModeAfterEnd, Live, Terminal
    <2> HIDE DEF q
    <2> QED
      BY <1>4, <2>1, <2>2
  <1>7. ASSUME NEW k \in {"none", "due"}, NEW s \in {"planning", "waiting"},
               NEW t \in {r, Transition(r, s)}, NEW awake,
               Input(m, [t EXCEPT !.next_wakeup = k], awake),
               r.status # "created",
               t = r \/ s = "waiting" \/ r.status = "waiting"
        PROVE  Bystander(w)
    <2> DEFINE q == [t EXCEPT !.next_wakeup = k]
    <2>1. s \in Status /\ s \notin Terminal /\ s # "created"
      BY DEF Status, Terminal
    <2>2. t \in MissionRun
      BY <1>1, <2>1, TransitionType
    <2>3. /\ q.status = t.status /\ q.call = t.call
          /\ q.commands = t.commands /\ q.last_applied = t.last_applied
          /\ SameLease(t, q)
      BY <2>2 DEF MissionRun, SameLease
    <2> HIDE DEF q
    <2>4. CASE t = r
      BY <1>4, <1>7, <2>3, <2>4 DEF q, Unapplied
    <2>5. CASE t = Transition(r, s)
      <3>1. /\ t.status = s /\ t.call = r.call
            /\ t.commands = r.commands /\ t.last_applied = r.last_applied
            /\ s = "waiting" => t.lease_owner = None
            /\ s # "waiting" => SameLease(r, t)
        BY <1>1, <2>1, <2>5, TransitionRow
      <3>2. q.lease_owner = w => s # "waiting"
        BY <2>3, <3>1, NoneAssumption DEF SameLease
      <3>3. q.lease_owner = w =>
                /\ SameLease(r, q) /\ q.call = r.call
                /\ q.status = r.status
                   \/ (r.status = "waiting" /\ q.status = "planning")
                /\ Unapplied(m) => q.last_applied < Len(q.commands)
        BY <1>7, <2>3, <2>4, <3>1, <3>2 DEF SameLease, Unapplied
      <3> QED
        BY <1>4, <1>7, <2>1, <2>3, <3>1, <3>3 DEF q
    <2> QED
      BY <2>4, <2>5
  <1>8. CASE Resume(m)
    BY <1>7, <1>8 DEF Resume
  <1>9. CASE ExpireReservation(m)
    <2> DEFINE t == IF r.status = "waiting" THEN r ELSE Transition(r, "waiting")
    <2>1. t \in {r, Transition(r, "waiting")} /\ r.status # "created"
      BY <1>9 DEF ExpireReservation
    <2>2. Input(m, [t EXCEPT !.next_wakeup = "none"], FALSE)
      BY <1>9 DEF ExpireReservation
    <2> HIDE DEF t
    <2> QED
      BY <1>7, <2>1, <2>2
  <1>10. ASSUME NEW resolves \in BOOLEAN, ReviewSettled(m, resolves)
         PROVE  Bystander(w)
    <2> DEFINE t == IF resolves /\ r.status = "waiting"
                      THEN Transition(r, "planning") ELSE r
    <2>1. /\ t \in {r, Transition(r, "planning")}
          /\ t = r \/ r.status = "waiting"
          /\ r.status # "created"
      BY <1>10 DEF ReviewSettled
    <2>2. Input(m, [t EXCEPT !.next_wakeup = "due"], TRUE)
      BY <1>10 DEF ReviewSettled
    <2> HIDE DEF t
    <2> QED
      BY <1>7, <2>1, <2>2
  <1>11. CASE Reconcile(m)
    BY <1>11, QuietElse DEF Reconcile, Reserve
  <1>12. CASE WakeupFallsDue(m) \/ LeaseExpires(m) \/ DispatchExpires(m)
    BY <1>12, QuietElse DEF WakeupFallsDue, LeaseExpires, DispatchExpires
  <1> QED
    BY <1>3, <1>5, <1>6, <1>8, <1>9, <1>10, <1>11, <1>12 DEF Elsewhere

\* A step is a worker's own, its end, or one it stands by.
LEMMA OwnOrBystander ==
    ASSUME TypeInv, [Next]_vars, NEW w \in Worker
    PROVE  \/ Slice(w) \/ Fetch(w)
           \/ driver'[w].pc = Idle
           \/ Bystander(w)
  <1>1. ASSUME NEW v \in Worker, NEW redelivered \in BOOLEAN, Crash(v, redelivered)
        PROVE  driver'[w].pc = Idle \/ Bystander(w)
    <2>1. /\ UNCHANGED runs
          /\ driver'[w] = IF w = v THEN NoDelivery ELSE driver[w]
      BY <1>1 DEF Crash, TypeInv, TypeOK
    <2> QED
      BY <2>1, NothingSeen DEF NoDelivery
  <1>2. ASSUME UNCHANGED vars
        PROVE  Bystander(w)
    BY <1>2, NothingSeen DEF vars
  <1> QED
    BY <1>1, <1>2, SliceElse, FetchElse, DispatchingElse, ElsewhereElse DEF Next

-----------------------------------------------------------------------------
(* What the holder of a lease may rely on.                                 *)

\* w was not handed a Mission that waits for nothing, and nobody has made it
\* one since; past the boundary the Mission runs, and no model call is open.
DriveInv(w) ==
    LET m == driver[w].mission
        status == runs[m].status
        pc == driver[w].pc
    IN  /\ pc = "claiming" =>
              /\ status # "created"
              /\ driver[w].fresh /\ status = "waiting" => Unapplied(m)
        /\ pc \in Driving /\ LeaseCurrent(w) =>
              \/ status = "running"
              \/ /\ pc = "driving"
                 /\ status = "planning" \/ (status = "waiting" /\ Unapplied(m))
        /\ pc \in Driving \ {"driving", "deciding"} /\ Holds(w, m) =>
              runs[m].call # "open"

LEMMA BystanderDrive ==
    ASSUME TypeInv, CreatedIsQuiet, NEW w \in Worker, DriveInv(w), Bystander(w)
    PROVE  DriveInv(w)'
  <1> DEFINE m == driver[w].mission
  <1>1. CASE driver[w].pc = Idle
    BY <1>1 DEF Bystander, DriveInv, Idle, Driving
  <1>2. CASE driver[w].pc # Idle
    <2>1. /\ m \in Mission
          /\ driver'[w].pc = driver[w].pc
          /\ driver'[w].mission = m
          /\ driver'[w].epoch = driver[w].epoch
          /\ driver'[w].fresh => driver[w].fresh
          /\ RowSeen(w, m)
      BY <1>2 DEF Bystander, TypeInv, BusyHasMission
    <2>2. ASSUME driver[w].pc = "claiming"
          PROVE  /\ runs'[m].status # "created"
                 /\ driver'[w].fresh /\ runs'[m].status = "waiting" => Unapplied(m)'
      BY <2>1, <2>2 DEF DriveInv, RowSeen
    <2>3. ASSUME Holds(w, m)'
          PROVE  /\ Holds(w, m)
                 /\ runs[m].status # "created"
                 /\ runs'[m].call = runs[m].call
                 /\ LeaseActive(m)' => LeaseActive(m)
      BY <2>1, <2>3, NoneAssumption DEF Holds, RowSeen, CreatedIsQuiet, LeaseActive
    <2>4. ASSUME driver[w].pc \in Driving, LeaseCurrent(w)'
          PROVE  \/ runs'[m].status = "running"
                 \/ /\ driver[w].pc = "driving"
                    /\ \/ runs'[m].status = "planning"
                       \/ runs'[m].status = "waiting" /\ Unapplied(m)'
      <3>1. /\ Holds(w, m)' /\ Live(m)'
            /\ LeaseActive(m)' \/ SlowCommits
        BY <2>1, <2>4 DEF LeaseCurrent
      <3>2. /\ runs'[m].lease_owner = w
            /\ \/ runs'[m].status = runs[m].status
               \/ runs[m].status = "waiting" /\ runs'[m].status = "planning"
            /\ Unapplied(m) => Unapplied(m)'
        BY <2>1, <2>3, <3>1 DEF Holds, RowSeen
      <3>3. LeaseCurrent(w)
        <4>1. Holds(w, m) /\ (LeaseActive(m) \/ SlowCommits)
          BY <2>1, <2>3, <3>1
        <4>2. runs'[m].status \notin Terminal
          BY <2>1, <3>1 DEF Live
        <4>3. Live(m)
          BY <3>2, <4>2 DEF Live, Terminal
        <4> QED
          BY <4>1, <4>3 DEF LeaseCurrent
      <3> QED
        BY <2>4, <3>2, <3>3 DEF DriveInv
    <2> QED
      BY <2>1, <2>2, <2>3, <2>4 DEF DriveInv
  <1> QED
    BY <1>1, <1>2

\* A write with which w goes on.
LEMMA WriteDrive ==
    ASSUME TypeInv, NEW w \in Worker, driver[w].pc # Idle,
           NEW r \in MissionRun, NEW next \in Driving, Write(w, r, next),
           LeaseCurrent(w)' =>
               \/ r.status = "running"
               \/ /\ next = "driving"
                  /\ \/ r.status = "planning"
                     \/ r.status = "waiting" /\ r.last_applied < Len(r.commands),
           next \in Driving \ {"driving", "deciding"} => r.call # "open"
    PROVE  DriveInv(w)'
  <1> DEFINE m == driver[w].mission
  <1>1. SameRow(r, runs'[m]) /\ m \in Mission
    BY WriteRow
  <1>2. driver'[w].pc = next /\ driver'[w].mission = m
    BY <1>1, TouchedType DEF Write, Driving, Idle, TypeInv, TypeOK, Driver
  <1>3. next # "claiming"
    BY DEF Driving
  <1> QED
    BY <1>1, <1>2, <1>3 DEF DriveInv, SameRow, Unapplied

LEMMA IdleDrive ==
    ASSUME NEW w, driver'[w].pc = Idle
    PROVE  DriveInv(w)'
  BY DEF DriveInv, Idle, Driving

LEMMA LastWriteDrive ==
    ASSUME TypeInv, NEW w \in Worker, driver[w].pc # Idle, NEW r, Write(w, r, Idle)
    PROVE  DriveInv(w)'
  <1>1. driver'[w] = NoDelivery
    <2>1. Touched(driver[w].mission) \in [Worker -> Driver]
      BY TouchedType DEF TypeInv, TypeOK, BusyHasMission
    <2> QED
      BY <2>1 DEF Write
  <1> QED
    BY <1>1, IdleDrive DEF NoDelivery

\* A page of commands: the cursor moves through it, a cancel is remembered, and
\* acts when nothing is left to apply.
LEMMA PageWrites ==
    ASSUME TypeInv, NEW w \in Worker, ApplyCommands(w)
    PROVE  LET m == driver[w].mission
               r == runs[m]
           IN
           /\ m \in Mission /\ r \in MissionRun
           /\ driver[w].pc \in {"driving", "decided"}
           /\ LeaseCurrent(w)
           /\ r.call = "closed"
           /\ \E through \in Nat, control, kept \in {"none", "pause", "cancel"} :
                LET a == Applied(r, through, kept) IN
                /\ r.last_applied < through /\ through <= Len(r.commands)
                /\ r.pending_control = "cancel" => control = "cancel"
                /\ \A i \in (r.last_applied + 1) .. through :
                       r.commands[i] = "cancel" => control = "cancel"
                /\ through < Len(r.commands) => kept = control
                /\ \/ Write(w, Transition([a EXCEPT !.inflight = FALSE],
                                          "cancelled"), Idle)
                   \/ /\ control # "cancel" \/ through < Len(r.commands)
                      /\ \/ Write(w, Transition(a, "waiting"), Idle)
                         \/ Write(w, Transition(a, "planning"), "driving")
                         \/ /\ Write(w, a, "driving")
                            /\ r.status # "running"
                            /\ r.status = "waiting" => through < Len(r.commands)
  <1> DEFINE m == driver[w].mission
             r == runs[m]
             through == Least(r.last_applied + PageLimit, Len(r.commands))
             types == {r.commands[i] : i \in (r.last_applied + 1) .. through}
             more == through < Len(r.commands)
             control == Control(r, types)
             kept == IF more THEN control ELSE "none"
             a == Applied(r, through, kept)
  <1>1. driver[w].pc \in {"driving", "decided"} /\ driver[w].pc # Idle
    BY DEF ApplyCommands, Idle
  <1>2. m \in Mission /\ r \in MissionRun
    BY <1>1 DEF TypeInv, TypeOK, BusyHasMission
  <1>3. /\ LeaseCurrent(w) /\ r.call = "closed"
        /\ r.last_applied < Len(r.commands)
    BY DEF ApplyCommands, Fenced, Unapplied
  <1>4. /\ through \in Nat
        /\ r.last_applied < through
        /\ through <= Len(r.commands)
    <2>1. /\ r.last_applied \in Nat /\ Len(r.commands) \in Nat
          /\ PageLimit \in Nat /\ PageLimit # 0
      <3>1. /\ r.last_applied \in Nat
            /\ r.commands \in Seq({"steer", "mode", "pause", "cancel"})
        BY <1>2 DEF MissionRun
      <3> QED
        BY <3>1, LenProperties, BoundAssumption
    <2> QED
      BY <1>3, <2>1 DEF Least
  <1>5. /\ control \in {"none", "pause", "cancel"}
        /\ kept \in {"none", "pause", "cancel"}
        /\ r.pending_control = "cancel" => control = "cancel"
        /\ \A i \in (r.last_applied + 1) .. through :
               r.commands[i] = "cancel" => control = "cancel"
        /\ through < Len(r.commands) => kept = control
    <2>1. r.pending_control \in {"none", "pause", "cancel"}
      BY <1>2 DEF MissionRun
    <2> QED
      BY <2>1 DEF Control
  <1>6. \/ Write(w, Transition([a EXCEPT !.inflight = FALSE], "cancelled"), Idle)
        \/ /\ control # "cancel" \/ through < Len(r.commands)
           /\ \/ Write(w, Transition(a, "waiting"), Idle)
              \/ Write(w, Transition(a, "planning"), "driving")
              \/ /\ Write(w, a, "driving")
                 /\ r.status # "running"
                 /\ r.status = "waiting" => through < Len(r.commands)
    BY DEF ApplyCommands, Applied
  <1> HIDE DEF r, through, kept, control
  <1> QED
    BY <1>1, <1>2, <1>3, <1>4, <1>5, <1>6 DEF r

\* The row after such a write.
LEMMA AppliedRow ==
    ASSUME NEW r \in MissionRun, NEW n \in Nat, NEW c \in {"none", "pause", "cancel"}
    PROVE  /\ Applied(r, n, c) \in MissionRun
           /\ Applied(r, n, c).status = r.status
           /\ Applied(r, n, c).call = r.call
           /\ Applied(r, n, c).commands = r.commands
           /\ Applied(r, n, c).last_applied = n
           /\ Applied(r, n, c).pending_control = c
  <1>1. Applied(r, n, c) \in MissionRun
    BY FieldTypes DEF Applied
  <1> QED
    BY <1>1 DEF Applied, MissionRun

LEMMA StoppedRow ==
    ASSUME NEW r \in MissionRun
    PROVE  /\ [r EXCEPT !.inflight = FALSE] \in MissionRun
           /\ [r EXCEPT !.inflight = FALSE].commands = r.commands
           /\ [r EXCEPT !.inflight = FALSE].last_applied = r.last_applied
           /\ [r EXCEPT !.inflight = FALSE].pending_control = r.pending_control
  BY DEF MissionRun

LEMMA PageDrive ==
    ASSUME TypeInv, NEW w \in Worker, DriveInv(w), ApplyCommands(w)
    PROVE  DriveInv(w)'
  <1> DEFINE m == driver[w].mission
             r == runs[m]
  <1>1. /\ m \in Mission /\ r \in MissionRun
        /\ driver[w].pc \in {"driving", "decided"}
        /\ driver[w].pc # Idle /\ driver[w].pc \in Driving
        /\ LeaseCurrent(w)
    BY PageWrites DEF Idle, Driving
  <1>2. PICK n \in Nat, c \in {"none", "pause", "cancel"} :
          LET a == Applied(r, n, c) IN
          \/ Write(w, Transition([a EXCEPT !.inflight = FALSE], "cancelled"), Idle)
          \/ Write(w, Transition(a, "waiting"), Idle)
          \/ Write(w, Transition(a, "planning"), "driving")
          \/ /\ Write(w, a, "driving")
             /\ r.status # "running"
             /\ r.status = "waiting" => n < Len(r.commands)
    BY PageWrites
  <1> DEFINE a == Applied(r, n, c)
  <1>3. /\ a \in MissionRun
        /\ a.status = r.status
        /\ a.commands = r.commands /\ a.last_applied = n
    <2>1. r \in MissionRun /\ n \in Nat /\ c \in {"none", "pause", "cancel"}
      BY <1>1, <1>2
    <2> HIDE DEF r
    <2> QED
      BY <2>1, AppliedRow
  <1>4. /\ Transition(a, "planning") \in MissionRun
        /\ Transition(a, "planning").status = "planning"
    <2> HIDE DEF a
    <2>1. "planning" \in Status
      BY DEF Status
    <2> QED
      BY <1>3, <2>1, TransitionType, TransitionRow
  <1>5. "driving" \in Driving \ (Driving \ {"driving", "deciding"})
    BY DEF Driving
  <1>6. CASE Write(w, Transition(a, "planning"), "driving")
    BY <1>1, <1>4, <1>5, <1>6, WriteDrive
  <1>7. CASE /\ Write(w, a, "driving")
             /\ r.status # "running"
             /\ r.status = "waiting" => n < Len(r.commands)
    <2>1. r.status \in {"planning", "waiting"}
      BY <1>1, <1>7 DEF DriveInv
    <2> HIDE DEF a
    <2> QED
      BY <1>1, <1>3, <1>5, <1>7, <2>1, WriteDrive
  <1> QED
    BY <1>1, <1>2, <1>6, <1>7, LastWriteDrive

LEMMA SliceDrive ==
    ASSUME TypeInv, CreatedIsQuiet, NEW w \in Worker, DriveInv(w), Slice(w)
    PROVE  DriveInv(w)'
  <1> DEFINE m == driver[w].mission
             r == runs[m]
             pc == driver[w].pc
  <1>1. pc \in Driving /\ pc # Idle
    BY SliceBusy
  <1>2. /\ m \in Mission /\ r \in MissionRun /\ runs \in [Mission -> MissionRun]
        /\ driver \in [Worker -> Driver]
        /\ Touched(m) \in [Worker -> Driver]
        /\ Touched(m)[w].mission = m /\ Touched(m)[w].pc = pc
        /\ Touched(m)[w].epoch = driver[w].epoch
    BY <1>1, TouchedType DEF TypeInv, TypeOK, BusyHasMission
  <1>3. ASSUME LeaseCurrent(w), NEW q \in MissionRun, NEW next \in Driving,
               Write(w, q, next),
               q.status = r.status,
               q.last_applied = r.last_applied, q.commands = r.commands,
               pc = "driving" => next = "driving",
               next \in Driving \ {"driving", "deciding"} => q.call # "open"
        PROVE  DriveInv(w)'
    <2>1. \/ r.status = "running"
          \/ /\ next = "driving"
             /\ r.status = "planning" \/ (r.status = "waiting" /\ Unapplied(m))
      BY <1>1, <1>3 DEF DriveInv
    <2> QED
      BY <1>1, <1>3, <2>1, WriteDrive DEF Unapplied
  <1>4. ASSUME NEW q, Write(w, q, Idle)
        PROVE  DriveInv(w)'
    BY <1>1, <1>4, LastWriteDrive
  <1>5. ASSUME NEW s, EndSlice(w, s)
        PROVE  DriveInv(w)'
    BY <1>4, <1>5 DEF EndSlice
  <1>6. ASSUME NEW k \in {"closed", "open", "unresolved"}, NEW b \in BOOLEAN
        PROVE  /\ [r EXCEPT !.call = k] \in MissionRun
               /\ [r EXCEPT !.inflight = b] \in MissionRun
               /\ [r EXCEPT !.model_calls = @ + 1, !.call = k] \in MissionRun
    <2>1. 0 \in Nat /\ "none" \in {"none", "pause", "cancel"}
      OBVIOUS
    <2> QED
      BY <1>2, <2>1, FieldTypes
  <1>7. ASSUME NEW k, NEW b
        PROVE  /\ [r EXCEPT !.call = k].status = r.status
               /\ [r EXCEPT !.call = k].commands = r.commands
               /\ [r EXCEPT !.call = k].last_applied = r.last_applied
               /\ [r EXCEPT !.call = k].call = k
               /\ [r EXCEPT !.inflight = b].status = r.status
               /\ [r EXCEPT !.inflight = b].commands = r.commands
               /\ [r EXCEPT !.inflight = b].last_applied = r.last_applied
               /\ [r EXCEPT !.inflight = b].call = r.call
               /\ [r EXCEPT !.model_calls = @ + 1, !.call = k].status = r.status
               /\ [r EXCEPT !.model_calls = @ + 1, !.call = k].commands = r.commands
               /\ [r EXCEPT !.model_calls = @ + 1, !.call = k].last_applied
                    = r.last_applied
    BY <1>2 DEF MissionRun
  <1>8. /\ {"driving", "ready", "deciding", "failing", "decided", "opening",
            "executing", "yielding"} = Driving
        /\ LeaseCurrent(w) => Holds(w, m)
    BY DEF Driving, LeaseCurrent
  <1>9. LeaseCurrent(w) /\ pc \notin {"driving", "deciding"} => r.call # "open"
    BY <1>1, <1>8 DEF DriveInv
  <1> HIDE DEF r
  <1>10. CASE CloseRecoveredCall(w)
    BY <1>3, <1>6, <1>7, <1>8, <1>10 DEF CloseRecoveredCall, r
  <1>11. CASE FailUnresolvedCall(w) \/ BudgetExhausted(w)
              \/ \E s \in {"waiting", "completed", "failed"} : DecideToEnd(w, s)
    BY <1>4, <1>5, <1>11 DEF FailUnresolvedCall, BudgetExhausted, DecideToEnd
  <1>12. CASE Advance(w)
    <2>1. /\ Transition(r, "running") \in MissionRun
          /\ Transition(r, "running").status = "running"
      <3>1. "running" \in Status
        BY DEF Status
      <3> QED
        BY <1>2, <3>1, TransitionType, TransitionRow DEF r
    <2>2. Write(w, Transition(r, "running"), "driving")
      BY <1>12 DEF Advance, r
    <2> QED
      BY <1>1, <1>8, <2>1, <2>2, WriteDrive
  <1>13. CASE ApplyCommands(w)
    BY <1>13, PageDrive
  <1>14. ASSUME UNCHANGED runs, NEW next \in Driving,
                \/ driver' = [driver EXCEPT ![w].pc = next]
                \/ driver' = [driver EXCEPT ![w].pc = next, ![w].fresh = TRUE]
         PROVE  /\ driver'[w].pc = next /\ driver'[w].mission = m
                /\ driver'[w].epoch = driver[w].epoch
                /\ LeaseCurrent(w)' <=> LeaseCurrent(w)
                /\ Holds(w, m)' <=> Holds(w, m)
                /\ Unapplied(m)' <=> Unapplied(m)
    <2>1. /\ driver'[w].pc = next /\ driver'[w].mission = m
          /\ driver'[w].epoch = driver[w].epoch
      BY <1>2, <1>14 DEF Driver
    <2> QED
      BY <1>14, <2>1 DEF LeaseCurrent, Live, Holds, LeaseActive, Unapplied
  <1>15. CASE PassBoundary(w)
    <2>1. r.status = "running" /\ r.call # "open"
      BY <1>1, <1>15, <1>8 DEF PassBoundary, Fenced, At, DriveInv, r
    <2>2. UNCHANGED runs /\ driver' = [driver EXCEPT ![w].pc = "ready"]
      BY <1>15 DEF PassBoundary
    <2> QED
      BY <1>8, <1>14, <2>1, <2>2 DEF DriveInv, r
  <1>16. CASE DecideToYield(w) \/ DecideToCallPort(w) \/ RecoverOperation(w)
    <2>1. pc \in {"ready", "decided"}
      BY <1>16 DEF DecideToYield, DecideToCallPort, RecoverOperation, Deciding, At
    <2>2. PICK next \in {"yielding", "opening", "executing"} :
              UNCHANGED runs /\ driver' = [driver EXCEPT ![w].pc = next]
      BY <1>16 DEF DecideToYield, DecideToCallPort, RecoverOperation
    <2>3. next \in Driving
      BY DEF Driving
    <2> QED
      BY <1>1, <1>8, <1>14, <2>1, <2>2, <2>3 DEF DriveInv, r
  <1>17. CASE Heartbeat(w)
    <2>1. runs' = [runs EXCEPT ![m].lease_live = TRUE]
      BY <1>17 DEF Heartbeat
    <2>2. /\ runs'[m].status = r.status /\ runs'[m].call = r.call
          /\ runs'[m].commands = r.commands
          /\ runs'[m].last_applied = r.last_applied
          /\ runs'[m].lease_owner = r.lease_owner
          /\ runs'[m].lease_epoch = r.lease_epoch
      BY <1>2, <2>1 DEF MissionRun, r
    <2>3. /\ driver'[w].pc = pc /\ driver'[w].mission = m
          /\ driver'[w].epoch = driver[w].epoch
      BY <1>2, <1>17 DEF Heartbeat, Driver
    <2>4. LeaseCurrent(w) /\ Holds(w, m) /\ pc # "claiming"
      BY <1>8, <1>17 DEF Heartbeat
    <2> QED
      BY <2>2, <2>3, <2>4 DEF DriveInv, Unapplied, r
  <1>18. CASE LoseLease(w) \/ \E delayed \in BOOLEAN : ReleaseLease(w, delayed)
    <2>1. driver'[w] = NoDelivery
      BY <1>2, <1>18 DEF LoseLease, ReleaseLease
    <2> QED
      BY <2>1, IdleDrive DEF NoDelivery
  <1>19. CASE Restart(w)
    <2>1. LeaseCurrent(w)
      BY <1>19 DEF Restart, LeaseHeld, LeaseCurrent
    <2>2. /\ UNCHANGED runs
          /\ driver' = [driver EXCEPT ![w].pc = "driving", ![w].fresh = TRUE]
      BY <1>19 DEF Restart
    <2>3. \/ r.status = "running"
          \/ r.status = "planning" \/ (r.status = "waiting" /\ Unapplied(m))
      BY <1>1, <2>1 DEF DriveInv, r
    <2>4. /\ driver'[w].pc = "driving" /\ driver'[w].mission = m
          /\ Unapplied(m)' <=> Unapplied(m)
      BY <1>8, <1>14, <2>2
    <2> QED
      BY <2>2, <2>3, <2>4 DEF DriveInv, r
  <1>20. CASE StartModelCall(w)
    <2>1. /\ LeaseCurrent(w) /\ pc = "ready"
          /\ Write(w, [r EXCEPT !.model_calls = @ + 1, !.call = "open"], "deciding")
      BY <1>20 DEF StartModelCall, At, r
    <2> QED
      BY <1>3, <1>6, <1>7, <1>8, <2>1
  <1>21. CASE ModelCallReturns(w) \/ ModelCallFails(w)
    <2>1. LeaseCurrent(w) /\ pc = "deciding"
      BY <1>21 DEF ModelCallReturns, ModelCallFails, At
    <2>2. PICK k \in {"closed", "unresolved"}, next \in {"decided", "failing", "driving"} :
              Write(w, [r EXCEPT !.call = k], next)
      BY <1>21 DEF ModelCallReturns, ModelCallFails, r
    <2> QED
      BY <1>3, <1>6, <1>7, <1>8, <2>1, <2>2
  <1>22. ASSUME LeaseCurrent(w), pc \notin {"driving", "deciding"},
                NEW next \in Driving,
                \/ Write(w, r, next)
                \/ \E b \in BOOLEAN : Write(w, [r EXCEPT !.inflight = b], next)
         PROVE  DriveInv(w)'
    <2>1. r \in MissionRun
      BY <1>2 DEF r
    <2> QED
      BY <1>3, <1>6, <1>7, <1>9, <1>22, <2>1
  <1>23. CASE RecordFailure(w) \/ RecordVerdict(w) \/ FinishOperation(w)
    <2>1. LeaseCurrent(w) /\ pc \notin {"driving", "deciding"}
      BY <1>23 DEF RecordFailure, RecordVerdict, FinishOperation, Fenced, At
    <2>2. \/ \E s \in {"failed", "waiting"} : EndSlice(w, s)
          \/ \E q : Write(w, q, Idle)
          \/ \E next \in {"yielding", "driving"} :
                 \/ Write(w, r, next)
                 \/ Write(w, [r EXCEPT !.inflight = FALSE], next)
      BY <1>23 DEF RecordFailure, RecordVerdict, FinishOperation, r
    <2> QED
      BY <1>4, <1>5, <1>8, <1>22, <2>1, <2>2
  <1>24. CASE DecideToContinue(w) \/ BeginOperation(w)
    <2>1. LeaseCurrent(w) /\ pc \notin {"driving", "deciding"}
      BY <1>24 DEF DecideToContinue, BeginOperation, Deciding, Fenced, At
    <2>2. \E next \in {"executing", "driving"} :
             Write(w, r, next) \/ Write(w, [r EXCEPT !.inflight = TRUE], next)
      BY <1>24 DEF DecideToContinue, BeginOperation, r
    <2> QED
      BY <1>8, <1>22, <2>1, <2>2
  <1> QED
    BY <1>10, <1>11, <1>12, <1>13, <1>15, <1>16, <1>17, <1>18, <1>19, <1>20,
       <1>21, <1>23, <1>24
    DEF Slice

\* The row after a claim.
LEMMA ClaimRow ==
    ASSUME TypeInv, NEW w \in Worker, ClaimLease(w)
    PROVE  LET m == driver[w].mission IN
           /\ m \in Mission
           /\ runs'[m].status = runs[m].status
           /\ runs'[m].commands = runs[m].commands
           /\ runs'[m].last_applied = runs[m].last_applied
           /\ runs'[m].lease_epoch = runs[m].lease_epoch + 1
  <1> DEFINE m == driver[w].mission
             r == runs[m]
             q == [r EXCEPT !.lease_owner = w, !.lease_epoch = r.lease_epoch + 1,
                            !.lease_live = TRUE, !.next_wakeup = "none",
                            !.dispatched = FALSE, !.dispatch_live = FALSE]
  <1>1. m \in Mission /\ r \in MissionRun /\ runs \in [Mission -> MissionRun]
    BY DEF ClaimLease, Idle, TypeInv, BusyHasMission, TypeOK
  <1>2. runs' = [runs EXCEPT ![m] = q]
    BY <1>1 DEF ClaimLease
  <1>3. runs'[m] = q
    BY <1>1, <1>2
  <1>4. /\ q.status = r.status
        /\ q.commands = r.commands
        /\ q.last_applied = r.last_applied
        /\ q.lease_epoch = r.lease_epoch + 1
    BY <1>1 DEF MissionRun
  <1> HIDE DEF q
  <1> QED
    BY <1>1, <1>3, <1>4

LEMMA FetchDrive ==
    ASSUME TypeInv, CreatedIsQuiet, NEW w \in Worker, DriveInv(w), Fetch(w)
    PROVE  DriveInv(w)'
  <1>1. driver \in [Worker -> Driver] /\ runs \in [Mission -> MissionRun]
    BY DEF TypeInv, TypeOK
  <1>2. ASSUME NEW msg \in queue, NEW next \in Fetched, Accept(w, msg, next),
               next = "claiming" => ~WaitingWithoutCommand(msg.mission)
        PROVE  DriveInv(w)'
    <2>1. /\ driver'[w].pc = next /\ driver'[w].mission = msg.mission
          /\ UNCHANGED runs
          /\ runs[msg.mission].dispatched
          /\ msg.mission \in Mission
      BY <1>1, <1>2 DEF Accept, HoldsDispatch, TypeInv, TypeOK, Message
    <2>2. /\ runs[msg.mission].status # "created"
          /\ next = "claiming" /\ runs[msg.mission].status = "waiting" =>
                 Unapplied(msg.mission)
      BY <1>2, <2>1 DEF CreatedIsQuiet, WaitingWithoutCommand
    <2>3. next \notin Driving
      BY <1>2 DEF Fetched, Driving
    <2> QED
      BY <2>1, <2>2, <2>3 DEF DriveInv, Unapplied
  <1>3. ASSUME NEW msg \in queue, Deliver(w, msg) \/ DeliverToWaiting(w, msg)
        PROVE  DriveInv(w)'
    BY <1>2, <1>3 DEF Deliver, DeliverToWaiting, Fetched
  <1>4. ASSUME NEW msg \in queue, DiscardDelivery(w, msg)
        PROVE  DriveInv(w)'
    BY <1>4, IdleDrive DEF DiscardDelivery
  <1>5. CASE ClaimLease(w)
    <2> DEFINE m == driver[w].mission
    <2>1. /\ driver[w].pc = "claiming" /\ driver[w].fresh /\ Live(m)
          /\ m \in Mission
      BY <1>5 DEF ClaimLease, CanClaimLease, TypeInv, BusyHasMission, Idle
    <2>2. /\ runs'[m].status = runs[m].status
          /\ runs'[m].commands = runs[m].commands
          /\ runs'[m].last_applied = runs[m].last_applied
          /\ runs[m].status \in Status
      <3>1. runs[m].status \in Status
        BY <1>1, <2>1 DEF MissionRun
      <3> QED
        BY <1>5, <3>1, ClaimRow
    <2>3. driver'[w].pc = "driving" /\ driver'[w].mission = m
      <3>1. Touched(m) \in [Worker -> Driver] /\ Touched(m)[w].mission = m
        BY <1>1, <2>1, TouchedType
      <3> QED
        BY <1>5, <3>1 DEF ClaimLease, Driver
    <2>4. \/ runs[m].status \in {"planning", "running"}
          \/ runs[m].status = "waiting" /\ Unapplied(m)
      BY <2>1, <2>2 DEF DriveInv, Live, Status
    <2> QED
      BY <2>2, <2>3, <2>4 DEF DriveInv, Unapplied
  <1>6. CASE LeaseNotAcquired(w) \/ ReleaseDispatch(w)
    <2>1. driver'[w].pc \in {"releasing", Idle}
      <3>1. CASE LeaseNotAcquired(w)
        BY <1>1, <3>1 DEF LeaseNotAcquired, Driver
      <3>2. CASE ReleaseDispatch(w)
        <4>1. driver'[w] = NoDelivery
          BY <1>1, <3>2 DEF ReleaseDispatch, Touched
        <4> QED
          BY <4>1 DEF NoDelivery
      <3> QED
        BY <1>6, <3>1, <3>2
    <2> QED
      BY <2>1 DEF DriveInv, Driving, Idle
  <1> QED
    BY <1>3, <1>4, <1>5, <1>6 DEF Fetch

\* The invariant that the two theorems below rest on.
DrivenInv ==
    /\ TypeInv
    /\ CreatedIsQuiet
    /\ \A w \in Worker : DriveInv(w)

LEMMA DrivenStep ==
    ASSUME DrivenInv, [Next]_vars
    PROVE  DrivenInv'
  <1>1. TypeInv /\ CreatedIsQuiet
    BY DEF DrivenInv
  <1>2. ASSUME NEW w \in Worker
        PROVE  DriveInv(w)'
    <2>1. DriveInv(w)
      BY DEF DrivenInv
    <2> QED
      BY <1>1, <2>1, OwnOrBystander, SliceDrive, FetchDrive, IdleDrive,
         BystanderDrive
  <1> QED
    BY <1>1, <1>2, TypeStep, CreatedStep DEF DrivenInv

LEMMA DrivenInit == Init => DrivenInv
  BY InitType
  DEF Init, NewRun, NoDelivery, DrivenInv, CreatedIsQuiet, DriveInv, Idle, Driving

LEMMA DrivenAlways == Spec => []DrivenInv
  BY DrivenInit, DrivenStep, PTL DEF Spec

\* The model is asked, and an operation begun, only for a Mission that runs:
\* whoever sends commands, answers or settles meanwhile, and whenever a worker
\* lost its lease, nobody decides for a Mission that waits or replans
\* (_drive_claimed, for any number of Missions, workers and faults).
THEOREM NobodyDrivesAWait == Spec => []OnlyRunningIsDriven
  <1>1. DrivenInv => OnlyRunningIsDriven
    BY DEF DrivenInv, DriveInv, OnlyRunningIsDriven
  <1> QED
    BY <1>1, DrivenAlways, PTL

\* A finished Mission holds no lease, no wakeup, no generation, and no model
\* call that nobody has accounted for, whatever still arrives for it
\* (_transition_status and every writer of the row).
THEOREM NothingAfterTheEnd == Spec => []TerminalIsQuiet
  <1> DEFINE IInv == DrivenInv /\ TerminalIsQuiet
  <1>1. Init => IInv
    BY DrivenInit DEF Init, NewRun, TerminalIsQuiet
  <1>2. IInv /\ [Next]_vars => IInv'
    <2> SUFFICES ASSUME DrivenInv, TerminalIsQuiet, [Next]_vars,
                        NEW m \in Mission, runs'[m].status \in Terminal
                 PROVE  /\ runs'[m].lease_owner = None
                        /\ runs'[m].next_wakeup = "none"
                        /\ ~runs'[m].dispatched
                        /\ runs'[m].call # "open"
      BY DrivenStep DEF TerminalIsQuiet, Live
    <2>1. TypeInv /\ CallKnown
      BY DEF DrivenInv, DriveInv, CallKnown
    <2>2. ~Live(m) => /\ runs[m].lease_owner = None
                      /\ runs[m].next_wakeup = "none"
                      /\ ~runs[m].dispatched
                      /\ runs[m].call # "open"
      BY DEF TerminalIsQuiet
    <2>3. CASE runs'[m] = runs[m]
      BY <2>2, <2>3 DEF Live
    <2>4. CASE RowStep(m)
      BY <2>1, <2>2, <2>4
      DEF RowStep, Reserved, Claimed, Driven, Ended, Prompted, Lapsed, Live,
          Terminal
    <2> QED
      BY <2>1, <2>3, <2>4, EveryRowStep DEF Others
  <1>3. IInv => TerminalIsQuiet
    OBVIOUS
  <1> QED
    BY <1>1, <1>2, <1>3, PTL DEF Spec

-----------------------------------------------------------------------------
(* Terms.  With slow transactions two Missions of a workspace may have a   *)
(* lease at once; what each lease still buys is a term of its own.         *)

\* A delivery that is repeated, or handled by two workers, buys one of them a
\* term: two drivers of a Mission, one of which has lost its lease unawares,
\* never drive the same one (claim_run_lease).
OneDriverPerTerm ==
    \A v, w \in Worker :
        /\ driver[v].pc \in Driving
        /\ driver[w].pc \in Driving
        /\ driver[v].mission = driver[w].mission
        /\ driver[v].epoch = driver[w].epoch
        => v = w

\* Terms follow each other and so do their writes: once a later term has
\* written, an earlier one never does (_require_driver_fence).
WritesFollowTerms ==
    [][\A m \in Mission :
           /\ runs[m].lease_epoch <= runs'[m].lease_epoch
           /\ runs[m].writer_epoch <= runs'[m].writer_epoch]_vars

WriterHadTerm == \A m \in Mission : runs[m].writer_epoch <= runs[m].lease_epoch
DriverHasTerm ==
    \A w \in Worker :
        driver[w].pc \in Driving => driver[w].epoch <= runs[driver[w].mission].lease_epoch

TermInv == WriterHadTerm /\ DriverHasTerm /\ OneDriverPerTerm

SameTerm(w) ==
    /\ driver[w].pc \in Driving
    /\ driver'[w].mission = driver[w].mission
    /\ driver'[w].epoch = driver[w].epoch

LEMMA SliceTerm ==
    ASSUME TypeInv, NEW w \in Worker, Slice(w)
    PROVE  driver'[w].pc = Idle \/ SameTerm(w)
  <1> DEFINE m == driver[w].mission
  <1>1. /\ driver \in [Worker -> Driver]
        /\ driver[w].pc \in Driving
        /\ m \in Mission
        /\ Touched(m) \in [Worker -> Driver]
        /\ Touched(m)[w].mission = m
        /\ Touched(m)[w].epoch = driver[w].epoch
    <2>1. driver \in [Worker -> Driver] /\ driver[w].pc \in Driving /\ m \in Mission
      BY SliceBusy DEF TypeInv, TypeOK, BusyHasMission
    <2> QED
      BY <2>1, TouchedType DEF Touched, Driver
  <1>2. ASSUME NEW r, NEW next, Write(w, r, next)
        PROVE  driver'[w].pc = Idle \/ SameTerm(w)
    <2>1. CASE next = Idle
      BY <1>1, <1>2, <2>1 DEF Write, NoDelivery
    <2>2. CASE next # Idle
      BY <1>1, <1>2, <2>2 DEF Write, SameTerm, Driver
    <2> QED
      BY <2>1, <2>2
  <1>3. ASSUME NEW s, EndSlice(w, s)
        PROVE  driver'[w].pc = Idle \/ SameTerm(w)
    BY <1>2, <1>3 DEF EndSlice
  <1>4. CASE \/ CloseRecoveredCall(w) \/ FailUnresolvedCall(w) \/ Advance(w)
             \/ StartModelCall(w) \/ ModelCallReturns(w) \/ ModelCallFails(w)
    BY <1>2, <1>4 DEF CloseRecoveredCall, FailUnresolvedCall, Advance,
                      StartModelCall, ModelCallReturns, ModelCallFails
  <1>5. CASE ApplyCommands(w)
    BY <1>2, <1>5, ApplyCommandsWrites DEF ApplyCommands
  <1>6. CASE BudgetExhausted(w) \/ RecordFailure(w)
    BY <1>2, <1>3, <1>6 DEF BudgetExhausted, RecordFailure
  <1>7. CASE DecideToContinue(w) \/ \E s \in {"waiting", "completed", "failed"} :
                                        DecideToEnd(w, s)
    BY <1>2, <1>3, <1>7 DEF DecideToContinue, DecideToEnd
  <1>8. CASE BeginOperation(w) \/ RecordVerdict(w) \/ FinishOperation(w)
    BY <1>2, <1>3, <1>8 DEF BeginOperation, RecordVerdict, FinishOperation
  <1>9. CASE Heartbeat(w)
    BY <1>1, <1>9 DEF Heartbeat, SameTerm, Driver
  <1>10. CASE LoseLease(w) \/ \E delayed \in BOOLEAN : ReleaseLease(w, delayed)
    <2>1. driver'[w] = NoDelivery
      BY <1>1, <1>10 DEF LoseLease, ReleaseLease
    <2> QED
      BY <2>1 DEF NoDelivery
  <1>11. CASE \/ PassBoundary(w) \/ Restart(w) \/ DecideToYield(w)
              \/ DecideToCallPort(w) \/ RecoverOperation(w)
    BY <1>1, <1>11 DEF PassBoundary, Restart, DecideToYield, DecideToCallPort,
                       RecoverOperation, SameTerm, Driver
  <1> QED
    BY <1>4, <1>5, <1>6, <1>7, <1>8, <1>9, <1>10, <1>11 DEF Slice

\* Whoever drives after a step has kept its term or has just got a lease.
LEMMA DriverTerm ==
    ASSUME TypeInv, [Next]_vars, NEW w \in Worker, driver'[w].pc \in Driving
    PROVE  SameTerm(w) \/ ClaimLease(w)
  <1>1. driver'[w].pc # Idle /\ driver'[w].pc \notin Fetched
    BY DEF Driving, Idle, Fetched
  <1>2. CASE Bystander(w)
    BY <1>2 DEF Bystander, SameTerm
  <1>3. CASE Fetch(w)
    <2>1. driver \in [Worker -> Driver]
      BY DEF TypeInv, TypeOK
    <2>2. ASSUME NEW msg \in queue, NEW next \in Fetched, Accept(w, msg, next)
          PROVE  FALSE
      BY <1>1, <2>1, <2>2 DEF Accept
    <2>3. ASSUME NEW msg \in queue, DiscardDelivery(w, msg)
          PROVE  FALSE
      BY <1>1, <2>3 DEF DiscardDelivery
    <2>4. CASE LeaseNotAcquired(w)
      BY <1>1, <2>1, <2>4 DEF LeaseNotAcquired, Fetched, Driver
    <2>5. CASE ReleaseDispatch(w)
      <3>1. driver'[w] = NoDelivery
        BY <2>1, <2>5 DEF ReleaseDispatch, Touched
      <3> QED
        BY <1>1, <3>1 DEF NoDelivery
    <2> QED
      BY <1>3, <2>2, <2>3, <2>4, <2>5 DEF Fetch, Deliver, DeliverToWaiting, Fetched
  <1> QED
    BY <1>1, <1>2, <1>3, OwnOrBystander, SliceTerm

LEMMA ClaimTerm ==
    ASSUME TypeInv, NEW w \in Worker, ClaimLease(w)
    PROVE  LET m == driver[w].mission IN
           /\ m \in Mission
           /\ driver'[w].mission = m
           /\ driver'[w].epoch = runs[m].lease_epoch + 1
           /\ runs'[m].lease_epoch = runs[m].lease_epoch + 1
           /\ \A v \in Worker \ {w} : driver'[v].pc = driver[v].pc
  <1> DEFINE m == driver[w].mission
  <1>1. m \in Mission /\ driver[w].pc = "claiming"
    BY DEF ClaimLease, TypeInv, BusyHasMission, Idle
  <1>2. /\ Touched(m) \in [Worker -> Driver]
        /\ \A v \in Worker : /\ Touched(m)[v].pc = driver[v].pc
                             /\ Touched(m)[v].mission = driver[v].mission
    <2>1. driver \in [Worker -> Driver]
      BY DEF TypeInv, TypeOK
    <2> QED
      BY <1>1, <2>1, TouchedType DEF Touched, Driver
  <1>3. /\ driver'[w].mission = m
        /\ driver'[w].epoch = runs[m].lease_epoch + 1
        /\ \A v \in Worker \ {w} : driver'[v].pc = driver[v].pc
    BY <1>2 DEF ClaimLease, Driver
  <1>4. runs'[m].lease_epoch = runs[m].lease_epoch + 1
    BY ClaimRow
  <1> QED
    BY <1>1, <1>3, <1>4

\* What a step does to the terms of a Mission.
LEMMA TermsFollow ==
    ASSUME TypeInv, WriterHadTerm, [Next]_vars, NEW m \in Mission
    PROVE  /\ runs[m].lease_epoch <= runs'[m].lease_epoch
           /\ runs[m].writer_epoch <= runs'[m].writer_epoch
           /\ runs'[m].writer_epoch <= runs'[m].lease_epoch
  <1>1. /\ runs[m].lease_epoch \in Nat /\ runs[m].writer_epoch \in Nat
        /\ runs[m].writer_epoch <= runs[m].lease_epoch
    BY DEF TypeInv, TypeOK, MissionRun, WriterHadTerm
  <1>2. CASE runs'[m] = runs[m]
    BY <1>1, <1>2
  <1>3. CASE RowStep(m)
    BY <1>1, <1>3 DEF RowStep, Reserved, Claimed, Driven, Ended, Prompted, Lapsed,
                      SameLease, SameWriter, WrittenByHolder
  <1> QED
    BY <1>2, <1>3, EveryRowStep DEF Others

LEMMA TermInvStep ==
    ASSUME TypeInv, TermInv, [Next]_vars
    PROVE  TermInv'
  <1>1. WriterHadTerm /\ DriverHasTerm /\ OneDriverPerTerm
    BY DEF TermInv
  <1>2. WriterHadTerm'
    BY <1>1, TermsFollow DEF WriterHadTerm
  <1>3. ASSUME NEW w \in Worker, SameTerm(w)
        PROVE  /\ driver[w].mission \in Mission
               /\ driver[w].epoch \in Nat
               /\ runs[driver[w].mission].lease_epoch \in Nat
               /\ runs'[driver[w].mission].lease_epoch \in Nat
               /\ driver[w].epoch <= runs[driver[w].mission].lease_epoch
               /\ runs[driver[w].mission].lease_epoch <= runs'[driver[w].mission].lease_epoch
    <2>1. driver[w].pc \in Driving /\ driver[w].pc # Idle
      BY <1>3 DEF SameTerm, Driving, Idle
    <2>2. driver[w].mission \in Mission /\ driver[w].epoch \in Nat
      BY <2>1 DEF TypeInv, TypeOK, BusyHasMission, Driver
    <2>3. /\ runs[driver[w].mission].lease_epoch \in Nat
          /\ runs'[driver[w].mission].lease_epoch \in Nat
      <3>1. TypeInv'
        BY TypeStep
      <3> QED
        BY <2>2, <3>1 DEF TypeInv, TypeOK, MissionRun
    <2> QED
      BY <1>1, <2>1, <2>2, <2>3, TermsFollow DEF DriverHasTerm
  <1>4. ASSUME NEW w \in Worker, ClaimLease(w)
        PROVE  runs'[driver[w].mission].lease_epoch \in Nat
    <2>1. driver[w].mission \in Mission
      BY <1>4, ClaimTerm
    <2>2. runs' \in [Mission -> MissionRun]
      BY TypeStep DEF TypeInv, TypeOK
    <2> QED
      BY <2>1, <2>2 DEF MissionRun
  <1>5. DriverHasTerm'
    <2> SUFFICES ASSUME NEW w \in Worker, driver'[w].pc \in Driving
                 PROVE  driver'[w].epoch <= runs'[driver'[w].mission].lease_epoch
      BY DEF DriverHasTerm
    <2>1. CASE SameTerm(w)
      BY <1>3, <2>1 DEF SameTerm
    <2>2. CASE ClaimLease(w)
      BY <1>4, <2>2, ClaimTerm
    <2> QED
      BY <2>1, <2>2, DriverTerm
  <1>6. ASSUME NEW v \in Worker, NEW w \in Worker \ {v}, ClaimLease(v),
               driver'[w].pc \in Driving, driver'[w].mission = driver'[v].mission
        PROVE  driver'[v].epoch # driver'[w].epoch
    <2>1. driver'[w].pc = driver[w].pc
      BY <1>6, ClaimTerm
    <2>2. SameTerm(w)
      BY <1>6, <2>1, DriverTerm DEF ClaimLease, Driving
    <2>3. /\ driver'[w].epoch = driver[w].epoch
          /\ driver[w].mission = driver[v].mission
      BY <1>6, <2>2, ClaimTerm DEF SameTerm
    <2>4. driver'[v].epoch = runs[driver[w].mission].lease_epoch + 1
      BY <1>6, <2>3, ClaimTerm
    <2> QED
      BY <1>3, <2>2, <2>3, <2>4
  <1>7. OneDriverPerTerm'
    <2> SUFFICES ASSUME NEW v \in Worker, NEW w \in Worker, v # w,
                        driver'[v].pc \in Driving, driver'[w].pc \in Driving,
                        driver'[v].mission = driver'[w].mission,
                        driver'[v].epoch = driver'[w].epoch
                 PROVE  FALSE
      BY DEF OneDriverPerTerm
    <2>1. ~ClaimLease(v) /\ ~ClaimLease(w)
      BY <1>6
    <2>2. SameTerm(v) /\ SameTerm(w)
      BY <2>1, DriverTerm
    <2> QED
      BY <1>1, <2>2 DEF SameTerm, OneDriverPerTerm
  <1> QED
    BY <1>2, <1>5, <1>7 DEF TermInv

LEMMA TermInit == Init => TypeInv /\ TermInv
  BY InitType
  DEF Init, NewRun, NoDelivery, TermInv, WriterHadTerm, DriverHasTerm,
      OneDriverPerTerm, Idle, Driving

\* A term has one driver, for any repeated or late delivery, any takeover and
\* any number of workers, with slow transactions too.
THEOREM TermHasOneDriver == Spec => []OneDriverPerTerm
  <1>1. TermInv => OneDriverPerTerm
    BY DEF TermInv
  <1> QED
    BY <1>1, TermInit, TypeStep, TermInvStep, PTL DEF Spec

\* What is left of the slot when transactions are slow: a Mission is written
\* by one term after the other, never by a superseded one.
THEOREM SupersededStaysSilent == Spec => WritesFollowTerms
  <1>1. TypeInv /\ TermInv /\ [Next]_vars =>
            [\A m \in Mission :
                 /\ runs[m].lease_epoch <= runs'[m].lease_epoch
                 /\ runs[m].writer_epoch <= runs'[m].writer_epoch]_vars
    BY TermsFollow DEF TermInv
  <1> QED
    BY <1>1, TermInit, TypeStep, TermInvStep, PTL DEF Spec, WritesFollowTerms

-----------------------------------------------------------------------------
(* What becomes of commands.                                               *)

SameCommands(r, q) ==
    /\ q.commands = r.commands
    /\ q.last_applied = r.last_applied
    /\ q.pending_control = r.pending_control

\* The commands stay; only an empty queue lets the Mission complete.
Kept(m) ==
    /\ SameCommands(runs[m], runs'[m])
    /\ runs'[m].status \notin Terminal => Live(m)
    /\ runs'[m].status = "completed" =>
           runs[m].status = "completed" \/ ~Unapplied(m)

\* A command arrives for a live Mission, or a review mode after the end.
Arrived(m) ==
    LET r == runs[m]
        q == runs'[m]
    IN  /\ q.status = r.status
        /\ q.pending_control = r.pending_control
        /\ \E type \in {"steer", "mode", "pause", "cancel"} :
               q.commands = Append(r.commands, type)
        /\ \/ Live(m) /\ q.last_applied = r.last_applied
           \/ ~Live(m) /\ ~Unapplied(m) /\ q.last_applied = r.last_applied + 1

\* A page of commands is applied.
Paged(m) ==
    LET r == runs[m]
        q == runs'[m]
    IN  /\ Live(m)
        /\ q.status # "completed"
        /\ q.commands = r.commands
        /\ r.last_applied < q.last_applied /\ q.last_applied <= Len(r.commands)
        /\ (\/ r.pending_control = "cancel"
            \/ \E i \in (r.last_applied + 1) .. q.last_applied :
                   r.commands[i] = "cancel")
           => \/ q.status \in Terminal
              \/ q.pending_control = "cancel" /\ q.last_applied < Len(r.commands)

CommandStep(m) == Kept(m) \/ Arrived(m) \/ Paged(m)

\* A write of a driver that does not touch the commands.
LEMMA WriteCommands ==
    ASSUME TypeInv, NEW w \in Worker, driver[w].pc # Idle, LeaseCurrent(w),
           NEW q \in MissionRun, NEW next, Write(w, q, next),
           SameCommands(runs[driver[w].mission], q),
           q.status = "completed" => ~Unapplied(driver[w].mission)
    PROVE  /\ Others(driver[w].mission)
           /\ Kept(driver[w].mission)
  <1>1. /\ SameRow(q, runs'[driver[w].mission])
        /\ Others(driver[w].mission)
    BY WriteRow
  <1>2. Live(driver[w].mission)
    BY DEF LeaseCurrent
  <1> QED
    BY <1>1, <1>2 DEF Kept, SameRow, SameCommands

LEMMA EndSliceCommands ==
    ASSUME TypeInv, NEW w \in Worker, driver[w].pc # Idle, LeaseCurrent(w),
           NEW q \in MissionRun, NEW s \in Status, NEW next,
           Write(w, Transition(q, s), next),
           SameCommands(runs[driver[w].mission], q),
           s = "completed" => ~Unapplied(driver[w].mission)
    PROVE  /\ Others(driver[w].mission)
           /\ Kept(driver[w].mission)
  <1> DEFINE t == Transition(q, s)
  <1>1. t \in MissionRun /\ t.status = s /\ SameCommands(q, t)
    BY TransitionType, TransitionRow DEF SameCommands
  <1> HIDE DEF t
  <1>2. SameCommands(runs[driver[w].mission], t)
    BY <1>1 DEF SameCommands
  <1> QED
    BY <1>1, <1>2, WriteCommands DEF t

LEMMA PageCommands ==
    ASSUME TypeInv, NEW w \in Worker, ApplyCommands(w)
    PROVE  Others(driver[w].mission) /\ Paged(driver[w].mission)
  <1> DEFINE m == driver[w].mission
             r == runs[m]
  <1>1. /\ m \in Mission /\ r \in MissionRun
        /\ driver[w].pc # Idle /\ Live(m) /\ r.status \notin Terminal
    BY PageWrites DEF LeaseCurrent, Live, Idle
  <1>2. PICK n \in Nat, control \in {"none", "pause", "cancel"},
             kept \in {"none", "pause", "cancel"} :
          LET a == Applied(r, n, kept) IN
          /\ r.last_applied < n /\ n <= Len(r.commands)
          /\ r.pending_control = "cancel" => control = "cancel"
          /\ \A i \in (r.last_applied + 1) .. n :
                 r.commands[i] = "cancel" => control = "cancel"
          /\ n < Len(r.commands) => kept = control
          /\ \/ Write(w, Transition([a EXCEPT !.inflight = FALSE],
                                    "cancelled"), Idle)
             \/ /\ control # "cancel" \/ n < Len(r.commands)
                /\ \/ Write(w, Transition(a, "waiting"), Idle)
                   \/ Write(w, Transition(a, "planning"), "driving")
                   \/ Write(w, a, "driving")
    BY PageWrites, ZenonT(30)
  <1> DEFINE a == Applied(r, n, kept)
             stopped == [a EXCEPT !.inflight = FALSE]
  <1>3. /\ a \in MissionRun
        /\ a.status = r.status
        /\ a.commands = r.commands
        /\ a.last_applied = n /\ a.pending_control = kept
    <2>1. r \in MissionRun /\ n \in Nat /\ kept \in {"none", "pause", "cancel"}
      BY <1>1, <1>2
    <2> HIDE DEF r
    <2> QED
      BY <2>1, AppliedRow, SMTT(30)
  <1> HIDE DEF a
  <1>4. /\ stopped \in MissionRun
        /\ stopped.commands = r.commands /\ stopped.last_applied = n
    BY <1>3, StoppedRow
  <1> HIDE DEF stopped
  <1>5. {"cancelled", "waiting", "planning"} \subseteq Status \ {"completed"}
        /\ "cancelled" \in Terminal
    BY DEF Status, Terminal
  <1>6. ASSUME NEW q \in MissionRun, NEW next, Write(w, q, next)
        PROVE  SameRow(q, runs'[m]) /\ Others(m)
    BY <1>1, <1>6, WriteRow
  <1>7. CASE Write(w, Transition(stopped, "cancelled"), Idle)
    <2> DEFINE t == Transition(stopped, "cancelled")
    <2>1. /\ t \in MissionRun /\ t.status = "cancelled"
          /\ t.commands = r.commands /\ t.last_applied = n
      BY <1>4, <1>5, TransitionType, TransitionRow
    <2> HIDE DEF t
    <2>2. SameRow(t, runs'[m]) /\ Others(m)
      BY <1>6, <1>7, <2>1 DEF t
    <2> QED
      BY <1>1, <1>2, <1>5, <2>1, <2>2 DEF Paged, SameRow
  <1>8. ASSUME control # "cancel" \/ n < Len(r.commands),
               NEW q \in MissionRun, NEW next, Write(w, q, next),
               q.status # "completed", q.commands = r.commands,
               q.last_applied = n, q.pending_control = kept
        PROVE  Others(m) /\ Paged(m)
    <2>1. SameRow(q, runs'[m]) /\ Others(m)
      BY <1>6, <1>8
    <2> QED
      BY <1>1, <1>2, <1>8, <2>1 DEF Paged, SameRow
  <1>9. ASSUME control # "cancel" \/ n < Len(r.commands),
               NEW s \in {"waiting", "planning"}, NEW next,
               Write(w, Transition(a, s), next)
        PROVE  Others(m) /\ Paged(m)
    <2> DEFINE t == Transition(a, s)
    <2>1. /\ t \in MissionRun /\ t.status # "completed"
          /\ t.commands = r.commands /\ t.last_applied = n
          /\ t.pending_control = kept
      BY <1>3, <1>5, TransitionType, TransitionRow
    <2> HIDE DEF t
    <2> QED
      BY <1>8, <1>9, <2>1 DEF t
  <1>10. a.status # "completed"
    BY <1>1, <1>3 DEF Terminal
  <1> QED
    BY <1>2, <1>3, <1>7, <1>8, <1>9, <1>10 DEF a, stopped

LEMMA SliceCommands ==
    ASSUME TypeInv, NEW w \in Worker, Slice(w)
    PROVE  \/ UNCHANGED runs
           \/ \E m \in Mission : Others(m) /\ CommandStep(m)
  <1> DEFINE m == driver[w].mission
             r == runs[m]
  <1>1. driver[w].pc # Idle
    BY SliceBusy
  <1>2. m \in Mission /\ r \in MissionRun /\ runs \in [Mission -> MissionRun]
    BY <1>1 DEF TypeInv, TypeOK, BusyHasMission
  <1>3. SUFFICES ASSUME runs' # runs
                 PROVE  Others(m) /\ CommandStep(m)
    BY <1>2
  <1>4. ASSUME LeaseCurrent(w), NEW q \in MissionRun, NEW next, Write(w, q, next),
               SameCommands(r, q), q.status = r.status
        PROVE  Others(m) /\ Kept(m)
    <2>1. r.status # "completed"
      BY <1>4 DEF LeaseCurrent, Live, Terminal
    <2> QED
      BY <1>1, <1>4, <2>1, WriteCommands
  <1>5. ASSUME LeaseCurrent(w), NEW q \in MissionRun, NEW s \in Status, NEW next,
               Write(w, Transition(q, s), next), SameCommands(r, q),
               s = "completed" => ~Unapplied(m)
        PROVE  Others(m) /\ Kept(m)
    BY <1>1, <1>5, EndSliceCommands
  <1>6. SameCommands(r, r) /\ {"running", "failed", "waiting", "completed"} \subseteq Status
    BY DEF SameCommands, Status, Terminal
  <1>7. ASSUME LeaseCurrent(w), NEW s \in Status, EndSlice(w, s),
               s = "completed" => ~Unapplied(m)
        PROVE  Others(m) /\ Kept(m)
    BY <1>2, <1>5, <1>6, <1>7 DEF EndSlice
  <1>8. ASSUME NEW b \in BOOLEAN, NEW k \in {"closed", "open", "unresolved"}
        PROVE  /\ [r EXCEPT !.inflight = b] \in MissionRun
               /\ [r EXCEPT !.call = k] \in MissionRun
               /\ [r EXCEPT !.model_calls = @ + 1, !.call = k] \in MissionRun
    <2>1. 0 \in Nat /\ "none" \in {"none", "pause", "cancel"}
      OBVIOUS
    <2> QED
      BY <1>2, <2>1, FieldTypes
  <1>9. ASSUME NEW b, NEW k
        PROVE  /\ [r EXCEPT !.inflight = b].status = r.status
               /\ SameCommands(r, [r EXCEPT !.inflight = b])
               /\ [r EXCEPT !.call = k].status = r.status
               /\ SameCommands(r, [r EXCEPT !.call = k])
               /\ [r EXCEPT !.model_calls = @ + 1, !.call = k].status = r.status
               /\ SameCommands(r, [r EXCEPT !.model_calls = @ + 1, !.call = k])
    BY <1>2 DEF MissionRun, SameCommands
  <1> HIDE DEF r
  <1>10. CASE CloseRecoveredCall(w) \/ ModelCallReturns(w) \/ ModelCallFails(w)
    BY <1>4, <1>8, <1>9, <1>10
    DEF CloseRecoveredCall, ModelCallReturns, ModelCallFails, r, CommandStep
  <1>11. CASE FailUnresolvedCall(w)
    BY <1>5, <1>6, <1>8, <1>9, <1>11 DEF FailUnresolvedCall, r, CommandStep
  <1>12. CASE Advance(w)
    BY <1>2, <1>5, <1>6, <1>12 DEF Advance, Fenced, r, CommandStep
  <1>13. CASE ApplyCommands(w)
    BY <1>13, PageCommands DEF CommandStep
  <1>14. CASE Heartbeat(w) \/ \E delayed \in BOOLEAN : ReleaseLease(w, delayed)
    <2>1. Live(m)
      BY <1>14 DEF Heartbeat, ReleaseLease, Fenced, LeaseCurrent
    <2>2. PICK k :
            \/ runs' = [runs EXCEPT ![m].lease_live = TRUE]
            \/ runs' = [runs EXCEPT
                   ![m].lease_owner = None, ![m].lease_live = FALSE,
                   ![m].next_wakeup = k,
                   ![m].yields = @ + 1, ![m].writer_epoch = driver[w].epoch]
      BY <1>14 DEF Heartbeat, ReleaseLease
    <2>3. /\ Others(m)
          /\ \/ runs'[m] = [r EXCEPT !.lease_live = TRUE]
             \/ runs'[m] = [r EXCEPT
                    !.lease_owner = None, !.lease_live = FALSE,
                    !.next_wakeup = k,
                    !.yields = @ + 1, !.writer_epoch = driver[w].epoch]
      BY <1>2, <2>2 DEF Others, r
    <2>4. runs'[m].status = r.status /\ SameCommands(r, runs'[m])
      BY <1>2, <2>3 DEF MissionRun, SameCommands
    <2> QED
      BY <2>1, <2>3, <2>4 DEF CommandStep, Kept, Live, r
  <1>15. CASE StartModelCall(w)
    BY <1>4, <1>8, <1>9, <1>15 DEF StartModelCall, r, CommandStep
  <1>16. CASE BudgetExhausted(w)
    BY <1>6, <1>7, <1>16 DEF BudgetExhausted, Fenced, CommandStep
  <1>17. CASE RecordFailure(w) \/ RecordVerdict(w)
    BY <1>2, <1>4, <1>6, <1>7, <1>17
    DEF RecordFailure, RecordVerdict, Fenced, r, CommandStep
  <1>18. CASE DecideToContinue(w)
    BY <1>2, <1>4, <1>6, <1>18 DEF DecideToContinue, Deciding, Fenced, r, CommandStep
  <1>19. ASSUME NEW s \in {"waiting", "completed", "failed"}, DecideToEnd(w, s)
         PROVE  Others(m) /\ CommandStep(m)
    BY <1>6, <1>7, <1>19 DEF DecideToEnd, Deciding, Fenced, CommandStep
  <1>20. CASE BeginOperation(w)
    BY <1>4, <1>8, <1>9, <1>20 DEF BeginOperation, Fenced, r, CommandStep
  <1>21. CASE FinishOperation(w)
    <2>1. LeaseCurrent(w)
      BY <1>21 DEF FinishOperation, Fenced
    <2>2. CASE Write(w, Transition([r EXCEPT !.inflight = FALSE], "failed"), Idle)
      BY <1>5, <1>6, <1>8, <1>9, <2>1, <2>2 DEF CommandStep
    <2>3. CASE EndSlice(w, "waiting")
      BY <1>6, <1>7, <2>1, <2>3 DEF CommandStep
    <2>4. CASE \/ Write(w, [r EXCEPT !.inflight = FALSE], "driving")
               \/ Write(w, r, "yielding")
      BY <1>2, <1>4, <1>6, <1>8, <1>9, <2>1, <2>4 DEF CommandStep, r
    <2> QED
      BY <1>21, <2>2, <2>3, <2>4 DEF FinishOperation, r
  <1>22. CASE \/ PassBoundary(w) \/ LoseLease(w) \/ Restart(w) \/ DecideToYield(w)
              \/ DecideToCallPort(w) \/ RecoverOperation(w)
    BY <1>3, <1>22 DEF PassBoundary, LoseLease, Restart, DecideToYield,
                       DecideToCallPort, RecoverOperation
  <1> QED
    BY <1>10, <1>11, <1>12, <1>13, <1>14, <1>15, <1>16, <1>17, <1>18, <1>19,
       <1>20, <1>21, <1>22
    DEF Slice

\* Steps that only touch fences and instants.
LEMMA QuietCommands ==
    ASSUME TypeInv, NEW m \in Mission,
           \/ UNCHANGED runs
           \/ runs' = [runs EXCEPT ![m].dispatched = TRUE,
                                   ![m].dispatch_epoch = @ + 1,
                                   ![m].dispatch_live = TRUE]
           \/ runs' = [runs EXCEPT ![m].dispatched = FALSE, ![m].dispatch_live = FALSE]
           \/ runs' = [runs EXCEPT ![m].dispatch_live = FALSE]
           \/ runs' = [runs EXCEPT ![m].lease_live = FALSE]
           \/ runs' = [runs EXCEPT ![m].next_wakeup = "due"]
    PROVE  Others(m) /\ CommandStep(m)
  <1> DEFINE r == runs[m]
  <1>1. r \in MissionRun /\ runs \in [Mission -> MissionRun]
    BY DEF TypeInv, TypeOK
  <1>2. /\ Others(m)
        /\ \/ runs'[m] = r
           \/ runs'[m] = [r EXCEPT !.dispatched = TRUE,
                                   !.dispatch_epoch = @ + 1, !.dispatch_live = TRUE]
           \/ runs'[m] = [r EXCEPT !.dispatched = FALSE, !.dispatch_live = FALSE]
           \/ runs'[m] = [r EXCEPT !.dispatch_live = FALSE]
           \/ runs'[m] = [r EXCEPT !.lease_live = FALSE]
           \/ runs'[m] = [r EXCEPT !.next_wakeup = "due"]
    BY <1>1 DEF Others
  <1>3. runs'[m].status = r.status /\ SameCommands(r, runs'[m])
    BY <1>1, <1>2 DEF MissionRun, SameCommands
  <1> QED
    BY <1>2, <1>3 DEF CommandStep, Kept, Live

LEMMA FetchCommands ==
    ASSUME TypeInv, NEW w \in Worker, Fetch(w)
    PROVE  \/ UNCHANGED runs
           \/ \E m \in Mission : Others(m) /\ CommandStep(m)
  <1> DEFINE m == driver[w].mission
  <1>1. CASE ClaimLease(w) \/ ReleaseDispatch(w)
    <2>1. m \in Mission /\ runs \in [Mission -> MissionRun]
      BY <1>1 DEF ClaimLease, ReleaseDispatch, Idle, TypeInv, TypeOK, BusyHasMission
    <2>2. CASE ClaimLease(w)
      <3>1. /\ Others(m)
            /\ runs'[m] = [runs[m] EXCEPT
                  !.lease_owner = w, !.lease_epoch = @ + 1,
                  !.lease_live = TRUE, !.next_wakeup = "none",
                  !.dispatched = FALSE, !.dispatch_live = FALSE]
        BY <2>1, <2>2 DEF ClaimLease, Others
      <3>2. runs[m] \in MissionRun
        BY <2>1
      <3>3. runs'[m].status = runs[m].status /\ SameCommands(runs[m], runs'[m])
        BY <3>1, <3>2 DEF MissionRun, SameCommands
      <3> QED
        BY <2>1, <3>1, <3>3 DEF CommandStep, Kept, Live
    <2>3. CASE ReleaseDispatch(w)
      BY <2>1, <2>3, QuietCommands DEF ReleaseDispatch
    <2> QED
      BY <1>1, <2>2, <2>3
  <1>2. ASSUME NEW msg \in queue,
               Deliver(w, msg) \/ DeliverToWaiting(w, msg) \/ DiscardDelivery(w, msg)
        PROVE  UNCHANGED runs
    BY <1>2 DEF Deliver, DeliverToWaiting, DiscardDelivery, Accept
  <1>3. CASE LeaseNotAcquired(w)
    BY <1>3 DEF LeaseNotAcquired
  <1> QED
    BY <1>1, <1>2, <1>3 DEF Fetch

LEMMA DispatchingCommands ==
    ASSUME TypeInv, Dispatching
    PROVE  \/ UNCHANGED runs
           \/ \E m \in Mission : Others(m) /\ CommandStep(m)
  <1>1. hints \subseteq Hint /\ publishing \subseteq Message
    BY DEF TypeInv, TypeOK
  <1>2. ASSUME NEW h \in hints, ClaimDispatch(h)
        PROVE  \E m \in Mission : Others(m) /\ CommandStep(m)
    <2>1. h.mission \in Mission
      BY <1>1 DEF Hint
    <2> QED
      BY <1>2, <2>1, QuietCommands DEF ClaimDispatch, Reserve
  <1>3. ASSUME NEW msg \in publishing, NEW sent \in BOOLEAN, PublishFails(msg, sent)
        PROVE  \E m \in Mission : Others(m) /\ CommandStep(m)
    <2>1. msg.mission \in Mission
      BY <1>1 DEF Message
    <2> QED
      BY <1>3, <2>1, QuietCommands DEF PublishFails, ReleaseClaim
  <1> QED
    BY <1>2, <1>3 DEF Dispatching, DropHint, Publish, PublisherDies, LoseMessage

LEMMA ElsewhereCommands ==
    ASSUME TypeInv, NEW m \in Mission, Elsewhere(m)
    PROVE  Others(m) /\ CommandStep(m)
  <1> DEFINE r == runs[m]
  <1>1. r \in MissionRun /\ runs \in [Mission -> MissionRun]
    BY DEF TypeInv, TypeOK
  <1>2. ASSUME NEW q, runs' = [runs EXCEPT ![m] = q]
        PROVE  runs'[m] = q /\ Others(m)
    BY <1>1, <1>2 DEF Others
  <1>3. ASSUME NEW s \in {"planning", "waiting"}, Admit(m, s)
        PROVE  Others(m) /\ Kept(m)
    <2> DEFINE q == [r EXCEPT !.status = s,
                       !.next_wakeup = IF s = "planning" THEN "due" ELSE "none"]
    <2>1. runs'[m] = q /\ Others(m)
      BY <1>1, <1>2, <1>3 DEF Admit
    <2>2. q.status = s /\ SameCommands(r, q)
      BY <1>1 DEF MissionRun, SameCommands
    <2>3. Live(m) /\ s # "completed"
      BY <1>3 DEF Admit, Live, Terminal
    <2> HIDE DEF q
    <2> QED
      BY <2>1, <2>2, <2>3 DEF Kept
  <1>4. ASSUME NEW type \in CommandType, AppendCommand(m, type)
        PROVE  Others(m) /\ Arrived(m)
    <2> DEFINE q == [r EXCEPT !.commands = Append(@, type), !.next_wakeup = "due"]
    <2>1. runs'[m] = q /\ Others(m)
      BY <1>1, <1>2, <1>4 DEF AppendCommand, Input
    <2>2. /\ q.status = r.status
          /\ q.commands = Append(r.commands, type)
          /\ q.last_applied = r.last_applied
          /\ q.pending_control = r.pending_control
      BY <1>1 DEF MissionRun
    <2>3. Live(m) /\ type \in {"steer", "mode", "pause", "cancel"}
      BY <1>4, WriterAssumption DEF AppendCommand
    <2> HIDE DEF q
    <2> QED
      BY <2>1, <2>2, <2>3 DEF Arrived
  <1>5. CASE ChangeModeAfterEnd(m)
    <2> DEFINE q == [r EXCEPT !.commands = Append(@, "mode"), !.last_applied = @ + 1]
    <2>1. runs'[m] = q /\ Others(m)
      BY <1>1, <1>2, <1>5 DEF ChangeModeAfterEnd, Input
    <2>2. /\ q.status = r.status
          /\ q.commands = Append(r.commands, "mode")
          /\ q.last_applied = r.last_applied + 1
          /\ q.pending_control = r.pending_control
      BY <1>1 DEF MissionRun
    <2>3. ~Live(m) /\ ~Unapplied(m)
      BY <1>5 DEF ChangeModeAfterEnd
    <2> HIDE DEF q
    <2> QED
      BY <2>1, <2>2, <2>3 DEF CommandStep, Arrived
  <1>6. ASSUME NEW k \in {"none", "due"}, NEW s \in {"planning", "waiting"},
               NEW t \in {r, Transition(r, s)}, NEW awake,
               Input(m, [t EXCEPT !.next_wakeup = k], awake), Live(m)
        PROVE  Others(m) /\ Kept(m)
    <2> DEFINE q == [t EXCEPT !.next_wakeup = k]
    <2>1. s \in Status /\ s # "completed"
      BY DEF Status
    <2>2. /\ t \in MissionRun /\ SameCommands(r, t)
          /\ t.status = r.status \/ t.status = s
      <3>1. CASE t = r
        BY <1>1, <3>1 DEF SameCommands
      <3>2. CASE t = Transition(r, s)
        BY <1>1, <2>1, <3>2, TransitionType, TransitionRow DEF SameCommands
      <3> QED
        BY <3>1, <3>2
    <2>3. q.status = t.status /\ SameCommands(t, q)
      BY <2>2 DEF MissionRun, SameCommands
    <2>4. runs'[m] = q /\ Others(m)
      BY <1>1, <1>2, <1>6 DEF Input
    <2> HIDE DEF q
    <2> QED
      BY <1>6, <2>1, <2>2, <2>3, <2>4 DEF Kept, SameCommands
  <1>7. CASE Resume(m)
    BY <1>6, <1>7 DEF Resume, Live, Terminal, CommandStep
  <1>8. CASE ExpireReservation(m)
    <2> DEFINE t == IF r.status = "waiting" THEN r ELSE Transition(r, "waiting")
    <2>1. t \in {r, Transition(r, "waiting")} /\ Live(m)
      BY <1>8 DEF ExpireReservation, Live, Terminal
    <2>2. Input(m, [t EXCEPT !.next_wakeup = "none"], FALSE)
      BY <1>8 DEF ExpireReservation
    <2> HIDE DEF t
    <2> QED
      BY <1>6, <2>1, <2>2 DEF CommandStep
  <1>9. ASSUME NEW resolves \in BOOLEAN, ReviewSettled(m, resolves)
        PROVE  Others(m) /\ Kept(m)
    <2> DEFINE t == IF resolves /\ r.status = "waiting"
                      THEN Transition(r, "planning") ELSE r
    <2>1. t \in {r, Transition(r, "planning")} /\ Live(m)
      BY <1>9 DEF ReviewSettled
    <2>2. Input(m, [t EXCEPT !.next_wakeup = "due"], TRUE)
      BY <1>9 DEF ReviewSettled
    <2> HIDE DEF t
    <2> QED
      BY <1>6, <2>1, <2>2
  <1>10. CASE Reconcile(m)
    BY <1>10, QuietCommands DEF Reconcile, Reserve
  <1>11. CASE WakeupFallsDue(m) \/ LeaseExpires(m) \/ DispatchExpires(m)
    BY <1>11, QuietCommands DEF WakeupFallsDue, LeaseExpires, DispatchExpires
  <1> QED
    BY <1>3, <1>4, <1>5, <1>7, <1>8, <1>9, <1>10, <1>11 DEF Elsewhere, CommandStep

LEMMA EveryCommandStep ==
    ASSUME TypeInv, [Next]_vars, NEW m \in Mission
    PROVE  runs'[m] = runs[m] \/ CommandStep(m)
  <1>1. ASSUME NEW w \in Worker, NEW redelivered \in BOOLEAN, Crash(w, redelivered)
        PROVE  UNCHANGED runs
    BY <1>1 DEF Crash
  <1>2. \/ UNCHANGED runs
        \/ \E k \in Mission : Others(k) /\ CommandStep(k)
    BY <1>1, SliceCommands, FetchCommands, DispatchingCommands, ElsewhereCommands
    DEF Next, vars
  <1> QED
    BY <1>2 DEF Others

\* The cursor stays within the commands; a cancel behind the cursor of a live
\* Mission is remembered, and more is left to apply.
CommandInv ==
    \A m \in Mission :
        LET r == runs[m] IN
        /\ r.last_applied <= Len(r.commands)
        /\ /\ Live(m)
           /\ \E i \in 1 .. r.last_applied : r.commands[i] = "cancel"
           => r.pending_control = "cancel" /\ r.last_applied < Len(r.commands)
        /\ r.status = "completed" => r.last_applied = Len(r.commands)

LEMMA CommandInvStep ==
    ASSUME TypeInv, CommandInv, [Next]_vars
    PROVE  CommandInv'
  <1> SUFFICES ASSUME NEW m \in Mission
               PROVE  LET q == runs'[m] IN
                      /\ q.last_applied <= Len(q.commands)
                      /\ /\ q.status \notin Terminal
                         /\ \E i \in 1 .. q.last_applied : q.commands[i] = "cancel"
                         => /\ q.pending_control = "cancel"
                            /\ q.last_applied < Len(q.commands)
                      /\ q.status = "completed" => q.last_applied = Len(q.commands)
    BY DEF CommandInv, Live
  <1> DEFINE r == runs[m]
             q == runs'[m]
  <1>1. /\ r.commands \in Seq({"steer", "mode", "pause", "cancel"})
        /\ r.last_applied \in Nat
        /\ r.last_applied <= Len(r.commands)
        /\ /\ r.status \notin Terminal
           /\ \E i \in 1 .. r.last_applied : r.commands[i] = "cancel"
           => r.pending_control = "cancel" /\ r.last_applied < Len(r.commands)
        /\ r.status = "completed" => r.last_applied = Len(r.commands)
    BY DEF CommandInv, Live, TypeInv, TypeOK, MissionRun
  <1>2. /\ q.commands \in Seq({"steer", "mode", "pause", "cancel"})
        /\ q.last_applied \in Nat
    BY TypeStep DEF TypeInv, TypeOK, MissionRun
  <1>3. Len(r.commands) \in Nat /\ Len(q.commands) \in Nat
    BY <1>1, <1>2, LenProperties
  <1> HIDE DEF r, q
  <1>4. CASE r = q
    BY <1>1, <1>4 DEF q
  <1>5. CASE Kept(m)
    <2>1. /\ q.commands = r.commands /\ q.last_applied = r.last_applied
          /\ q.pending_control = r.pending_control
          /\ q.status \notin Terminal => r.status \notin Terminal
          /\ q.status = "completed" =>
                 r.status = "completed" \/ ~(r.last_applied < Len(r.commands))
      BY <1>5 DEF Kept, SameCommands, Live, Unapplied, r, q
    <2> QED
      BY <1>1, <1>3, <2>1 DEF q
  <1>6. CASE Arrived(m)
    <2>1. PICK type \in {"steer", "mode", "pause", "cancel"} :
              q.commands = Append(r.commands, type)
      BY <1>6 DEF Arrived, r, q
    <2>2. /\ Len(q.commands) = Len(r.commands) + 1
          /\ \A i \in 1 .. Len(r.commands) : q.commands[i] = r.commands[i]
      BY <1>1, <2>1, AppendProperties
    <2>3. /\ q.status = r.status /\ q.pending_control = r.pending_control
          /\ \/ r.status \notin Terminal /\ q.last_applied = r.last_applied
             \/ /\ r.status \in Terminal
                /\ ~(r.last_applied < Len(r.commands))
                /\ q.last_applied = r.last_applied + 1
      BY <1>6 DEF Arrived, Live, Unapplied, r, q
    <2>4. "completed" \in Terminal
      BY DEF Terminal
    <2>5. CASE r.status \notin Terminal /\ q.last_applied = r.last_applied
      BY <1>1, <1>3, <2>2, <2>3, <2>4, <2>5 DEF q
    <2>6. CASE /\ r.status \in Terminal
               /\ ~(r.last_applied < Len(r.commands))
               /\ q.last_applied = r.last_applied + 1
      BY <1>1, <1>3, <2>2, <2>3, <2>6 DEF q
    <2> QED
      BY <2>3, <2>5, <2>6
  <1>7. CASE Paged(m)
    <2>1. /\ r.status \notin Terminal
          /\ q.status # "completed"
          /\ q.commands = r.commands
          /\ r.last_applied < q.last_applied /\ q.last_applied <= Len(r.commands)
          /\ (\/ r.pending_control = "cancel"
              \/ \E i \in (r.last_applied + 1) .. q.last_applied :
                     r.commands[i] = "cancel")
             => \/ q.status \in Terminal
                \/ /\ q.pending_control = "cancel"
                   /\ q.last_applied < Len(r.commands)
      BY <1>7 DEF Paged, Live, r, q
    <2>2. ASSUME q.status \notin Terminal,
                 NEW i \in 1 .. q.last_applied, r.commands[i] = "cancel"
          PROVE  q.pending_control = "cancel" /\ q.last_applied < Len(r.commands)
      <3>1. CASE i \in 1 .. r.last_applied
        BY <1>1, <2>1, <2>2, <3>1
      <3>2. CASE i \in (r.last_applied + 1) .. q.last_applied
        BY <2>1, <2>2, <3>2
      <3> QED
        BY <1>1, <1>2, <3>1, <3>2
    <2> QED
      BY <2>1, <2>2 DEF q
  <1> QED
    BY <1>4, <1>5, <1>6, <1>7, EveryCommandStep DEF CommandStep, r, q

LEMMA CommandsAlways == Spec => [](TypeInv /\ CommandInv)
  <1>1. Init => TypeInv /\ CommandInv
    BY InitType DEF Init, NewRun, CommandInv
  <1>2. TypeInv /\ CommandInv /\ [Next]_vars => (TypeInv /\ CommandInv)'
    BY TypeStep, CommandInvStep
  <1> QED
    BY <1>1, <1>2, PTL DEF Spec

LEMMA CommandTypes ==
    ASSUME TypeInv, NEW m \in Mission
    PROVE  runs[m].last_applied \in Nat /\ Len(runs[m].commands) \in Nat
  BY LenProperties DEF TypeInv, TypeOK, MissionRun

\* Nothing the user said is passed over by a completion: whenever the command
\* came, and however many writers raced, a completed Mission has applied every
\* command it was sent (_handle_decision behind the boundary).
THEOREM NothingIsPassedOver == Spec => []CompletionIsDrained
  <1>1. TypeInv /\ CommandInv => CompletionIsDrained
    BY CommandTypes DEF CommandInv, CompletionIsDrained, Unapplied
  <1> QED
    BY <1>1, CommandsAlways, PTL

\* A cancel is not lost between pages, crashes and later commands, for any
\* page limit and any number of commands (apply_commands_and_advance_cursor).
THEOREM NoCancelIsLost == Spec => []CancelIsKept
  <1>1. TypeInv /\ CommandInv => CancelIsKept
    <2> SUFFICES ASSUME TypeInv, CommandInv, NEW m \in Mission,
                        NEW i \in 1 .. Len(runs[m].commands),
                        runs[m].commands[i] = "cancel", ~Unapplied(m), Live(m)
                 PROVE  FALSE
      BY DEF CancelIsKept
    <2>1. i \in 1 .. runs[m].last_applied
      BY CommandTypes DEF Unapplied
    <2> QED
      BY <2>1, CommandTypes DEF CommandInv, Unapplied
  <1> QED
    BY <1>1, CommandsAlways, PTL

-----------------------------------------------------------------------------
(* The fences implement the slot of a workspace.                           *)

\* A lease consumes its generation, and none is reserved while it is active.
LeaseOrDispatch == \A m \in Mission : LeaseActive(m) => ~DispatchActive(m)

LEMMA LeaseOrDispatchStep ==
    ASSUME ~SlowCommits, TypeInv, LeaseOrDispatch, [Next]_vars
    PROVE  LeaseOrDispatch'
  <1> SUFFICES ASSUME NEW m \in Mission, LeaseActive(m)'
               PROVE  ~DispatchActive(m)'
    BY DEF LeaseOrDispatch
  <1>1. LeaseActive(m) => ~DispatchActive(m)
    BY DEF LeaseOrDispatch
  <1>2. CASE runs'[m] = runs[m]
    BY <1>1, <1>2 DEF LeaseActive, DispatchActive
  <1>3. CASE Reserved(m)
    BY <1>3 DEF Reserved, SlotTaken, LeaseActive, SameLease
  <1>4. CASE Claimed(m)
    BY <1>4 DEF Claimed, DispatchActive
  <1>5. CASE Driven(m) \/ Ended(m) \/ Prompted(m) \/ Lapsed(m)
    <2>1. LeaseActive(m)
      BY <1>5, NoneAssumption
      DEF LeaseActive, Driven, Ended, Prompted, Lapsed, SameLease
    <2>2. ~DispatchActive(m)
      BY <1>1, <2>1
    <2> QED
      BY <1>5, <2>2
      DEF DispatchActive, Driven, Ended, Prompted, Lapsed, SameDispatch
  <1> QED
    BY <1>2, <1>3, <1>4, <1>5, EveryRowStep DEF Others, RowStep

\* Who has the slot, before a step and after it.
LEMMA HolderNow ==
    ASSUME OneSlotPerWorkspace, NEW m \in Mission, SlotTaken(m)
    PROVE  SlotHolder(WorkspaceOf[m]) = m
  BY DEF SlotHolder, OneSlotPerWorkspace

LEMMA HolderThen ==
    ASSUME OneSlotPerWorkspace', NEW m \in Mission, SlotTaken(m)'
    PROVE  SlotHolder(WorkspaceOf[m])' = m
  BY DEF SlotHolder, OneSlotPerWorkspace

LEMMA NobodyNow ==
    ASSUME NEW ws, \A m \in Mission : WorkspaceOf[m] = ws => ~SlotTaken(m)
    PROVE  SlotHolder(ws) = None
  BY DEF SlotHolder

LEMMA NobodyThen ==
    ASSUME NEW ws, \A m \in Mission : WorkspaceOf[m] = ws => ~SlotTaken(m)'
    PROVE  SlotHolder(ws)' = None
  BY DEF SlotHolder

LEMMA HolderStays ==
    ASSUME OneSlotPerWorkspace, OneSlotPerWorkspace', NEW ws,
           \A m \in Mission :
               WorkspaceOf[m] = ws => (SlotTaken(m)' <=> SlotTaken(m))
    PROVE  SlotHolder(ws)' = SlotHolder(ws)
  <1>1. CASE \E m \in Mission : WorkspaceOf[m] = ws /\ SlotTaken(m)
    BY <1>1, HolderNow, HolderThen
  <1>2. CASE \A m \in Mission : WorkspaceOf[m] = ws => ~SlotTaken(m)
    BY <1>2, NobodyNow, NobodyThen
  <1> QED
    BY <1>1, <1>2

\* What a step of the row of k does to the four variables of the slot.
LEMMA SlotOfRow ==
    ASSUME TypeInv, OneSlotPerWorkspace, OneSlotPerWorkspace',
           NEW k \in Mission, Others(k)
    PROVE  LET holder == [ws \in Workspace |-> SlotHolder(ws)]
               begun == [m \in Mission |-> LeaseActive(m)]
               term == [m \in Mission |-> runs[m].lease_epoch]
               written == [m \in Mission |-> runs[m].writer_epoch]
           IN
           /\ (SlotTaken(k)' <=> SlotTaken(k)) => holder' = holder
           /\ SlotTaken(k)' => holder' = [holder EXCEPT ![WorkspaceOf[k]] = k]
           /\ SlotTaken(k) /\ ~SlotTaken(k)' =>
                  holder' = [holder EXCEPT ![WorkspaceOf[k]] = None]
           /\ SlotTaken(k) => holder[WorkspaceOf[k]] = k
           /\ ~SlotTaken(k) /\ SlotTaken(k)' => holder[WorkspaceOf[k]] = None
           /\ begun' = [begun EXCEPT ![k] = LeaseActive(k)']
           /\ (LeaseActive(k)' <=> LeaseActive(k)) => begun' = begun
           /\ term' = [term EXCEPT ![k] = runs'[k].lease_epoch]
           /\ runs'[k].lease_epoch = runs[k].lease_epoch => term' = term
           /\ written' = [written EXCEPT ![k] = runs'[k].writer_epoch]
           /\ runs'[k].writer_epoch = runs[k].writer_epoch => written' = written
  <1> DEFINE holder == [ws \in Workspace |-> SlotHolder(ws)]
             begun == [m \in Mission |-> LeaseActive(m)]
             term == [m \in Mission |-> runs[m].lease_epoch]
             written == [m \in Mission |-> runs[m].writer_epoch]
  <1>1. \A n \in Mission \ {k} :
            /\ SlotTaken(n)' <=> SlotTaken(n)
            /\ LeaseActive(n)' <=> LeaseActive(n)
            /\ runs'[n].lease_epoch = runs[n].lease_epoch
            /\ runs'[n].writer_epoch = runs[n].writer_epoch
    BY DEF Others, SlotTaken, LeaseActive, DispatchActive
  <1>2. WorkspaceOf[k] \in Workspace
    BY WorkspaceAssumption
  <1>3. \A ws \in Workspace \ {WorkspaceOf[k]} : SlotHolder(ws)' = SlotHolder(ws)
    <2> SUFFICES ASSUME NEW ws \in Workspace \ {WorkspaceOf[k]}
                 PROVE  SlotHolder(ws)' = SlotHolder(ws)
      OBVIOUS
    <2>1. \A m \in Mission :
              WorkspaceOf[m] = ws => (SlotTaken(m)' <=> SlotTaken(m))
      BY <1>1
    <2> QED
      BY <2>1, HolderStays
  <1>4. (SlotTaken(k)' <=> SlotTaken(k)) =>
            SlotHolder(WorkspaceOf[k])' = SlotHolder(WorkspaceOf[k])
    BY <1>1, HolderStays
  <1>5. SlotTaken(k)' => SlotHolder(WorkspaceOf[k])' = k
    BY HolderThen
  <1>6. SlotTaken(k) /\ ~SlotTaken(k)' => SlotHolder(WorkspaceOf[k])' = None
    <2>1. SlotTaken(k) /\ ~SlotTaken(k)' =>
              \A m \in Mission : WorkspaceOf[m] = WorkspaceOf[k] => ~SlotTaken(m)'
      BY <1>1 DEF OneSlotPerWorkspace
    <2> QED
      BY <2>1, NobodyThen
  <1>7. SlotTaken(k) => SlotHolder(WorkspaceOf[k]) = k
    BY HolderNow
  <1>8. ~SlotTaken(k) /\ SlotTaken(k)' => SlotHolder(WorkspaceOf[k]) = None
    <2>1. ~SlotTaken(k) /\ SlotTaken(k)' =>
              \A m \in Mission : WorkspaceOf[m] = WorkspaceOf[k] => ~SlotTaken(m)
      BY <1>1 DEF OneSlotPerWorkspace
    <2> QED
      BY <2>1, NobodyNow
  <1>9. /\ (SlotTaken(k)' <=> SlotTaken(k)) => holder' = holder
        /\ SlotTaken(k)' => holder' = [holder EXCEPT ![WorkspaceOf[k]] = k]
        /\ SlotTaken(k) /\ ~SlotTaken(k)' =>
               holder' = [holder EXCEPT ![WorkspaceOf[k]] = None]
        /\ SlotTaken(k) => holder[WorkspaceOf[k]] = k
        /\ ~SlotTaken(k) /\ SlotTaken(k)' => holder[WorkspaceOf[k]] = None
    BY <1>2, <1>3, <1>4, <1>5, <1>6, <1>7, <1>8
  <1>10. /\ begun' = [begun EXCEPT ![k] = LeaseActive(k)']
         /\ (LeaseActive(k)' <=> LeaseActive(k)) => begun' = begun
    <2>1. \A n \in Mission \ {k} : LeaseActive(n)' = LeaseActive(n)
      BY <1>1, TypeStep DEF LeaseActive, Others
    <2>2. (LeaseActive(k)' <=> LeaseActive(k)) => LeaseActive(k)' = LeaseActive(k)
      BY DEF LeaseActive
    <2> QED
      BY <2>1, <2>2
  <1>11. /\ term' = [term EXCEPT ![k] = runs'[k].lease_epoch]
         /\ runs'[k].lease_epoch = runs[k].lease_epoch => term' = term
         /\ written' = [written EXCEPT ![k] = runs'[k].writer_epoch]
         /\ runs'[k].writer_epoch = runs[k].writer_epoch => written' = written
    BY <1>1
  <1> QED
    BY <1>9, <1>10, <1>11

LEMMA SlotStep ==
    ASSUME ~SlowCommits, TypeInv, OneSlotPerWorkspace, OneSlotPerWorkspace',
           LeaseOrDispatch, [Next]_vars
    PROVE  [Slot!Next]_(Slot!vars)
  <1>1. CASE UNCHANGED runs
    <2>1. /\ \A ws \in Workspace : SlotHolder(ws)' = SlotHolder(ws)
          /\ \A m \in Mission : LeaseActive(m)' = LeaseActive(m)
      BY <1>1 DEF SlotHolder, SlotTaken, LeaseActive, DispatchActive
    <2> QED
      BY <1>1, <2>1 DEF Slot!vars
  <1>2. ASSUME NEW k \in Mission, Others(k), RowStep(k)
        PROVE  [Slot!Next]_(Slot!vars)
    <2> DEFINE r == runs[k]
               q == runs'[k]
               holder == [ws \in Workspace |-> SlotHolder(ws)]
               begun == [m \in Mission |-> LeaseActive(m)]
               term == [m \in Mission |-> runs[m].lease_epoch]
               written == [m \in Mission |-> runs[m].writer_epoch]
    <2>1. /\ (SlotTaken(k)' <=> SlotTaken(k)) => holder' = holder
          /\ SlotTaken(k)' => holder' = [holder EXCEPT ![WorkspaceOf[k]] = k]
          /\ SlotTaken(k) /\ ~SlotTaken(k)' =>
                 holder' = [holder EXCEPT ![WorkspaceOf[k]] = None]
          /\ SlotTaken(k) => holder[WorkspaceOf[k]] = k
          /\ ~SlotTaken(k) /\ SlotTaken(k)' => holder[WorkspaceOf[k]] = None
          /\ begun' = [begun EXCEPT ![k] = LeaseActive(k)']
          /\ (LeaseActive(k)' <=> LeaseActive(k)) => begun' = begun
          /\ term' = [term EXCEPT ![k] = q.lease_epoch]
          /\ q.lease_epoch = r.lease_epoch => term' = term
          /\ written' = [written EXCEPT ![k] = q.writer_epoch]
          /\ q.writer_epoch = r.writer_epoch => written' = written
      BY <1>2, SlotOfRow
    <2>2. /\ begun[k] <=> LeaseActive(k)
          /\ term[k] = r.lease_epoch
      OBVIOUS
    <2>3. LeaseActive(k) => ~DispatchActive(k)
      BY DEF LeaseOrDispatch
    <2>4. /\ ~SlotTaken(k) => ~LeaseActive(k)
          /\ LeaseActive(k)' => SlotTaken(k)'
      BY DEF SlotTaken
    <2>5. ASSUME ~SlotTaken(k), SlotTaken(k)', ~LeaseActive(k)',
                 q.lease_epoch = r.lease_epoch, SameWriter(r, q)
          PROVE  Slot!Take(k)
      BY <2>1, <2>4, <2>5 DEF Slot!Take, SameWriter
    <2>6. ASSUME SlotTaken(k), ~LeaseActive(k), LeaseActive(k)',
                 q.lease_epoch = r.lease_epoch + 1, SameWriter(r, q)
          PROVE  Slot!Begin(k)
      <3>1. LeaseActive(k)' = TRUE
        BY <2>6, EpochTypes, TypeStep DEF LeaseActive
      <3> QED
        BY <2>1, <2>2, <2>4, <2>6, <3>1 DEF Slot!Begin, Slot!Holds, SameWriter
    <2>7. ASSUME SlotTaken(k), ~SlotTaken(k)',
                 q.lease_epoch = r.lease_epoch,
                 SameWriter(r, q) \/ (LeaseActive(k) /\ WrittenByHolder(r, q))
          PROVE  Slot!Leave(k) \/ Slot!Write(k)
      <3>1. LeaseActive(k)' = FALSE
        BY <2>4, <2>7, TypeStep DEF LeaseActive
      <3> QED
        BY <2>1, <2>2, <2>7, <3>1
        DEF Slot!Leave, Slot!Write, Slot!Holds, SameWriter, WrittenByHolder
    <2>8. ASSUME SlotTaken(k)' <=> SlotTaken(k),
                 LeaseActive(k)' <=> LeaseActive(k),
                 q.lease_epoch = r.lease_epoch,
                 SameWriter(r, q) \/ (LeaseActive(k) /\ WrittenByHolder(r, q))
          PROVE  Slot!Write(k) \/ UNCHANGED Slot!vars
      BY <2>1, <2>2, <2>4, <2>8
      DEF Slot!Write, Slot!Holds, Slot!vars, SameWriter, WrittenByHolder
    <2> HIDE DEF holder, begun, term, written
    <2>9. CASE Reserved(k)
      <3>1. /\ ~SlotTaken(k) /\ ~LeaseActive(k)
            /\ SlotTaken(k)' /\ ~LeaseActive(k)'
        BY <2>9 DEF Reserved, SlotTaken, LeaseActive, DispatchActive, SameLease
      <3> QED
        BY <2>5, <2>9, <3>1 DEF Reserved, SameLease, Slot!Next
    <2>10. CASE Claimed(k)
      <3>1. SlotTaken(k) /\ ~LeaseActive(k) /\ LeaseActive(k)'
        BY <2>10 DEF Claimed, SlotTaken, LeaseActive
      <3> QED
        BY <2>6, <2>10, <3>1 DEF Claimed, Slot!Next
    <2>11. CASE Driven(k)
      <3>1. /\ SlotTaken(k)' <=> SlotTaken(k)
            /\ LeaseActive(k)' <=> LeaseActive(k)
            /\ q.lease_epoch = r.lease_epoch
            /\ SameWriter(r, q) \/ (LeaseActive(k) /\ WrittenByHolder(r, q))
        BY <2>11
        DEF Driven, SlotTaken, LeaseActive, DispatchActive, SameDispatch,
            WrittenByHolder
      <3> QED
        BY <2>8, <3>1 DEF Slot!Next
    <2>12. CASE Ended(k)
      <3>1. /\ q.lease_epoch = r.lease_epoch
            /\ ~LeaseActive(k)'
            /\ SlotTaken(k)' => DispatchActive(k) /\ ~LeaseActive(k)
            /\ SameWriter(r, q) \/ (LeaseActive(k) /\ WrittenByHolder(r, q))
        BY <2>3, <2>12
        DEF Ended, SlotTaken, LeaseActive, DispatchActive, WrittenByHolder
      <3>2. CASE SlotTaken(k) /\ ~SlotTaken(k)'
        BY <2>7, <3>1, <3>2 DEF Slot!Next
      <3>3. CASE ~(SlotTaken(k) /\ ~SlotTaken(k)')
        <4>1. /\ SlotTaken(k)' <=> SlotTaken(k)
              /\ LeaseActive(k)' <=> LeaseActive(k)
          BY <3>1, <3>3 DEF SlotTaken
        <4> QED
          BY <2>8, <3>1, <4>1 DEF Slot!Next
      <3> QED
        BY <3>2, <3>3
    <2>13. CASE Prompted(k)
      <3>1. /\ SlotTaken(k)' <=> SlotTaken(k)
            /\ LeaseActive(k)' <=> LeaseActive(k)
            /\ q.lease_epoch = r.lease_epoch
            /\ SameWriter(r, q)
        BY <2>13
        DEF Prompted, SlotTaken, LeaseActive, DispatchActive, SameLease, SameDispatch
      <3> QED
        BY <2>8, <3>1 DEF Slot!Next
    <2>14. CASE Lapsed(k)
      <3>1. /\ q.lease_epoch = r.lease_epoch
            /\ LeaseActive(k)' => LeaseActive(k)
            /\ DispatchActive(k)' => DispatchActive(k)
            /\ SameWriter(r, q)
        BY <2>14 DEF Lapsed, LeaseActive, DispatchActive
      <3>2. CASE SlotTaken(k) /\ ~SlotTaken(k)'
        BY <2>7, <3>1, <3>2 DEF Slot!Next
      <3>3. CASE ~(SlotTaken(k) /\ ~SlotTaken(k)')
        <4>1. /\ SlotTaken(k)' <=> SlotTaken(k)
              /\ LeaseActive(k)' <=> LeaseActive(k)
          BY <2>3, <3>1, <3>3 DEF SlotTaken
        <4> QED
          BY <2>8, <3>1, <4>1 DEF Slot!Next
      <3> QED
        BY <3>2, <3>3
    <2> QED
      BY <1>2, <2>9, <2>10, <2>11, <2>12, <2>13, <2>14 DEF RowStep
  <1> QED
    BY <1>1, <1>2, EveryRowStep

\* Every write of a driver happens in the current term of the Mission that has
\* the slot of its workspace, for any number of Missions, workspaces, workers
\* and faults: the dispatch generations and leases of mission_runs refine the
\* slot, as long as transactions commit before their instants are over.
THEOREM FencesImplementSlot ==
    ASSUME ~SlowCommits
    PROVE  Spec => ImplementsSlot
  <1> DEFINE IInv == TypeInv /\ LeaseOrDispatch
  <1>1. Init => IInv /\ Slot!Init
    <2> SUFFICES ASSUME Init
                 PROVE  IInv /\ Slot!Init
      OBVIOUS
    <2>1. \A m \in Mission : /\ ~LeaseActive(m) /\ ~SlotTaken(m)
                             /\ runs[m].lease_epoch = 0
                             /\ runs[m].writer_epoch = 0
      BY DEF Init, NewRun, LeaseActive, SlotTaken, DispatchActive
    <2>2. \A ws \in Workspace : SlotHolder(ws) = None
      BY <2>1, NobodyNow
    <2>3. \A m \in Mission : LeaseActive(m) = FALSE
      BY <2>1 DEF LeaseActive
    <2> QED
      BY <2>1, <2>2, <2>3, InitType DEF Slot!Init, LeaseOrDispatch
  <1>2. IInv /\ [Next]_vars => IInv'
    BY TypeStep, LeaseOrDispatchStep
  <1>3. /\ IInv /\ OneSlotPerWorkspace /\ OneSlotPerWorkspace'
        /\ [Next]_vars
        => [Slot!Next]_(Slot!vars)
    BY SlotStep
  <1>4. Spec => []OneSlotPerWorkspace
    BY SlotIsExclusive
  <1> QED
    BY <1>1, <1>2, <1>3, <1>4, PTL DEF Spec, ImplementsSlot, Slot!Spec

=============================================================================
