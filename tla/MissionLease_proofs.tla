------------------------ MODULE MissionLease_proofs -------------------------
(***************************************************************************)
(* Theorems about MissionLease: its types and its fences, whatever the     *)
(* interleaving, the crashes and the messages, for any number of Missions  *)
(* and workers.                                                            *)
(*                                                                         *)
(* Every action changes at most one row, in one of six ways (RowStep).     *)
(* The invariants of the fences follow from that lemma, not from the       *)
(* actions.                                                                *)
(***************************************************************************)
EXTENDS MissionLease, SequenceTheorems, TLAPS

-----------------------------------------------------------------------------
(* What the helpers return.                                                *)

LEMMA TouchedType ==
    ASSUME driver \in [Worker -> Driver], NEW m \in Mission
    PROVE  /\ Touched(m) \in [Worker -> Driver]
           /\ \A w \in Worker : /\ Touched(m)[w].pc = driver[w].pc
                                /\ Touched(m)[w].mission = driver[w].mission
                                /\ Touched(m)[w].dispatch = driver[w].dispatch
                                /\ Touched(m)[w].epoch = driver[w].epoch
  BY DEF Touched, Driver

LEMMA TransitionType ==
    ASSUME NEW r \in MissionRun, NEW s \in Status
    PROVE  Transition(r, s) \in MissionRun
  BY DEF Transition, MissionRun, Status, Terminal

LEMMA TurnType ==
    ASSUME due_before \subseteq Mission \X Mission, NEW m \in Mission
    PROVE  /\ LeaveTurn(m) \subseteq Mission \X Mission
           /\ JoinTurn(m) \subseteq Mission \X Mission
           /\ WakeNow(m) \subseteq Mission \X Mission
  BY DEF LeaveTurn, JoinTurn, WakeNow, Peers

LEMMA DriverType ==
    ASSUME NEW d \in [Worker -> Driver], NEW w \in Worker,
           NEW next \in Fetched \cup Driving
    PROVE  /\ [d EXCEPT ![w].pc = next, ![w].fresh = TRUE] \in [Worker -> Driver]
           /\ [d EXCEPT ![w].pc = next] \in [Worker -> Driver]
           /\ [d EXCEPT ![w].fresh = TRUE] \in [Worker -> Driver]
           /\ [d EXCEPT ![w] = NoDelivery] \in [Worker -> Driver]
  BY DEF Driver, NoDelivery

-----------------------------------------------------------------------------
(* Type correctness.                                                       *)

\* A worker that is not idle handles a delivery for some Mission.
BusyHasMission ==
    \A w \in Worker : driver[w].pc # Idle => driver[w].mission \in Mission

TypeInv == TypeOK /\ BusyHasMission

LEMMA WriteType ==
    ASSUME TypeInv, NEW w \in Worker, driver[w].pc # Idle,
           NEW r \in MissionRun, NEW next \in {Idle} \cup Driving,
           Write(w, r, next)
    PROVE  TypeInv'
  <1> DEFINE m == driver[w].mission
  <1>1. m \in Mission
    BY DEF TypeInv, BusyHasMission
  <1>2. TypeOK
    BY DEF TypeInv
  <1>3. runs' \in [Mission -> MissionRun]
    <2>1. driver[w].epoch \in Nat
      BY <1>2 DEF TypeOK, Driver
    <2>2. [r EXCEPT !.writer_epoch = driver[w].epoch] \in MissionRun
      BY <2>1 DEF MissionRun
    <2> QED
      BY <1>1, <1>2, <2>2 DEF TypeOK, Write
  <1>4. /\ driver' \in [Worker -> Driver]
        /\ BusyHasMission'
        /\ due_before' \subseteq Mission \X Mission
        /\ queue' \subseteq Message
    <2>1. Touched(m) \in [Worker -> Driver]
      BY <1>1, <1>2, TouchedType DEF TypeOK
    <2>2. \A v \in Worker : /\ Touched(m)[v].pc = driver[v].pc
                            /\ Touched(m)[v].mission = driver[v].mission
      BY <1>1, <1>2, TouchedType DEF TypeOK
    <2>3. CASE next = Idle
      <3>1. driver' = [Touched(m) EXCEPT ![w] = NoDelivery]
        BY <2>3 DEF Write
      <3>2. driver' \in [Worker -> Driver]
        BY <2>1, <3>1 DEF Driver, NoDelivery
      <3>3. BusyHasMission'
        BY <2>1, <2>2, <3>1 DEF TypeInv, BusyHasMission, NoDelivery, Driver
      <3>4. due_before' \subseteq Mission \X Mission
        BY <1>1, <1>2, <2>3, TurnType DEF Write, TypeOK
      <3> QED
        BY <1>2, <2>3, <3>2, <3>3, <3>4 DEF Write, TypeOK, Acknowledged
    <2>4. CASE next # Idle
      <3>1. driver' = [Touched(m) EXCEPT ![w].pc = next, ![w].fresh = TRUE]
        BY <2>4 DEF Write
      <3>2. driver' \in [Worker -> Driver]
        BY <2>1, <2>4, <3>1, DriverType, <1>1
      <3>3. BusyHasMission'
        BY <2>1, <2>2, <3>1, <1>1 DEF TypeInv, BusyHasMission, Driver
      <3> QED
        BY <1>2, <2>4, <3>2, <3>3 DEF Write, TypeOK
    <2> QED
      BY <2>3, <2>4
  <1> QED
    BY <1>2, <1>3, <1>4 DEF TypeInv, TypeOK, Write

LEMMA EndSliceType ==
    ASSUME TypeInv, NEW w \in Worker, driver[w].pc # Idle,
           NEW s \in Status, EndSlice(w, s)
    PROVE  TypeInv'
  <1>1. runs[driver[w].mission] \in MissionRun
    BY DEF TypeInv, TypeOK, BusyHasMission
  <1>2. Transition(runs[driver[w].mission], s) \in MissionRun
    BY <1>1, TransitionType
  <1> QED
    BY <1>2, WriteType DEF EndSlice

\* Steps of w that change its own state, its message and nothing else.
LEMMA LocalStepType ==
    ASSUME TypeInv, NEW w \in Worker, driver[w].pc # Idle,
           NEW d \in [Worker -> Driver],
           \A v \in Worker : /\ d[v].pc = driver[v].pc
                             /\ d[v].mission = driver[v].mission,
           NEW next \in Fetched \cup Driving,
           \/ driver' = [d EXCEPT ![w].pc = next]
           \/ driver' = [d EXCEPT ![w].pc = next, ![w].fresh = TRUE]
           \/ driver' = [d EXCEPT ![w].fresh = TRUE]
           \/ driver' = [d EXCEPT ![w] = NoDelivery]
    PROVE  driver' \in [Worker -> Driver] /\ BusyHasMission'
  <1>1. driver' \in [Worker -> Driver]
    <2>1. /\ [d EXCEPT ![w].pc = next, ![w].fresh = TRUE] \in [Worker -> Driver]
          /\ [d EXCEPT ![w].pc = next] \in [Worker -> Driver]
          /\ [d EXCEPT ![w].fresh = TRUE] \in [Worker -> Driver]
          /\ [d EXCEPT ![w] = NoDelivery] \in [Worker -> Driver]
      BY DriverType
    <2> QED
      BY <2>1
  <1>2. BusyHasMission'
    BY DEF TypeInv, BusyHasMission, NoDelivery, Driver
  <1> QED
    BY <1>1, <1>2

LEMMA FieldTypes ==
    ASSUME NEW r \in MissionRun, NEW n \in Nat,
           NEW c \in {"none", "pause", "cancel"}, NEW b \in BOOLEAN,
           NEW k \in {"closed", "open", "unresolved"}
    PROVE  /\ [r EXCEPT !.last_applied = n, !.pending_control = c] \in MissionRun
           /\ [r EXCEPT !.inflight = b] \in MissionRun
           /\ [r EXCEPT !.call = k] \in MissionRun
           /\ [r EXCEPT !.model_calls = @ + 1, !.call = k] \in MissionRun
  <1>1. /\ r.model_calls \in Nat
        /\ r.model_calls + 1 \in Nat
    BY DEF MissionRun
  <1>2. [r EXCEPT !.last_applied = n, !.pending_control = c] \in MissionRun
    BY DEF MissionRun
  <1>3. /\ [r EXCEPT !.inflight = b] \in MissionRun
        /\ [r EXCEPT !.call = k] \in MissionRun
    BY DEF MissionRun
  <1>4. [r EXCEPT !.model_calls = @ + 1, !.call = k] \in MissionRun
    BY <1>1 DEF MissionRun
  <1> QED
    BY <1>2, <1>3, <1>4

\* A page of commands moves the cursor and the pending control; then one of
\* four writes follows.
Applied(r, n, c) == [r EXCEPT !.last_applied = n, !.pending_control = c]

LEMMA ApplyCommandsWrites ==
    ASSUME TypeInv, NEW w \in Worker, ApplyCommands(w)
    PROVE  /\ driver[w].pc # Idle
           /\ \E n \in Nat, c \in {"none", "pause", "cancel"} :
                LET r == Applied(runs[driver[w].mission], n, c) IN
                \/ Write(w, Transition([r EXCEPT !.inflight = FALSE], "cancelled"),
                         Idle)
                \/ Write(w, Transition(r, "waiting"), Idle)
                \/ Write(w, Transition(r, "planning"), "driving")
                \/ Write(w, r, "driving")
  <1> DEFINE m == driver[w].mission
             r == runs[m]
             through == Least(r.last_applied + PageLimit, Len(r.commands))
             types == {r.commands[i] : i \in (r.last_applied + 1) .. through}
             more == through < Len(r.commands)
             control == Control(r, types)
             kept == IF more THEN control ELSE "none"
  <1>1. driver[w].pc \in {"driving", "decided"} /\ driver[w].pc # Idle
    BY DEF ApplyCommands, Idle
  <1>2. r \in MissionRun
    BY <1>1 DEF TypeInv, TypeOK, BusyHasMission
  <1>3. through \in Nat
    <2>1. r.last_applied \in Nat /\ Len(r.commands) \in Nat /\ PageLimit \in Nat
      <3>1. /\ r.last_applied \in Nat
            /\ r.commands \in Seq({"steer", "mode", "pause", "cancel"})
        BY <1>2 DEF MissionRun
      <3> QED
        BY <3>1, LenProperties, BoundAssumption
    <2> QED
      BY <2>1 DEF Least
  <1>4. kept \in {"none", "pause", "cancel"}
    <2>1. r.pending_control \in {"none", "pause", "cancel"}
      BY <1>2 DEF MissionRun
    <2> QED
      BY <2>1 DEF Control
  <1>5. LET a == Applied(r, through, kept) IN
        \/ Write(w, Transition([a EXCEPT !.inflight = FALSE], "cancelled"), Idle)
        \/ Write(w, Transition(a, "waiting"), Idle)
        \/ Write(w, Transition(a, "planning"), "driving")
        \/ Write(w, a, "driving")
    BY DEF ApplyCommands, Applied
  <1> HIDE DEF r, through, kept
  <1> QED
    BY <1>1, <1>3, <1>4, <1>5 DEF r

LEMMA ApplyCommandsType ==
    ASSUME TypeInv, NEW w \in Worker, ApplyCommands(w)
    PROVE  TypeInv'
  <1>1. driver[w].pc # Idle
    BY ApplyCommandsWrites
  <1>2. PICK n \in Nat, c \in {"none", "pause", "cancel"} :
          LET r == Applied(runs[driver[w].mission], n, c) IN
          \/ Write(w, Transition([r EXCEPT !.inflight = FALSE], "cancelled"), Idle)
          \/ Write(w, Transition(r, "waiting"), Idle)
          \/ Write(w, Transition(r, "planning"), "driving")
          \/ Write(w, r, "driving")
    BY ApplyCommandsWrites
  <1> DEFINE r == Applied(runs[driver[w].mission], n, c)
  <1>3. runs[driver[w].mission] \in MissionRun
    BY <1>1 DEF TypeInv, TypeOK, BusyHasMission
  <1>4. r \in MissionRun
    BY <1>3, FieldTypes DEF Applied
  <1> HIDE DEF r
  <1>5. [r EXCEPT !.inflight = FALSE] \in MissionRun
    BY <1>4, FieldTypes
  <1>6. /\ Transition([r EXCEPT !.inflight = FALSE], "cancelled") \in MissionRun
        /\ Transition(r, "waiting") \in MissionRun
        /\ Transition(r, "planning") \in MissionRun
    BY <1>4, <1>5, TransitionType DEF Status, Terminal
  <1> QED
    BY <1>1, <1>2, <1>4, <1>6, WriteType DEF Driving, r

\* Every step of a slice is a write, the end of the slice, or a step that
\* leaves the row alone.
LEMMA SliceType ==
    ASSUME TypeInv, NEW w \in Worker, Slice(w)
    PROVE  TypeInv'
  <1> DEFINE m == driver[w].mission
  <1>1. driver[w].pc # Idle
    BY DEF Slice, At, Idle, CloseRecoveredCall, FailUnresolvedCall, Advance,
           ApplyCommands, PassBoundary, Heartbeat, LoseLease, Restart,
           DecideToYield, ReleaseLease, StartModelCall, BudgetExhausted,
           ModelCallReturns, ModelCallFails, RecordFailure, Deciding,
           DecideToContinue, DecideToCallPort, DecideToEnd, BeginOperation,
           RecordVerdict, RecoverOperation, FinishOperation, Driving
  <1>2. m \in Mission /\ runs[m] \in MissionRun
    BY <1>1 DEF TypeInv, TypeOK, BusyHasMission
  <1>3. /\ Touched(m) \in [Worker -> Driver]
        /\ \A v \in Worker : /\ Touched(m)[v].pc = driver[v].pc
                             /\ Touched(m)[v].mission = driver[v].mission
    BY <1>2, TouchedType DEF TypeInv, TypeOK
  <1>4. /\ driver \in [Worker -> Driver]
        /\ \A v \in Worker : /\ driver[v].pc = driver[v].pc
                             /\ driver[v].mission = driver[v].mission
    BY DEF TypeInv, TypeOK
  <1>5. ASSUME NEW b \in BOOLEAN, NEW k \in {"closed", "open", "unresolved"}
        PROVE  /\ [runs[m] EXCEPT !.inflight = b] \in MissionRun
               /\ [runs[m] EXCEPT !.call = k] \in MissionRun
               /\ [runs[m] EXCEPT !.model_calls = @ + 1, !.call = k] \in MissionRun
    <2>1. 0 \in Nat /\ "none" \in {"none", "pause", "cancel"}
      OBVIOUS
    <2> QED
      BY <1>2, <2>1, FieldTypes
  <1>6. ASSUME NEW r \in MissionRun, NEW next \in {Idle} \cup Driving,
               Write(w, r, next)
        PROVE  TypeInv'
    BY <1>1, <1>6, WriteType
  <1>7. ASSUME NEW s \in Status, EndSlice(w, s)
        PROVE  TypeInv'
    BY <1>1, <1>7, EndSliceType
  <1>8. ASSUME UNCHANGED <<runs, due_before, publishing, hints, inputs, faults>>,
               queue' \subseteq queue,
               \E next \in Driving :
                   \/ driver' = [driver EXCEPT ![w].pc = next]
                   \/ driver' = [driver EXCEPT ![w].pc = next, ![w].fresh = TRUE]
                   \/ driver' = [driver EXCEPT ![w] = NoDelivery]
        PROVE  TypeInv'
    <2>1. driver' \in [Worker -> Driver] /\ BusyHasMission'
      BY <1>1, <1>4, <1>8, LocalStepType
    <2> QED
      BY <1>8, <2>1 DEF TypeInv, TypeOK
  <1>9. CASE CloseRecoveredCall(w)
    BY <1>5, <1>6, <1>9 DEF CloseRecoveredCall, Driving
  <1>10. CASE FailUnresolvedCall(w)
    <2>1. Transition([runs[m] EXCEPT !.inflight = FALSE], "failed") \in MissionRun
      BY <1>5, TransitionType DEF Status, Terminal
    <2> QED
      BY <1>6, <1>10, <2>1 DEF FailUnresolvedCall
  <1>11. CASE Advance(w)
    <2>1. Transition(runs[m], "running") \in MissionRun
      BY <1>2, TransitionType DEF Status, Terminal
    <2> QED
      BY <1>6, <1>11, <2>1 DEF Advance, Driving
  <1>12. CASE ApplyCommands(w)
    BY <1>12, ApplyCommandsType
  <1>13. CASE PassBoundary(w)
    BY <1>8, <1>13 DEF PassBoundary, Driving
  <1>14. CASE Heartbeat(w)
    <2>1. runs' \in [Mission -> MissionRun]
      BY <1>2, <1>14 DEF Heartbeat, TypeInv, TypeOK, MissionRun
    <2>2. driver' = [Touched(m) EXCEPT ![w].fresh = TRUE]
      BY <1>14 DEF Heartbeat
    <2>3. "driving" \in Fetched \cup Driving
      BY DEF Driving
    <2>4. driver' \in [Worker -> Driver] /\ BusyHasMission'
      BY <1>1, <1>3, <2>2, <2>3, LocalStepType
    <2>5. due_before' \subseteq Mission \X Mission
      BY <1>2, <1>14, TurnType DEF Heartbeat, TypeInv, TypeOK
    <2> QED
      BY <1>14, <2>1, <2>4, <2>5 DEF Heartbeat, TypeInv, TypeOK
  <1>15. CASE LoseLease(w)
    BY <1>8, <1>15 DEF LoseLease, Acknowledged, Driving
  <1>16. CASE Restart(w)
    BY <1>8, <1>16 DEF Restart, Driving
  <1>17. CASE DecideToYield(w)
    BY <1>8, <1>17 DEF DecideToYield, Driving
  <1>18. ASSUME NEW delayed \in BOOLEAN, ReleaseLease(w, delayed)
         PROVE  TypeInv'
    <2>1. runs' \in [Mission -> MissionRun]
      <3>1. driver[w].epoch \in Nat /\ runs[m].yields \in Nat
        BY <1>2, <1>4 DEF Driver, MissionRun
      <3>2. runs[m].yields + 1 \in Nat
        BY <3>1
      <3> QED
        BY <1>2, <1>18, <3>1, <3>2 DEF ReleaseLease, TypeInv, TypeOK, MissionRun
    <2>2. driver' = [Touched(m) EXCEPT ![w] = NoDelivery]
      BY <1>18 DEF ReleaseLease
    <2>3. "driving" \in Fetched \cup Driving
      BY DEF Driving
    <2>4. driver' \in [Worker -> Driver] /\ BusyHasMission'
      BY <1>1, <1>3, <2>2, <2>3, LocalStepType
    <2>5. due_before' \subseteq Mission \X Mission
      BY <1>2, <1>18, TurnType DEF ReleaseLease, TypeInv, TypeOK
    <2>6. hints' \subseteq Hint /\ queue' \subseteq Message
      BY <1>2, <1>18 DEF ReleaseLease, Acknowledged, Hint, TypeInv, TypeOK
    <2> QED
      BY <1>18, <2>1, <2>4, <2>5, <2>6 DEF ReleaseLease, TypeInv, TypeOK
  <1>19. CASE StartModelCall(w)
    BY <1>5, <1>6, <1>19 DEF StartModelCall, Driving
  <1>20. CASE BudgetExhausted(w)
    BY <1>7, <1>20 DEF BudgetExhausted, Status, Terminal
  <1>21. CASE ModelCallReturns(w)
    BY <1>5, <1>6, <1>21 DEF ModelCallReturns, Driving
  <1>22. CASE ModelCallFails(w)
    BY <1>5, <1>6, <1>22 DEF ModelCallFails, Driving
  <1>23. CASE RecordFailure(w)
    BY <1>2, <1>6, <1>7, <1>23 DEF RecordFailure, Driving, Status, Terminal
  <1>24. CASE DecideToContinue(w)
    BY <1>2, <1>6, <1>24 DEF DecideToContinue, Driving
  <1>25. CASE DecideToCallPort(w)
    BY <1>8, <1>25 DEF DecideToCallPort, Driving
  <1>26. ASSUME NEW s \in {"waiting", "completed", "failed"}, DecideToEnd(w, s)
         PROVE  TypeInv'
    BY <1>7, <1>26 DEF DecideToEnd, Status, Terminal
  <1>27. CASE BeginOperation(w)
    BY <1>5, <1>6, <1>27 DEF BeginOperation, Driving
  <1>28. CASE RecordVerdict(w)
    BY <1>2, <1>6, <1>7, <1>28 DEF RecordVerdict, Driving, Status, Terminal
  <1>29. CASE RecoverOperation(w)
    BY <1>8, <1>29 DEF RecoverOperation, Driving
  <1>30. CASE FinishOperation(w)
    <2>1. Transition([runs[m] EXCEPT !.inflight = FALSE], "failed") \in MissionRun
      BY <1>5, TransitionType DEF Status, Terminal
    <2> QED
      BY <1>2, <1>5, <1>6, <1>7, <1>30, <2>1
      DEF FinishOperation, Driving, Status, Terminal
  <1> QED
    BY <1>9, <1>10, <1>11, <1>12, <1>13, <1>14, <1>15, <1>16, <1>17, <1>18,
       <1>19, <1>20, <1>21, <1>22, <1>23, <1>24, <1>25, <1>26, <1>27, <1>28,
       <1>29, <1>30
    DEF Slice

LEMMA DispatchType ==
    ASSUME TypeInv, NEW m \in Mission
    PROVE  /\ Reserve(m) =>
                 /\ runs' \in [Mission -> MissionRun]
                 /\ driver' \in [Worker -> Driver]
                 /\ BusyHasMission'
                 /\ publishing' \subseteq Message
           /\ \A e \in Nat : ReleaseClaim(m, e) =>
                 /\ runs' \in [Mission -> MissionRun]
                 /\ driver' \in [Worker -> Driver]
                 /\ BusyHasMission'
  <1>1. /\ Touched(m) \in [Worker -> Driver]
        /\ \A v \in Worker : /\ Touched(m)[v].pc = driver[v].pc
                             /\ Touched(m)[v].mission = driver[v].mission
    BY TouchedType DEF TypeInv, TypeOK
  <1>2. runs[m].dispatch_epoch + 1 \in Nat /\ runs \in [Mission -> MissionRun]
    BY DEF TypeInv, TypeOK, MissionRun
  <1>3. driver' = Touched(m) => driver' \in [Worker -> Driver] /\ BusyHasMission'
    BY <1>1 DEF TypeInv, BusyHasMission
  <1>4. ASSUME Reserve(m)
        PROVE  /\ runs' \in [Mission -> MissionRun]
               /\ publishing' \subseteq Message
    <2>1. runs' \in [Mission -> MissionRun]
      <3> DEFINE n == runs[m].dispatch_epoch + 1
                 r == [runs[m] EXCEPT !.dispatched = TRUE, !.dispatch_epoch = n,
                                      !.dispatch_live = TRUE]
      <3>1. runs' = [runs EXCEPT ![m] = r]
        BY <1>2, <1>4 DEF Reserve
      <3>2. r \in MissionRun
        <4>1. runs[m] \in MissionRun /\ n \in Nat
          BY <1>2
        <4> HIDE DEF n
        <4> QED
          BY <4>1 DEF MissionRun
      <3> QED
        BY <1>2, <3>1, <3>2
    <2>2. publishing' \subseteq Message
      BY <1>2, <1>4 DEF Reserve, TypeInv, TypeOK, Message
    <2> QED
      BY <2>1, <2>2
  <1>5. ASSUME NEW e \in Nat, ReleaseClaim(m, e)
        PROVE  /\ runs' \in [Mission -> MissionRun]
               /\ driver' \in [Worker -> Driver]
               /\ BusyHasMission'
    <2>1. runs' \in [Mission -> MissionRun]
      <3>1. [runs[m] EXCEPT !.dispatched = FALSE, !.dispatch_live = FALSE]
               \in MissionRun
        <4>1. runs[m] \in MissionRun
          BY <1>2
        <4> QED
          BY <4>1 DEF MissionRun
      <3>2. \/ UNCHANGED runs
            \/ runs' = [runs EXCEPT ![m] =
                   [runs[m] EXCEPT !.dispatched = FALSE, !.dispatch_live = FALSE]]
        BY <1>2, <1>5 DEF ReleaseClaim
      <3> QED
        BY <1>2, <3>1, <3>2
    <2>2. driver' = Touched(m) \/ UNCHANGED driver
      BY <1>5 DEF ReleaseClaim
    <2> QED
      BY <1>3, <2>1, <2>2 DEF TypeInv, TypeOK, BusyHasMission
  <1> QED
    BY <1>3, <1>4, <1>5 DEF Reserve

LEMMA FetchType ==
    ASSUME TypeInv, NEW w \in Worker, Fetch(w)
    PROVE  TypeInv'
  <1> DEFINE m == driver[w].mission
  <1>1. TypeOK /\ driver \in [Worker -> Driver]
    BY DEF TypeInv, TypeOK
  <1>2. ASSUME NEW msg \in queue, NEW next \in Fetched, Accept(w, msg, next)
        PROVE  TypeInv'
    <2>1. msg \in Message
      BY <1>1, <1>2 DEF TypeOK
    <2>2. driver' \in [Worker -> Driver] /\ BusyHasMission'
      BY <1>1, <1>2, <2>1 DEF Accept, Message, Driver, Fetched, TypeInv, BusyHasMission
    <2>3. faults' \in Nat
      BY <1>1, <1>2 DEF Accept, TypeOK
    <2> QED
      BY <1>1, <1>2, <2>2, <2>3 DEF Accept, TypeInv, TypeOK
  <1>3. ASSUME NEW msg \in queue, DiscardDelivery(w, msg)
        PROVE  TypeInv'
    BY <1>1, <1>3 DEF DiscardDelivery, TypeInv, TypeOK, BusyHasMission
  <1>4. CASE ClaimLease(w)
    <2>1. driver[w].pc # Idle /\ m \in Mission /\ runs[m] \in MissionRun
      BY <1>1, <1>4 DEF ClaimLease, Idle, TypeInv, BusyHasMission, TypeOK
    <2>2. runs[m].lease_epoch \in Nat /\ runs[m].lease_epoch + 1 \in Nat
      BY <2>1 DEF MissionRun
    <2>3. runs' \in [Mission -> MissionRun]
      BY <1>1, <1>4, <2>1, <2>2 DEF ClaimLease, TypeOK, MissionRun
    <2>4. /\ Touched(m) \in [Worker -> Driver]
          /\ \A v \in Worker : /\ Touched(m)[v].pc = driver[v].pc
                               /\ Touched(m)[v].mission = driver[v].mission
      BY <1>1, <2>1, TouchedType
    <2>5. driver' = [Touched(m) EXCEPT ![w].pc = "driving",
                        ![w].epoch = runs[m].lease_epoch + 1, ![w].fresh = TRUE]
      BY <1>4 DEF ClaimLease
    <2>6. driver' \in [Worker -> Driver]
      <3>1. [Touched(m)[w] EXCEPT !.pc = "driving",
                !.epoch = runs[m].lease_epoch + 1, !.fresh = TRUE] \in Driver
        BY <2>2, <2>4 DEF Driver, Driving
      <3>2. driver' = [Touched(m) EXCEPT ![w] =
                          [Touched(m)[w] EXCEPT !.pc = "driving",
                              !.epoch = runs[m].lease_epoch + 1, !.fresh = TRUE]]
        BY <2>4, <2>5
      <3> QED
        BY <2>4, <3>1, <3>2
    <2>7. BusyHasMission'
      BY <2>1, <2>4, <2>5 DEF TypeInv, BusyHasMission, Driver
    <2>8. due_before' \subseteq Mission \X Mission
      BY <1>1, <1>4, <2>1, TurnType DEF ClaimLease, TypeOK
    <2> QED
      BY <1>1, <1>4, <2>3, <2>6, <2>7, <2>8 DEF ClaimLease, TypeInv, TypeOK
  <1>5. CASE LeaseNotAcquired(w)
    <2>1. driver[w].pc # Idle
      BY <1>5 DEF LeaseNotAcquired, Idle
    <2>2. driver' \in [Worker -> Driver] /\ BusyHasMission'
      BY <1>1, <1>5, <2>1, LocalStepType DEF LeaseNotAcquired, Fetched
    <2> QED
      BY <1>1, <1>5, <2>2 DEF LeaseNotAcquired, TypeInv, TypeOK
  <1>6. CASE ReleaseDispatch(w)
    <2>1. driver[w].pc # Idle /\ m \in Mission /\ runs[m] \in MissionRun
      BY <1>1, <1>6 DEF ReleaseDispatch, Idle, TypeInv, BusyHasMission, TypeOK
    <2>2. runs' \in [Mission -> MissionRun]
      BY <1>1, <1>6, <2>1 DEF ReleaseDispatch, TypeOK, MissionRun
    <2>3. /\ Touched(m) \in [Worker -> Driver]
          /\ \A v \in Worker : /\ Touched(m)[v].pc = driver[v].pc
                               /\ Touched(m)[v].mission = driver[v].mission
      BY <1>1, <2>1, TouchedType
    <2>4. \/ driver' = [Touched(m) EXCEPT ![w] = NoDelivery]
          \/ driver' = [driver EXCEPT ![w] = NoDelivery]
      BY <1>6 DEF ReleaseDispatch
    <2>5. driver' \in [Worker -> Driver] /\ BusyHasMission'
      BY <1>1, <2>1, <2>3, <2>4, LocalStepType DEF Fetched
    <2> QED
      BY <1>1, <1>6, <2>2, <2>5 DEF ReleaseDispatch, Acknowledged, TypeInv, TypeOK
  <1> QED
    BY <1>2, <1>3, <1>4, <1>5, <1>6
    DEF Fetch, Deliver, DeliverToWaiting, Fetched

LEMMA DispatchingType ==
    ASSUME TypeInv, Dispatching
    PROVE  TypeInv'
  <1>1. TypeOK
    BY DEF TypeInv
  <1>2. ASSUME NEW h \in hints, ClaimDispatch(h) \/ DropHint(h)
        PROVE  TypeInv'
    <2>1. h.mission \in Mission
      BY <1>1 DEF TypeOK, Hint
    <2>2. CASE ClaimDispatch(h)
      BY <1>1, <2>1, <2>2, DispatchType DEF ClaimDispatch, TypeInv, TypeOK
    <2>3. CASE DropHint(h)
      BY <1>1, <2>3 DEF DropHint, TypeInv, TypeOK, BusyHasMission
    <2> QED
      BY <1>2, <2>2, <2>3
  <1>3. ASSUME NEW msg \in publishing, Publish(msg) \/ PublisherDies(msg)
        PROVE  TypeInv'
    BY <1>1, <1>3 DEF Publish, PublisherDies, TypeInv, TypeOK, BusyHasMission
  <1>4. ASSUME NEW msg \in publishing, NEW sent \in BOOLEAN, PublishFails(msg, sent)
        PROVE  TypeInv'
    <2>1. msg.mission \in Mission /\ msg.dispatch \in Nat
      BY <1>1 DEF TypeOK, Message
    <2>2. /\ runs' \in [Mission -> MissionRun]
          /\ driver' \in [Worker -> Driver]
          /\ BusyHasMission'
      BY <1>4, <2>1, DispatchType DEF PublishFails
    <2> QED
      BY <1>1, <1>4, <2>2 DEF PublishFails, TypeInv, TypeOK
  <1>5. ASSUME NEW msg \in queue, LoseMessage(msg)
        PROVE  TypeInv'
    BY <1>1, <1>5 DEF LoseMessage, TypeInv, TypeOK, BusyHasMission
  <1> QED
    BY <1>2, <1>3, <1>4, <1>5 DEF Dispatching

LEMMA InputType ==
    ASSUME TypeInv, NEW m \in Mission, NEW r \in MissionRun,
           NEW awake \in BOOLEAN, Input(m, r, awake),
           due_before' \subseteq Mission \X Mission
    PROVE  TypeInv'
  <1>1. /\ Touched(m) \in [Worker -> Driver]
        /\ \A v \in Worker : /\ Touched(m)[v].pc = driver[v].pc
                             /\ Touched(m)[v].mission = driver[v].mission
    BY TouchedType DEF TypeInv, TypeOK
  <1>2. driver' \in [Worker -> Driver] /\ BusyHasMission'
    BY <1>1 DEF Input, TypeInv, BusyHasMission
  <1>3. hints' \subseteq Hint /\ inputs' \in Nat
    <2>1. hints \subseteq Hint /\ inputs \in Nat
      BY DEF TypeInv, TypeOK
    <2>2. [mission |-> m, delayed |-> FALSE] \in Hint
      BY DEF Hint
    <2>3. hints' \subseteq hints \cup {[mission |-> m, delayed |-> FALSE]}
      BY DEF Input
    <2>4. inputs' \in Nat
      BY <2>1 DEF Input
    <2>5. hints' \subseteq Hint
      BY <2>1, <2>2, <2>3
    <2> QED
      BY <2>4, <2>5
  <1> QED
    BY <1>2, <1>3 DEF Input, TypeInv, TypeOK

LEMMA WakeupTypes ==
    ASSUME NEW r \in MissionRun, NEW k \in {"none", "later", "due"},
           NEW c \in {"steer", "mode", "pause", "cancel"}
    PROVE  /\ [r EXCEPT !.next_wakeup = k] \in MissionRun
           /\ [r EXCEPT !.commands = Append(@, c), !.next_wakeup = k] \in MissionRun
           /\ [r EXCEPT !.commands = Append(@, c), !.last_applied = @ + 1]
                 \in MissionRun
  <1>1. /\ r.commands \in Seq({"steer", "mode", "pause", "cancel"})
        /\ r.last_applied \in Nat
    BY DEF MissionRun
  <1>2. /\ Append(r.commands, c) \in Seq({"steer", "mode", "pause", "cancel"})
        /\ r.last_applied + 1 \in Nat
    BY <1>1, AppendProperties
  <1> QED
    BY <1>2 DEF MissionRun

LEMMA ElsewhereType ==
    ASSUME TypeInv, NEW m \in Mission, Elsewhere(m)
    PROVE  TypeInv'
  <1>1. TypeOK /\ runs[m] \in MissionRun /\ BusyHasMission
    BY DEF TypeInv, TypeOK
  <1>2. /\ LeaveTurn(m) \subseteq Mission \X Mission
        /\ JoinTurn(m) \subseteq Mission \X Mission
        /\ WakeNow(m) \subseteq Mission \X Mission
    BY <1>1, TurnType DEF TypeOK
  <1>3. ASSUME NEW s \in Status
        PROVE  Transition(runs[m], s) \in MissionRun
    BY <1>1, TransitionType
  <1>4. ASSUME NEW r \in MissionRun, NEW awake \in BOOLEAN, Input(m, r, awake),
               due_before' \in {due_before, LeaveTurn(m), WakeNow(m)}
        PROVE  TypeInv'
    BY <1>1, <1>2, <1>4, InputType DEF TypeOK
  <1>5. ASSUME NEW s \in {"planning", "waiting"}, Admit(m, s)
        PROVE  TypeInv'
    <2>1. runs' \in [Mission -> MissionRun]
      BY <1>1, <1>5 DEF Admit, TypeOK, MissionRun, Status
    <2>2. hints' \subseteq Hint
      <3>1. hints' \subseteq hints \cup {[mission |-> m, delayed |-> FALSE]}
        BY <1>5 DEF Admit
      <3>2. hints \subseteq Hint /\ [mission |-> m, delayed |-> FALSE] \in Hint
        BY <1>1 DEF TypeOK, Hint
      <3> QED
        BY <3>1, <3>2
    <2>3. due_before' \subseteq Mission \X Mission
      BY <1>1, <1>2, <1>5 DEF Admit, TypeOK
    <2> QED
      BY <1>1, <1>5, <2>1, <2>2, <2>3 DEF Admit, TypeInv, TypeOK, BusyHasMission
  <1>6. ASSUME NEW type \in CommandType, AppendCommand(m, type)
        PROVE  TypeInv'
    <2>1. type \in {"steer", "mode", "pause", "cancel"}
      BY WriterAssumption
    <2>2. [runs[m] EXCEPT !.commands = Append(@, type), !.next_wakeup = "due"]
             \in MissionRun
      BY <1>1, <2>1, WakeupTypes
    <2> QED
      BY <1>4, <1>6, <2>2 DEF AppendCommand
  <1>7. CASE ChangeModeAfterEnd(m)
    <2>1. [runs[m] EXCEPT !.commands = Append(@, "mode"), !.last_applied = @ + 1]
             \in MissionRun
      BY <1>1, WakeupTypes
    <2> QED
      BY <1>4, <1>7, <2>1 DEF ChangeModeAfterEnd
  <1>8. CASE Resume(m)
    <2>1. [Transition(runs[m], "planning") EXCEPT !.next_wakeup = "due"] \in MissionRun
      BY <1>3, WakeupTypes DEF Status
    <2> QED
      BY <1>4, <1>8, <2>1 DEF Resume
  <1>9. CASE ExpireReservation(m)
    <2>1. [(IF runs[m].status = "waiting" THEN runs[m]
              ELSE Transition(runs[m], "waiting"))
           EXCEPT !.next_wakeup = "none"] \in MissionRun
      BY <1>1, <1>3, WakeupTypes DEF Status
    <2> QED
      BY <1>4, <1>9, <2>1 DEF ExpireReservation
  <1>10. ASSUME NEW resolves \in BOOLEAN, ReviewSettled(m, resolves)
         PROVE  TypeInv'
    <2>1. [(IF resolves /\ runs[m].status = "waiting"
              THEN Transition(runs[m], "planning") ELSE runs[m])
           EXCEPT !.next_wakeup = "due"] \in MissionRun
      BY <1>1, <1>3, WakeupTypes DEF Status
    <2> QED
      BY <1>4, <1>10, <2>1 DEF ReviewSettled
  <1>11. CASE Reconcile(m)
    BY <1>1, <1>11, DispatchType DEF Reconcile, TypeInv, TypeOK
  <1>12. CASE WakeupFallsDue(m) \/ LeaseExpires(m) \/ DispatchExpires(m)
    <2>1. runs' \in [Mission -> MissionRun]
      <3>1. \/ runs' = [runs EXCEPT ![m] = [runs[m] EXCEPT !.next_wakeup = "due"]]
            \/ runs' = [runs EXCEPT ![m] = [runs[m] EXCEPT !.lease_live = FALSE]]
            \/ runs' = [runs EXCEPT ![m] = [runs[m] EXCEPT !.dispatch_live = FALSE]]
        BY <1>1, <1>12 DEF WakeupFallsDue, LeaseExpires, DispatchExpires, TypeOK
      <3>2. /\ [runs[m] EXCEPT !.next_wakeup = "due"] \in MissionRun
            /\ [runs[m] EXCEPT !.lease_live = FALSE] \in MissionRun
            /\ [runs[m] EXCEPT !.dispatch_live = FALSE] \in MissionRun
        BY <1>1 DEF MissionRun
      <3> QED
        BY <1>1, <3>1, <3>2 DEF TypeOK
    <2>2. due_before' \subseteq Mission \X Mission /\ faults' \in Nat
      BY <1>1, <1>2, <1>12 DEF WakeupFallsDue, LeaseExpires, DispatchExpires, TypeOK
    <2> QED
      BY <1>1, <1>12, <2>1, <2>2
      DEF WakeupFallsDue, LeaseExpires, DispatchExpires, TypeInv, TypeOK,
          BusyHasMission
  <1> QED
    BY <1>5, <1>6, <1>7, <1>8, <1>9, <1>10, <1>11, <1>12 DEF Elsewhere

LEMMA TypeStep ==
    ASSUME TypeInv, [Next]_vars
    PROVE  TypeInv'
  <1>1. ASSUME NEW w \in Worker, NEW redelivered \in BOOLEAN, Crash(w, redelivered)
        PROVE  TypeInv'
    <2>1. driver' = [driver EXCEPT ![w] = NoDelivery]
      BY <1>1 DEF Crash
    <2>2. driver' \in [Worker -> Driver] /\ BusyHasMission'
      BY <2>1 DEF TypeInv, TypeOK, BusyHasMission, Driver, NoDelivery
    <2> QED
      BY <1>1, <2>2 DEF Crash, Acknowledged, TypeInv, TypeOK
  <1>2. CASE UNCHANGED vars
    BY <1>2 DEF vars, TypeInv, TypeOK, BusyHasMission
  <1> QED
    BY <1>1, <1>2, SliceType, FetchType, DispatchingType, ElsewhereType DEF Next

LEMMA InitType == Init => TypeInv
  BY NoneAssumption DEF Init, TypeInv, TypeOK, BusyHasMission, NewRun, MissionRun,
     Status, NoDelivery, Driver

\* Every reachable state is typed: no operation writes a status, a fence, a
\* cursor or a driver state outside its range, for any number of Missions,
\* workers and commands.
THEOREM TypeCorrect == Spec => []TypeOK
  <1>1. Init => TypeInv
    BY InitType
  <1>2. TypeInv /\ [Next]_vars => TypeInv'
    BY TypeStep
  <1>3. TypeInv => TypeOK
    BY DEF TypeInv
  <1> QED
    BY <1>1, <1>2, <1>3, PTL DEF Spec

-----------------------------------------------------------------------------
(* What a step may do to a row.                                            *)

SameLease(r, q) ==
    /\ q.lease_owner = r.lease_owner
    /\ q.lease_epoch = r.lease_epoch
    /\ q.lease_live = r.lease_live
SameDispatch(r, q) ==
    /\ q.dispatched = r.dispatched
    /\ q.dispatch_epoch = r.dispatch_epoch
    /\ q.dispatch_live = r.dispatch_live
SameRow(r, q) ==
    /\ q.status = r.status
    /\ q.next_wakeup = r.next_wakeup
    /\ q.call = r.call
    /\ q.commands = r.commands
    /\ q.last_applied = r.last_applied
    /\ q.pending_control = r.pending_control
    /\ SameLease(r, q)
    /\ SameDispatch(r, q)

\* Who wrote last, as a step of somebody without a lease leaves it and as the
\* holder of the lease does.
SameWriter(r, q) == q.writer_epoch = r.writer_epoch
WrittenByHolder(r, q) ==
    q.writer_epoch = r.lease_epoch /\ (r.lease_live \/ SlowCommits)

\* A dispatch generation is reserved.
Reserved(m) ==
    LET r == runs[m]
        q == runs'[m]
    IN  /\ Live(m) /\ SlotFree(m) /\ ~SlotTaken(m)
        /\ r.next_wakeup # "none" \/ r.lease_owner # None
        /\ SameWriter(r, q)
        /\ q.status = r.status /\ q.next_wakeup = r.next_wakeup /\ q.call = r.call
        /\ SameLease(r, q)
        /\ q.dispatched /\ q.dispatch_live
        /\ q.dispatch_epoch = r.dispatch_epoch + 1

\* The generation buys a lease.
Claimed(m) ==
    LET r == runs[m]
        q == runs'[m]
    IN  /\ Live(m) /\ r.dispatched
        /\ DispatchActive(m) \/ SlowCommits
        /\ ~LeaseActive(m)
        /\ SameWriter(r, q)
        /\ q.status = r.status /\ q.call = r.call
        /\ q.lease_owner # None /\ q.lease_live
        /\ q.lease_epoch = r.lease_epoch + 1
        /\ ~q.dispatched
        /\ q.dispatch_epoch = r.dispatch_epoch

\* The holder of the lease writes, or renews its lease.
Driven(m) ==
    LET r == runs[m]
        q == runs'[m]
    IN  /\ Live(m) /\ q.status \notin Terminal
        /\ r.lease_owner # None
        /\ q.lease_owner = r.lease_owner
        /\ q.lease_epoch = r.lease_epoch
        /\ q.lease_live => r.lease_live \/ SlowCommits
        /\ r.lease_live /\ ~SlowCommits => q.lease_live
        /\ SameWriter(r, q) \/ WrittenByHolder(r, q)
        /\ q.status = "created" => r.status = "created"
        /\ SameDispatch(r, q)

\* The holder of the lease has an open call only while it reconciles the
\* ledger or waits for the model.
CallKnown ==
    \A w \in Worker :
        /\ driver[w].pc \in Driving \ {"driving", "deciding"}
        /\ Holds(w, driver[w].mission)
        => runs[driver[w].mission].call # "open"

\* The turn is over: the Mission yields, waits or ends.
Ended(m) ==
    LET r == runs[m]
        q == runs'[m]
    IN  /\ Live(m)
        /\ q.lease_owner = None
        /\ q.lease_epoch = r.lease_epoch
        /\ q.dispatch_epoch = r.dispatch_epoch
        /\ q.dispatched => r.dispatched
        /\ q.dispatch_live => r.dispatch_live
        /\ \/ SameWriter(r, q)
           \/ r.lease_owner # None /\ WrittenByHolder(r, q)
        /\ \/ /\ q.status = r.status /\ q.next_wakeup # "none"
              /\ r.lease_owner # None
           \/ q.status = "waiting"
           \/ /\ q.status \in Terminal
              /\ q.next_wakeup = "none" /\ ~q.dispatched
              /\ CallKnown => q.call # "open"

\* Somebody without a lease makes a live Mission runnable, or makes it wait.
Prompted(m) ==
    LET r == runs[m]
        q == runs'[m]
    IN  /\ Live(m) /\ q.status \notin Terminal
        /\ q.next_wakeup # "none" \/ q.status = "waiting"
        /\ q.status # "created"
        /\ SameWriter(r, q)
        /\ SameLease(r, q)
        /\ SameDispatch(r, q)

\* An instant passes, a generation is withdrawn, or nothing happens here.
Lapsed(m) ==
    LET r == runs[m]
        q == runs'[m]
    IN  /\ q.status = r.status /\ q.call = r.call
        /\ SameWriter(r, q)
        /\ (q.next_wakeup = "none") <=> (r.next_wakeup = "none")
        /\ q.lease_owner = r.lease_owner
        /\ q.lease_epoch = r.lease_epoch
        /\ q.lease_live => r.lease_live
        /\ q.dispatched => r.dispatched
        /\ q.dispatch_epoch = r.dispatch_epoch
        /\ q.dispatch_live => r.dispatch_live

Others(m) == \A n \in Mission \ {m} : runs'[n] = runs[n]

RowStep(m) ==
    Reserved(m) \/ Claimed(m) \/ Driven(m) \/ Ended(m) \/ Prompted(m) \/ Lapsed(m)

-----------------------------------------------------------------------------
(* Rows after the helpers.                                                 *)

LEMMA TransitionRow ==
    ASSUME NEW r \in MissionRun, NEW s \in Status
    PROVE  LET q == Transition(r, s) IN
           /\ q.status = s
           /\ q.call = r.call
           /\ q.commands = r.commands
           /\ q.last_applied = r.last_applied
           /\ q.pending_control = r.pending_control
           /\ q.lease_epoch = r.lease_epoch
           /\ q.dispatch_epoch = r.dispatch_epoch
           /\ q.writer_epoch = r.writer_epoch
           /\ s \in Terminal \cup {"waiting"} =>
                  q.lease_owner = None /\ ~q.lease_live /\ q.next_wakeup = "none"
           /\ s \in Terminal => ~q.dispatched /\ ~q.dispatch_live
           /\ s \notin Terminal => SameDispatch(r, q)
           /\ s \notin Terminal \cup {"waiting"} =>
                  SameLease(r, q) /\ q.next_wakeup = r.next_wakeup
  BY DEF Transition, MissionRun, Status, Terminal, SameLease, SameDispatch

LEMMA WriteRow ==
    ASSUME TypeInv, NEW w \in Worker, driver[w].pc # Idle,
           NEW r \in MissionRun, NEW next, Write(w, r, next)
    PROVE  /\ driver[w].mission \in Mission
           /\ SameRow(r, runs'[driver[w].mission])
           /\ runs'[driver[w].mission].writer_epoch = driver[w].epoch
           /\ Others(driver[w].mission)
  <1> DEFINE m == driver[w].mission
  <1>1. m \in Mission /\ runs \in [Mission -> MissionRun]
    BY DEF TypeInv, TypeOK, BusyHasMission
  <1>2. runs' = [runs EXCEPT ![m] = [r EXCEPT !.writer_epoch = driver[w].epoch]]
    BY DEF Write
  <1>3. runs'[m] = [r EXCEPT !.writer_epoch = driver[w].epoch]
    BY <1>1, <1>2
  <1>4. /\ SameRow(r, [r EXCEPT !.writer_epoch = driver[w].epoch])
        /\ [r EXCEPT !.writer_epoch = driver[w].epoch].writer_epoch = driver[w].epoch
    BY DEF SameRow, SameLease, SameDispatch, MissionRun
  <1>5. Others(m)
    BY <1>1, <1>2 DEF Others
  <1> QED
    BY <1>1, <1>3, <1>4, <1>5

\* The holder of the lease writes and goes on.
LEMMA DrivenRow ==
    ASSUME TypeInv, NEW w \in Worker, driver[w].pc # Idle, LeaseCurrent(w),
           NEW r \in MissionRun, NEW next, Write(w, r, next),
           r.status \notin Terminal,
           r.status = "created" => runs[driver[w].mission].status = "created",
           SameLease(runs[driver[w].mission], r),
           SameDispatch(runs[driver[w].mission], r)
    PROVE  Driven(driver[w].mission) /\ Others(driver[w].mission)
  <1>1. /\ SameRow(r, runs'[driver[w].mission])
        /\ runs'[driver[w].mission].writer_epoch = driver[w].epoch
        /\ Others(driver[w].mission)
    BY WriteRow
  <1>2. /\ Live(driver[w].mission)
        /\ runs[driver[w].mission].lease_owner # None
        /\ runs[driver[w].mission].lease_epoch = driver[w].epoch
        /\ runs[driver[w].mission].lease_live \/ SlowCommits
    BY NoneAssumption DEF LeaseCurrent, LeaseActive, Holds
  <1> QED
    BY <1>1, <1>2
    DEF Driven, SameRow, SameLease, SameDispatch, SameWriter, WrittenByHolder

\* The holder of the lease writes and ends its turn.
LEMMA EndedRow ==
    ASSUME TypeInv, NEW w \in Worker, driver[w].pc # Idle, LeaseCurrent(w),
           NEW r \in MissionRun, NEW s \in Terminal \cup {"waiting"}, NEW next,
           Write(w, Transition(r, s), next),
           CallKnown => r.call # "open",
           SameLease(runs[driver[w].mission], r),
           SameDispatch(runs[driver[w].mission], r)
    PROVE  Ended(driver[w].mission) /\ Others(driver[w].mission)
  <1> DEFINE q == Transition(r, s)
  <1>1. s \in Status
    BY DEF Status
  <1>2. /\ q \in MissionRun
        /\ q.status = s
        /\ q.call = r.call
        /\ q.lease_epoch = r.lease_epoch
        /\ q.dispatch_epoch = r.dispatch_epoch
        /\ q.lease_owner = None /\ ~q.lease_live /\ q.next_wakeup = "none"
        /\ s \in Terminal => ~q.dispatched /\ ~q.dispatch_live
        /\ s \notin Terminal => SameDispatch(r, q)
    BY <1>1, TransitionRow, TransitionType
  <1> HIDE DEF q
  <1>3. /\ SameRow(q, runs'[driver[w].mission])
        /\ runs'[driver[w].mission].writer_epoch = driver[w].epoch
        /\ Others(driver[w].mission)
    BY <1>2, WriteRow DEF q
  <1>4. /\ Live(driver[w].mission)
        /\ runs[driver[w].mission].lease_owner # None
        /\ runs[driver[w].mission].lease_epoch = driver[w].epoch
        /\ runs[driver[w].mission].lease_live \/ SlowCommits
    BY NoneAssumption DEF LeaseCurrent, LeaseActive, Holds
  <1> QED
    BY <1>2, <1>3, <1>4
    DEF Ended, SameRow, SameLease, SameDispatch, SameWriter, WrittenByHolder

LEMMA EndSliceRow ==
    ASSUME TypeInv, NEW w \in Worker, LeaseCurrent(w),
           driver[w].pc \in Driving \ {"driving", "deciding"},
           NEW s \in Terminal \cup {"waiting"}, EndSlice(w, s)
    PROVE  Ended(driver[w].mission) /\ Others(driver[w].mission)
  <1> driver[w].pc # Idle
    BY DEF Driving, Idle
  <1>2. CallKnown => runs[driver[w].mission].call # "open"
    BY DEF CallKnown, LeaseCurrent
  <1>1. /\ runs[driver[w].mission] \in MissionRun
        /\ Write(w, Transition(runs[driver[w].mission], s), Idle)
    BY DEF TypeInv, TypeOK, BusyHasMission, EndSlice
  <1> QED
    BY <1>1, <1>2, EndedRow DEF SameLease, SameDispatch

\* A page of commands moves the cursor and the pending control, and then the
\* status.
LEMMA ApplyCommandsRow ==
    ASSUME TypeInv, NEW w \in Worker, ApplyCommands(w)
    PROVE  \E q \in MissionRun :
             /\ q.status = runs[driver[w].mission].status
             /\ q.call = runs[driver[w].mission].call
             /\ SameLease(runs[driver[w].mission], q)
             /\ SameDispatch(runs[driver[w].mission], q)
             /\ \/ Write(w, Transition(q, "cancelled"), Idle)
                \/ Write(w, Transition(q, "waiting"), Idle)
                \/ Write(w, Transition(q, "planning"), "driving")
                \/ Write(w, q, "driving")
  <1>1. PICK n \in Nat, c \in {"none", "pause", "cancel"} :
          LET r == Applied(runs[driver[w].mission], n, c) IN
          \/ Write(w, Transition([r EXCEPT !.inflight = FALSE], "cancelled"), Idle)
          \/ Write(w, Transition(r, "waiting"), Idle)
          \/ Write(w, Transition(r, "planning"), "driving")
          \/ Write(w, r, "driving")
    BY ApplyCommandsWrites
  <1> DEFINE old == runs[driver[w].mission]
             r == Applied(old, n, c)
             stopped == [r EXCEPT !.inflight = FALSE]
  <1>2. old \in MissionRun
    BY ApplyCommandsWrites DEF TypeInv, TypeOK, BusyHasMission
  <1>3. /\ r \in MissionRun
        /\ r.status = old.status /\ r.call = old.call
        /\ SameLease(old, r) /\ SameDispatch(old, r)
    <2>1. r \in MissionRun
      BY <1>2, FieldTypes DEF Applied
    <2>2. r = [old EXCEPT !.last_applied = n, !.pending_control = c]
      BY DEF Applied
    <2> HIDE DEF r, old
    <2> QED
      BY <1>2, <2>1, <2>2 DEF MissionRun, SameLease, SameDispatch
  <1> HIDE DEF r
  <1>4. /\ stopped \in MissionRun
        /\ stopped.status = old.status /\ stopped.call = old.call
        /\ SameLease(old, stopped) /\ SameDispatch(old, stopped)
    <2>1. stopped \in MissionRun
      BY <1>3, FieldTypes
    <2> HIDE DEF old
    <2> QED
      BY <1>3, <2>1 DEF MissionRun, SameLease, SameDispatch
  <1> HIDE DEF stopped, old
  <1> QED
    BY <1>1, <1>3, <1>4 DEF r, stopped, old

LEMMA SliceRow ==
    ASSUME TypeInv, NEW w \in Worker, Slice(w)
    PROVE  LET m == driver[w].mission IN
           /\ m \in Mission
           /\ UNCHANGED runs \/ (Others(m) /\ (Driven(m) \/ Ended(m)))
  <1> DEFINE m == driver[w].mission
             r == runs[m]
  <1>1. driver[w].pc # Idle
    BY DEF Slice, At, Idle, CloseRecoveredCall, FailUnresolvedCall, Advance,
           ApplyCommands, PassBoundary, Heartbeat, LoseLease, Restart,
           DecideToYield, ReleaseLease, StartModelCall, BudgetExhausted,
           ModelCallReturns, ModelCallFails, RecordFailure, Deciding,
           DecideToContinue, DecideToCallPort, DecideToEnd, BeginOperation,
           RecordVerdict, RecoverOperation, FinishOperation, Driving
  <1>2. m \in Mission /\ r \in MissionRun /\ runs \in [Mission -> MissionRun]
    BY <1>1 DEF TypeInv, TypeOK, BusyHasMission
  <1>3. SUFFICES ASSUME runs' # runs
                 PROVE  Others(m) /\ (Driven(m) \/ Ended(m))
    BY <1>2
  <1>4. ASSUME LeaseCurrent(w), NEW q \in MissionRun, NEW next, Write(w, q, next),
               q.status = r.status, SameLease(r, q), SameDispatch(r, q)
        PROVE  Others(m) /\ Driven(m)
    BY <1>1, <1>4, DrivenRow DEF LeaseCurrent, Live
  <1>5. ASSUME LeaseCurrent(w), NEW next, NEW s \in {"planning", "running"},
               NEW q \in MissionRun, Write(w, Transition(q, s), next),
               SameLease(r, q), SameDispatch(r, q)
        PROVE  Others(m) /\ Driven(m)
    <2>1. /\ Transition(q, s) \in MissionRun
          /\ Transition(q, s).status \notin Terminal
          /\ Transition(q, s).status # "created"
          /\ SameLease(r, Transition(q, s))
          /\ SameDispatch(r, Transition(q, s))
      <3> DEFINE t == Transition(q, s)
      <3>1. s \in Status /\ s \notin Terminal \cup {"waiting"} /\ s # "created"
        BY DEF Status, Terminal
      <3>2. /\ t \in MissionRun
            /\ t.status = s
            /\ SameLease(q, t) /\ SameDispatch(q, t)
        BY <3>1, TransitionRow, TransitionType
      <3> HIDE DEF t
      <3>3. SameLease(r, t) /\ SameDispatch(r, t)
        BY <1>5, <3>2 DEF SameLease, SameDispatch
      <3> QED
        BY <3>1, <3>2, <3>3 DEF t
    <2> QED
      BY <1>1, <1>5, <2>1, DrivenRow
  <1>6. ASSUME LeaseCurrent(w), NEW next, NEW s \in {"waiting"} \cup Terminal,
               NEW q \in MissionRun, Write(w, Transition(q, s), next),
               CallKnown => q.call # "open", SameLease(r, q), SameDispatch(r, q)
        PROVE  Others(m) /\ Ended(m)
    BY <1>1, <1>6, EndedRow
  <1>7. ASSUME LeaseCurrent(w), driver[w].pc \in Driving \ {"driving", "deciding"},
               NEW s \in {"waiting", "failed", "completed"}, EndSlice(w, s)
        PROVE  Others(m) /\ Ended(m)
    BY <1>7, EndSliceRow DEF Terminal
  <1>8. ASSUME NEW b \in BOOLEAN, NEW k \in {"closed", "open", "unresolved"}
        PROVE  /\ [r EXCEPT !.inflight = b] \in MissionRun
               /\ [r EXCEPT !.call = k] \in MissionRun
               /\ [r EXCEPT !.model_calls = @ + 1, !.call = k] \in MissionRun
    <2>1. 0 \in Nat /\ "none" \in {"none", "pause", "cancel"}
      OBVIOUS
    <2> QED
      BY <1>2, <2>1, FieldTypes
  <1>9. ASSUME NEW b, NEW k
        PROVE  /\ [r EXCEPT !.inflight = b].status = r.status
               /\ [r EXCEPT !.inflight = b].call = r.call
               /\ SameLease(r, [r EXCEPT !.inflight = b])
               /\ SameDispatch(r, [r EXCEPT !.inflight = b])
               /\ [r EXCEPT !.call = k].status = r.status
               /\ SameLease(r, [r EXCEPT !.call = k])
               /\ SameDispatch(r, [r EXCEPT !.call = k])
               /\ [r EXCEPT !.model_calls = @ + 1, !.call = k].status = r.status
               /\ SameLease(r, [r EXCEPT !.model_calls = @ + 1, !.call = k])
               /\ SameDispatch(r, [r EXCEPT !.model_calls = @ + 1, !.call = k])
    BY <1>2 DEF MissionRun, SameLease, SameDispatch
  <1>10. SameLease(r, r) /\ SameDispatch(r, r)
    BY DEF SameLease, SameDispatch
  <1> HIDE DEF r
  <1>11. CASE CloseRecoveredCall(w)
    BY <1>4, <1>8, <1>9, <1>11 DEF CloseRecoveredCall, r
  <1>12. CASE FailUnresolvedCall(w)
    BY <1>6, <1>8, <1>9, <1>12 DEF FailUnresolvedCall, r, Terminal
  <1>13. CASE Advance(w)
    BY <1>2, <1>5, <1>10, <1>13 DEF Advance, Fenced, r
  <1>14. CASE ApplyCommands(w)
    <2>1. PICK q :
             /\ q \in MissionRun /\ q.status = r.status /\ q.call = r.call
             /\ SameLease(r, q) /\ SameDispatch(r, q)
             /\ \/ Write(w, Transition(q, "cancelled"), Idle)
                \/ Write(w, Transition(q, "waiting"), Idle)
                \/ Write(w, Transition(q, "planning"), "driving")
                \/ Write(w, q, "driving")
      BY <1>1, <1>2, <1>14, ApplyCommandsRow DEF r
    <2>2. LeaseCurrent(w) /\ r.call = "closed"
      BY <1>14 DEF ApplyCommands, Fenced, r
    <2> QED
      BY <1>4, <1>5, <1>6, <2>1, <2>2 DEF Terminal
  <1>15. CASE Heartbeat(w)
    <2>1. runs' = [runs EXCEPT ![m] = [r EXCEPT !.lease_live = TRUE]]
      BY <1>2, <1>15 DEF Heartbeat, r
    <2>2. runs'[m] = [r EXCEPT !.lease_live = TRUE] /\ Others(m)
      BY <1>2, <2>1 DEF Others
    <2>3. /\ runs'[m].status = r.status
          /\ runs'[m].lease_owner = r.lease_owner
          /\ runs'[m].lease_epoch = r.lease_epoch
          /\ runs'[m].lease_live
          /\ SameWriter(r, runs'[m])
          /\ SameDispatch(r, runs'[m])
      BY <1>2, <2>2 DEF MissionRun, SameDispatch, SameWriter
    <2>4. /\ Live(m) /\ r.lease_owner # None
          /\ r.lease_live \/ SlowCommits
      BY <1>15, NoneAssumption DEF Heartbeat, LeaseCurrent, Holds, LeaseActive, r
    <2> QED
      BY <2>2, <2>3, <2>4 DEF Driven, Live, r
  <1>16. ASSUME NEW delayed \in BOOLEAN, ReleaseLease(w, delayed)
         PROVE  Others(m) /\ Ended(m)
    <2> DEFINE k == IF delayed THEN "later" ELSE "due"
               q == [r EXCEPT !.lease_owner = None, !.lease_live = FALSE,
                       !.next_wakeup = k, !.yields = @ + 1,
                       !.writer_epoch = driver[w].epoch]
    <2>1. runs' = [runs EXCEPT ![m] = q]
      BY <1>2, <1>16 DEF ReleaseLease, r
    <2>2. runs'[m] = q /\ Others(m)
      BY <1>2, <2>1 DEF Others
    <2>3. /\ q.status = r.status
          /\ q.lease_owner = None
          /\ q.lease_epoch = r.lease_epoch
          /\ q.writer_epoch = driver[w].epoch
          /\ q.next_wakeup = k
          /\ SameDispatch(r, q)
      BY <1>2 DEF MissionRun, SameDispatch
    <2>4. k # "none"
      OBVIOUS
    <2>5. /\ Live(m) /\ r.lease_owner # None /\ r.lease_epoch = driver[w].epoch
          /\ r.lease_live \/ SlowCommits
      BY <1>16, NoneAssumption
      DEF ReleaseLease, Fenced, LeaseCurrent, LeaseActive, Holds, r
    <2> HIDE DEF q, k
    <2> QED
      BY <2>2, <2>3, <2>4, <2>5 DEF Ended, SameDispatch, WrittenByHolder, r
  <1>17. CASE StartModelCall(w)
    BY <1>4, <1>8, <1>9, <1>17 DEF StartModelCall, r
  <1>18. CASE BudgetExhausted(w)
    BY <1>7, <1>18 DEF BudgetExhausted, Fenced, At, Driving
  <1>19. CASE ModelCallReturns(w) \/ ModelCallFails(w)
    BY <1>4, <1>8, <1>9, <1>19 DEF ModelCallReturns, ModelCallFails, r
  <1>20. CASE RecordFailure(w)
    BY <1>2, <1>4, <1>7, <1>10, <1>20 DEF RecordFailure, Fenced, At, Driving, r
  <1>21. CASE DecideToContinue(w)
    BY <1>2, <1>4, <1>10, <1>21 DEF DecideToContinue, Deciding, Fenced, r
  <1>22. ASSUME NEW s \in {"waiting", "completed", "failed"}, DecideToEnd(w, s)
         PROVE  Others(m) /\ Ended(m)
    BY <1>7, <1>22 DEF DecideToEnd, Deciding, Fenced, At, Driving
  <1>23. CASE BeginOperation(w)
    BY <1>4, <1>8, <1>9, <1>23 DEF BeginOperation, Fenced, r
  <1>24. CASE RecordVerdict(w)
    BY <1>2, <1>4, <1>7, <1>10, <1>24 DEF RecordVerdict, Fenced, At, Driving, r
  <1>25. CASE FinishOperation(w)
    <2>1. LeaseCurrent(w) /\ driver[w].pc \in Driving \ {"driving", "deciding"}
      BY <1>25 DEF FinishOperation, Fenced, At, Driving
    <2>2. CallKnown => r.call # "open"
      BY <2>1 DEF CallKnown, LeaseCurrent, r
    <2>3. CASE Write(w, Transition([r EXCEPT !.inflight = FALSE], "failed"), Idle)
      BY <1>6, <1>8, <1>9, <2>1, <2>2, <2>3 DEF Terminal
    <2>4. CASE EndSlice(w, "waiting")
      BY <1>7, <2>1, <2>4
    <2>5. CASE \/ Write(w, [r EXCEPT !.inflight = FALSE], "driving")
               \/ Write(w, r, "yielding")
      BY <1>2, <1>4, <1>8, <1>9, <1>10, <2>1, <2>5
    <2> QED
      BY <1>25, <2>3, <2>4, <2>5 DEF FinishOperation, r
  <1>26. CASE \/ PassBoundary(w) \/ LoseLease(w) \/ Restart(w) \/ DecideToYield(w)
              \/ DecideToCallPort(w) \/ RecoverOperation(w)
    BY <1>3, <1>26 DEF PassBoundary, LoseLease, Restart, DecideToYield,
                       DecideToCallPort, RecoverOperation
  <1> QED
    BY <1>11, <1>12, <1>13, <1>14, <1>15, <1>16, <1>17, <1>18, <1>19, <1>20,
       <1>21, <1>22, <1>23, <1>24, <1>25, <1>26
    DEF Slice

LEMMA ReserveRow ==
    ASSUME TypeInv, NEW m \in Mission, Reserve(m),
           NEW ready, "none" \notin ready, CanDispatch(m, ready)
    PROVE  Others(m) /\ Reserved(m)
  <1> DEFINE r == runs[m]
             q == [r EXCEPT !.dispatched = TRUE,
                            !.dispatch_epoch = r.dispatch_epoch + 1,
                            !.dispatch_live = TRUE]
  <1>1. r \in MissionRun /\ runs \in [Mission -> MissionRun]
    BY DEF TypeInv, TypeOK
  <1>2. runs' = [runs EXCEPT ![m] = q]
    BY <1>1 DEF Reserve
  <1>3. runs'[m] = q /\ Others(m)
    BY <1>1, <1>2 DEF Others
  <1>4. /\ q.status = r.status /\ q.next_wakeup = r.next_wakeup /\ q.call = r.call
        /\ SameLease(r, q)
        /\ q.dispatched /\ q.dispatch_live
        /\ q.dispatch_epoch = r.dispatch_epoch + 1
        /\ SameWriter(r, q)
    BY <1>1 DEF MissionRun, SameLease, SameWriter
  <1>5. /\ Live(m) /\ SlotFree(m) /\ ~SlotTaken(m)
        /\ r.next_wakeup # "none" \/ r.lease_owner # None
    BY DEF CanDispatch, SlotTaken, LeaseExpired
  <1> HIDE DEF q
  <1> QED
    BY <1>3, <1>4, <1>5 DEF Reserved

\* Withdrawing a generation, or an instant that passes.
LEMMA LapsedRow ==
    ASSUME TypeInv, NEW m \in Mission,
           \/ UNCHANGED runs
           \/ runs' = [runs EXCEPT ![m].dispatched = FALSE, ![m].dispatch_live = FALSE]
           \/ runs' = [runs EXCEPT ![m].dispatch_live = FALSE]
           \/ runs' = [runs EXCEPT ![m].lease_live = FALSE]
           \/ /\ runs[m].next_wakeup = "later"
              /\ runs' = [runs EXCEPT ![m].next_wakeup = "due"]
    PROVE  Others(m) /\ Lapsed(m)
  <1> DEFINE r == runs[m]
  <1>1. r \in MissionRun /\ runs \in [Mission -> MissionRun]
    BY DEF TypeInv, TypeOK
  <1>2. /\ Others(m)
        /\ \/ runs'[m] = r
           \/ runs'[m] = [r EXCEPT !.dispatched = FALSE, !.dispatch_live = FALSE]
           \/ runs'[m] = [r EXCEPT !.dispatch_live = FALSE]
           \/ runs'[m] = [r EXCEPT !.lease_live = FALSE]
           \/ r.next_wakeup = "later" /\ runs'[m] = [r EXCEPT !.next_wakeup = "due"]
    BY <1>1 DEF Others
  <1> QED
    BY <1>1, <1>2 DEF Lapsed, MissionRun, SameWriter

LEMMA FetchRow ==
    ASSUME TypeInv, NEW w \in Worker, Fetch(w)
    PROVE  UNCHANGED runs \/ \E m \in Mission : Others(m) /\ RowStep(m)
  <1> DEFINE m == driver[w].mission
             r == runs[m]
  <1>1. CASE ClaimLease(w)
    <2>1. m \in Mission /\ r \in MissionRun /\ runs \in [Mission -> MissionRun]
      BY <1>1 DEF ClaimLease, Idle, TypeInv, BusyHasMission, TypeOK
    <2> DEFINE q == [r EXCEPT !.lease_owner = w, !.lease_epoch = r.lease_epoch + 1,
                              !.lease_live = TRUE, !.next_wakeup = "none",
                              !.dispatched = FALSE, !.dispatch_live = FALSE]
    <2>2. runs' = [runs EXCEPT ![m] = q]
      BY <2>1, <1>1 DEF ClaimLease
    <2>3. runs'[m] = q /\ Others(m)
      BY <2>1, <2>2 DEF Others
    <2>4. /\ q.status = r.status /\ q.call = r.call
          /\ q.lease_owner = w /\ q.lease_live
          /\ q.lease_epoch = r.lease_epoch + 1
          /\ ~q.dispatched
          /\ q.dispatch_epoch = r.dispatch_epoch
          /\ SameWriter(r, q)
      BY <2>1 DEF MissionRun, SameWriter
    <2>5. /\ Live(m) /\ r.dispatched /\ ~LeaseActive(m)
          /\ DispatchActive(m) \/ SlowCommits
      BY <1>1 DEF ClaimLease, CanClaimLease, HoldsDispatch
    <2>6. w # None
      BY NoneAssumption
    <2> HIDE DEF q
    <2>7. Claimed(m)
      BY <2>3, <2>4, <2>5, <2>6 DEF Claimed
    <2> QED
      BY <2>1, <2>3, <2>7 DEF RowStep
  <1>2. CASE ReleaseDispatch(w)
    <2>1. m \in Mission
      BY <1>2 DEF ReleaseDispatch, Idle, TypeInv, BusyHasMission
    <2>2. \/ UNCHANGED runs
          \/ runs' = [runs EXCEPT ![m].dispatched = FALSE, ![m].dispatch_live = FALSE]
      BY <1>2 DEF ReleaseDispatch
    <2> QED
      BY <2>1, <2>2, LapsedRow DEF RowStep
  <1>3. ASSUME NEW msg \in queue,
               Deliver(w, msg) \/ DeliverToWaiting(w, msg) \/ DiscardDelivery(w, msg)
        PROVE  UNCHANGED runs
    BY <1>3 DEF Deliver, DeliverToWaiting, DiscardDelivery, Accept
  <1>4. CASE LeaseNotAcquired(w)
    BY <1>4 DEF LeaseNotAcquired
  <1> QED
    BY <1>1, <1>2, <1>3, <1>4 DEF Fetch

LEMMA DispatchingRow ==
    ASSUME TypeInv, Dispatching
    PROVE  UNCHANGED runs \/ \E m \in Mission : Others(m) /\ RowStep(m)
  <1>1. hints \subseteq Hint /\ publishing \subseteq Message
    BY DEF TypeInv, TypeOK
  <1>2. ASSUME NEW h \in hints, ClaimDispatch(h)
        PROVE  \E m \in Mission : Others(m) /\ RowStep(m)
    <2>1. h.mission \in Mission
      BY <1>1 DEF Hint
    <2> QED
      BY <1>2, <2>1, ReserveRow DEF ClaimDispatch, RowStep
  <1>3. ASSUME NEW msg \in publishing, NEW sent \in BOOLEAN, PublishFails(msg, sent)
        PROVE  \E m \in Mission : Others(m) /\ RowStep(m)
    <2>1. msg.mission \in Mission
      BY <1>1 DEF Message
    <2>2. \/ UNCHANGED runs
          \/ runs' = [runs EXCEPT ![msg.mission].dispatched = FALSE,
                                  ![msg.mission].dispatch_live = FALSE]
      BY <1>3 DEF PublishFails, ReleaseClaim
    <2> QED
      BY <2>1, <2>2, LapsedRow DEF RowStep
  <1> QED
    BY <1>2, <1>3 DEF Dispatching, DropHint, Publish, PublisherDies, LoseMessage

LEMMA ElsewhereRow ==
    ASSUME TypeInv, NEW m \in Mission, Elsewhere(m)
    PROVE  Others(m) /\ RowStep(m)
  <1> DEFINE r == runs[m]
  <1>1. r \in MissionRun /\ runs \in [Mission -> MissionRun]
    BY DEF TypeInv, TypeOK
  <1>2. ASSUME NEW q, runs' = [runs EXCEPT ![m] = q]
        PROVE  runs'[m] = q /\ Others(m)
    BY <1>1, <1>2 DEF Others
  <1>3. ASSUME NEW s \in {"planning", "waiting"}, Admit(m, s)
        PROVE  Others(m) /\ Prompted(m)
    <2> DEFINE k == IF s = "planning" THEN "due" ELSE "none"
               q == [r EXCEPT !.status = s, !.next_wakeup = k]
    <2>1. runs'[m] = q /\ Others(m)
      BY <1>1, <1>2, <1>3 DEF Admit
    <2>2. /\ q.status = s /\ q.next_wakeup = k
          /\ SameLease(r, q) /\ SameDispatch(r, q) /\ SameWriter(r, q)
      BY <1>1 DEF MissionRun, SameLease, SameDispatch, SameWriter
    <2>3. /\ Live(m) /\ s \notin Terminal /\ s # "created"
          /\ k # "none" \/ s = "waiting"
      BY <1>3 DEF Admit, Live, Terminal
    <2> HIDE DEF q, k
    <2> QED
      BY <2>1, <2>2, <2>3 DEF Prompted
  <1>4. ASSUME NEW type \in CommandType, AppendCommand(m, type)
        PROVE  Others(m) /\ Prompted(m)
    <2> DEFINE q == [r EXCEPT !.commands = Append(@, type), !.next_wakeup = "due"]
    <2>1. runs'[m] = q /\ Others(m)
      BY <1>1, <1>2, <1>4 DEF AppendCommand, Input
    <2>2. /\ q.status = r.status /\ q.next_wakeup = "due"
          /\ SameLease(r, q) /\ SameDispatch(r, q) /\ SameWriter(r, q)
      BY <1>1 DEF MissionRun, SameLease, SameDispatch, SameWriter
    <2> HIDE DEF q
    <2> QED
      BY <1>4, <2>1, <2>2 DEF Prompted, AppendCommand, Live
  <1>5. CASE ChangeModeAfterEnd(m)
    <2> DEFINE q == [r EXCEPT !.commands = Append(@, "mode"), !.last_applied = @ + 1]
    <2>1. runs'[m] = q /\ Others(m)
      BY <1>1, <1>2, <1>5 DEF ChangeModeAfterEnd, Input
    <2>2. /\ q.status = r.status /\ q.next_wakeup = r.next_wakeup /\ q.call = r.call
          /\ SameLease(r, q) /\ SameDispatch(r, q) /\ SameWriter(r, q)
      BY <1>1 DEF MissionRun, SameLease, SameDispatch, SameWriter
    <2> HIDE DEF q
    <2> QED
      BY <2>1, <2>2 DEF RowStep, Lapsed, SameLease, SameDispatch
  <1>6. ASSUME NEW s \in {"planning", "waiting"}, NEW k \in {"none", "due"},
               NEW t \in {r, Transition(r, s)}, NEW awake,
               Input(m, [t EXCEPT !.next_wakeup = k], awake),
               Live(m), r.status # "created", t.status \notin Terminal,
               k # "none" \/ t.status = "waiting",
               t = r \/ s = "waiting" \/ r.status = "waiting"
        PROVE  Others(m) /\ (Prompted(m) \/ Ended(m))
    <2>1. /\ runs'[m] = [t EXCEPT !.next_wakeup = k]
          /\ Others(m)
      BY <1>1, <1>2, <1>6 DEF Input
    <2>2. t \in MissionRun
      BY <1>1, TransitionType DEF Status
    <2>3. /\ runs'[m].status = t.status
          /\ runs'[m].next_wakeup = k
          /\ SameLease(t, runs'[m]) /\ SameDispatch(t, runs'[m])
          /\ SameWriter(t, runs'[m])
      BY <2>1, <2>2 DEF MissionRun, SameLease, SameDispatch, SameWriter
    <2>4. CASE t = r
      BY <1>6, <2>1, <2>3, <2>4 DEF Prompted
    <2>5. CASE t = Transition(r, s)
      <3>1. s \in Status /\ s \notin Terminal /\ s # "created"
        BY DEF Status, Terminal
      <3>2. /\ t.status = s
            /\ SameWriter(r, t)
            /\ t.lease_epoch = r.lease_epoch
            /\ SameDispatch(r, t)
            /\ s = "waiting" => t.lease_owner = None
            /\ s # "waiting" => SameLease(r, t)
        BY <1>1, <2>5, <3>1, TransitionRow DEF SameDispatch, SameWriter
      <3>3. CASE s = "waiting"
        BY <1>6, <2>1, <2>3, <3>2, <3>3
        DEF Ended, SameLease, SameDispatch, SameWriter
      <3>4. CASE s # "waiting"
        BY <1>6, <2>1, <2>3, <3>1, <3>2, <3>4
        DEF Prompted, SameLease, SameDispatch, SameWriter
      <3> QED
        BY <3>3, <3>4, <2>1
    <2> QED
      BY <2>4, <2>5
  <1>7. CASE Resume(m)
    <2>1. Live(m) /\ Transition(r, "planning").status \notin Terminal
      <3>1. Transition(r, "planning").status = "planning"
        BY <1>1, TransitionRow DEF Status
      <3> QED
        BY <1>7, <3>1 DEF Resume, Live, Terminal
    <2> QED
      BY <1>6, <1>7, <2>1 DEF Resume, RowStep
  <1>8. CASE ExpireReservation(m)
    <2> DEFINE t == IF r.status = "waiting" THEN r ELSE Transition(r, "waiting")
    <2>1. Live(m) /\ r.status # "created" /\ t.status = "waiting"
      <3>1. Transition(r, "waiting").status = "waiting"
        BY <1>1, TransitionRow DEF Status
      <3> QED
        BY <1>8, <3>1 DEF ExpireReservation, Live, Terminal
    <2>2. "waiting" \notin Terminal /\ t \in {r, Transition(r, "waiting")}
      BY DEF Terminal
    <2>3. Input(m, [t EXCEPT !.next_wakeup = "none"], FALSE)
      BY <1>8 DEF ExpireReservation
    <2> HIDE DEF t
    <2> QED
      BY <1>6, <2>1, <2>2, <2>3 DEF RowStep
  <1>9. ASSUME NEW resolves \in BOOLEAN, ReviewSettled(m, resolves)
        PROVE  RowStep(m) /\ Others(m)
    <2> DEFINE t == IF resolves /\ r.status = "waiting"
                      THEN Transition(r, "planning") ELSE r
    <2>1. Live(m) /\ r.status # "created" /\ t.status \notin Terminal
      <3>1. Transition(r, "planning").status = "planning"
        BY <1>1, TransitionRow DEF Status
      <3> QED
        BY <1>9, <3>1 DEF ReviewSettled, Live, Terminal
    <2>2. /\ t \in {r, Transition(r, "planning")}
          /\ t = r \/ r.status = "waiting"
      OBVIOUS
    <2>3. Input(m, [t EXCEPT !.next_wakeup = "due"], TRUE)
      BY <1>9 DEF ReviewSettled
    <2> HIDE DEF t
    <2> QED
      BY <1>6, <2>1, <2>2, <2>3 DEF RowStep
  <1>10. CASE Reconcile(m)
    BY <1>10, ReserveRow DEF Reconcile, RowStep
  <1>11. CASE WakeupFallsDue(m) \/ LeaseExpires(m) \/ DispatchExpires(m)
    BY <1>11, LapsedRow DEF WakeupFallsDue, LeaseExpires, DispatchExpires, RowStep
  <1> QED
    BY <1>3, <1>4, <1>5, <1>7, <1>8, <1>9, <1>10, <1>11 DEF Elsewhere, RowStep

\* Every step leaves the rows alone, or changes one of them in one of the six
\* ways.
LEMMA EveryRowStep ==
    ASSUME TypeInv, [Next]_vars
    PROVE  UNCHANGED runs \/ \E m \in Mission : Others(m) /\ RowStep(m)
  <1>1. ASSUME NEW w \in Worker, NEW redelivered \in BOOLEAN, Crash(w, redelivered)
        PROVE  UNCHANGED runs
    BY <1>1 DEF Crash
  <1> QED
    BY <1>1, SliceRow, FetchRow, DispatchingRow, ElsewhereRow DEF Next, vars, RowStep

-----------------------------------------------------------------------------
(* The invariants.                                                         *)

LEMMA EpochTypes ==
    ASSUME TypeInv, NEW m \in Mission
    PROVE  /\ runs[m].lease_epoch \in Nat
           /\ runs[m].dispatch_epoch \in Nat
           /\ runs[m].dispatched \in BOOLEAN
           /\ runs[m].next_wakeup \in {"none", "later", "due"}
           /\ runs[m].status \in Status
  BY DEF TypeInv, TypeOK, MissionRun

\* A lease consumes a dispatch generation of its own (claim_run_lease): no
\* repeated, late or superseded message ever buys a second lease, for any
\* number of Missions, workers and faults.
THEOREM GenerationBuysOneLease == Spec => []OneLeasePerGeneration
  <1> DEFINE IInv == TypeInv /\ OneLeasePerGeneration
  <1>1. Init => IInv
    BY InitType DEF Init, NewRun, OneLeasePerGeneration
  <1>2. IInv /\ [Next]_vars => IInv'
    <2> SUFFICES ASSUME TypeInv, OneLeasePerGeneration, [Next]_vars
                 PROVE  OneLeasePerGeneration'
      BY TypeStep
    <2> SUFFICES ASSUME NEW n \in Mission
                 PROVE  /\ runs'[n].lease_epoch <= runs'[n].dispatch_epoch
                        /\ runs'[n].dispatched =>
                               runs'[n].lease_epoch < runs'[n].dispatch_epoch
      BY DEF OneLeasePerGeneration
    <2>1. /\ runs[n].lease_epoch <= runs[n].dispatch_epoch
          /\ runs[n].dispatched => runs[n].lease_epoch < runs[n].dispatch_epoch
          /\ runs[n].lease_epoch \in Nat /\ runs[n].dispatch_epoch \in Nat
      BY EpochTypes DEF OneLeasePerGeneration
    <2>2. CASE runs'[n] = runs[n]
      BY <2>1, <2>2
    <2>3. CASE RowStep(n)
      <3>1. CASE Reserved(n)
        BY <2>1, <3>1 DEF Reserved, SameLease
      <3>2. CASE Claimed(n)
        BY <2>1, <3>2 DEF Claimed
      <3>3. CASE Driven(n) \/ Ended(n) \/ Prompted(n) \/ Lapsed(n)
        BY <2>1, <3>3
        DEF Driven, Ended, Prompted, Lapsed, SameLease, SameDispatch
      <3> QED
        BY <2>3, <3>1, <3>2, <3>3 DEF RowStep
    <2> QED
      BY <2>2, <2>3, EveryRowStep DEF Others
  <1>3. IInv => OneLeasePerGeneration
    OBVIOUS
  <1> QED
    BY <1>1, <1>2, <1>3, PTL DEF Spec

\* The writable Sandbox of a workspace has one user, for any number of
\* Missions, workspaces and workers, as long as every transaction commits
\* before the instants it compared with now() are over.
THEOREM SlotIsExclusive ==
    ASSUME ~SlowCommits
    PROVE  Spec => []OneSlotPerWorkspace
  <1> DEFINE IInv == TypeInv /\ OneSlotPerWorkspace
  <1>1. Init => IInv
    BY InitType
    DEF Init, NewRun, OneSlotPerWorkspace, SlotTaken, LeaseActive, DispatchActive
  <1>2. IInv /\ [Next]_vars => IInv'
    <2> SUFFICES ASSUME TypeInv, OneSlotPerWorkspace, [Next]_vars
                 PROVE  OneSlotPerWorkspace'
      BY TypeStep
    <2>1. CASE UNCHANGED runs
      BY <2>1 DEF OneSlotPerWorkspace, SlotTaken, LeaseActive, DispatchActive
    <2>2. ASSUME NEW k \in Mission, Others(k), RowStep(k)
          PROVE  OneSlotPerWorkspace'
      <3>1. ASSUME NEW n \in Mission \ {k}
            PROVE  SlotTaken(n)' <=> SlotTaken(n)
        BY <2>2, <3>1 DEF Others, SlotTaken, LeaseActive, DispatchActive
      <3>2. ASSUME Reserved(k), NEW n \in Mission \ {k},
                   WorkspaceOf[n] = WorkspaceOf[k]
            PROVE  ~SlotTaken(n)
        BY <3>2 DEF Reserved, SlotFree, Peers, SlotTaken
      <3>3. ASSUME ~Reserved(k), SlotTaken(k)'
            PROVE  SlotTaken(k)
        <4>1. runs[k].dispatched \in BOOLEAN
          BY EpochTypes
        <4>2. CASE Claimed(k)
          BY <4>2 DEF Claimed, SlotTaken
        <4>3. CASE Driven(k) \/ Ended(k) \/ Prompted(k) \/ Lapsed(k)
          BY <3>3, <4>3
          DEF Driven, Ended, Prompted, Lapsed, SameLease, SameDispatch,
              SlotTaken, LeaseActive, DispatchActive
        <4> QED
          BY <2>2, <3>3, <4>2, <4>3 DEF RowStep
      <3>4. CASE Reserved(k)
        BY <3>1, <3>2, <3>4 DEF OneSlotPerWorkspace
      <3>5. CASE ~Reserved(k)
        BY <3>1, <3>3, <3>5 DEF OneSlotPerWorkspace
      <3> QED
        BY <3>4, <3>5
    <2> QED
      BY <2>1, <2>2, EveryRowStep
  <1>3. IInv => OneSlotPerWorkspace
    OBVIOUS
  <1> QED
    BY <1>1, <1>2, <1>3, PTL DEF Spec

\* No Mission is lost: the row of a Mission that is neither over nor waiting
\* for somebody always says when to run it again, for any number of crashes
\* and lost messages, with slow transactions too.
THEOREM NoMissionIsLost == Spec => []AlwaysRecoverable
  <1> DEFINE IInv == TypeInv /\ AlwaysRecoverable
  <1>1. Init => IInv
    BY InitType DEF Init, NewRun, AlwaysRecoverable
  <1>2. IInv /\ [Next]_vars => IInv'
    <2> SUFFICES ASSUME TypeInv, AlwaysRecoverable, [Next]_vars, NEW n \in Mission,
                        runs'[n].status \in {"planning", "running"}
                 PROVE  runs'[n].next_wakeup # "none" \/ runs'[n].lease_owner # None
      BY TypeStep DEF AlwaysRecoverable
    <2>1. runs[n].status \in {"planning", "running"} =>
              runs[n].next_wakeup # "none" \/ runs[n].lease_owner # None
      BY DEF AlwaysRecoverable
    <2>2. CASE runs'[n] = runs[n]
      BY <2>1, <2>2
    <2>3. CASE RowStep(n)
      <3>1. runs'[n].status \notin Terminal /\ runs'[n].status # "waiting"
        BY DEF Terminal
      <3> QED
        BY <2>1, <2>3, <3>1
        DEF RowStep, Reserved, Claimed, Driven, Ended, Prompted, Lapsed, SameLease
    <2> QED
      BY <2>2, <2>3, EveryRowStep DEF Others
  <1>3. IInv => AlwaysRecoverable
    OBVIOUS
  <1> QED
    BY <1>1, <1>2, <1>3, PTL DEF Spec

=============================================================================
