-------------------------- MODULE ChatTurns_proofs --------------------------
(***************************************************************************)
(* Proofs about ChatTurns, for any number of calls, requests, threads and  *)
(* workers, any queue and any number of faults.                            *)
(***************************************************************************)
EXTENDS ChatTurns, SequenceTheorems, FiniteSetTheorems, TLAPS

-----------------------------------------------------------------------------
(* Types.  A process that is at work knows the run it works for.           *)

AtWork ==
    /\ \A w \in Worker : wpc[w] # "idle" => turn[w] \in Call
    /\ \A d \in Publisher : dpc[d] \in {"admitted", "owning", "published"} => about[d] \in Call
    /\ \A c \in Call : seen[c] # {} => plan[c] \in {"interrupt", "rollback"}

TypeInv == TypeOK /\ AtWork

LEMMA InitType == Init => TypeInv
  BY Bounds, EmptySeq DEF Init, TypeInv, TypeOK, AtWork, NoRun, RunRecord, Active, Terminal,
       Strategy, WorkerState, Executing, PublisherState, BillStatus

LEMMA SaidType ==
    ASSUME TypeInv, NEW t \in Thread, NEW q \in Request
    PROVE  /\ Said(t, User(q)) \in [Thread -> Seq(Message)]
           /\ Said(t, Assistant(q)) \in [Thread -> Seq(Message)]
<1>1. User(q) \in Message /\ Assistant(q) \in Message
  BY DEF User, Assistant, Message
<1>2. \A m \in Message : Append(messages[t], m) \in Seq(Message)
  BY AppendProperties DEF TypeInv, TypeOK
<1> QED
  BY <1>1, <1>2 DEF Said, TypeInv, TypeOK

LEMMA RollbackType ==
    ASSUME TypeInv, NEW t \in Thread, NEW q \in Request, Rollback(q, t)
    PROVE  bill' \in [Request -> BillStatus] /\ messages' \in [Thread -> Seq(Message)]
<1>1. bill' \in [Request -> BillStatus]
  BY DEF Rollback, ReleasedBill, TypeInv, TypeOK, BillStatus
<1>2. messages[t] \in Seq(Message)
  BY DEF TypeInv, TypeOK
<1>3. messages[t] # <<>> => SubSeq(messages[t], 1, Len(messages[t]) - 1) \in Seq(Message)
  <2>1. \A i \in 1 .. Len(messages[t]) - 1 : messages[t][i] \in Message
    BY <1>2, ElementOfSeq
  <2> QED
    BY <1>2, <2>1, LenProperties, SubSeqProperties
<1> QED
  BY <1>1, <1>2, <1>3 DEF Rollback, TypeInv, TypeOK

\* Every transaction of the DataService keeps the types of what it writes.
LEMMA BillingType ==
    ASSUME TypeInv, NEW t \in Thread, NEW q \in Request,
           \/ Authorized(q, t) \/ Release(q) \/ Complete(q, t) \/ UNCHANGED <<bill, messages>>
           \/ bill' = [bill EXCEPT ![q] = "released"] /\ messages' = Said(t, User(q))
    PROVE  bill' \in [Request -> BillStatus] /\ messages' \in [Thread -> Seq(Message)]
<1> DEFINE Typed == bill' \in [Request -> BillStatus] /\ messages' \in [Thread -> Seq(Message)]
<1>1. /\ bill \in [Request -> BillStatus]
      /\ \A b \in BillStatus : [bill EXCEPT ![q] = b] \in [Request -> BillStatus]
      /\ messages \in [Thread -> Seq(Message)]
  BY DEF TypeInv, TypeOK
<1>2. {"authorized", "settled", "released"} \subseteq BillStatus
  BY DEF BillStatus
<1>3. CASE Authorized(q, t)
  BY <1>1, <1>2, <1>3, SaidType, Zenon DEF Authorized
<1>4. CASE Release(q)
  BY <1>1, <1>2, <1>4, Zenon DEF Release, ReleasedBill
<1>5. CASE Complete(q, t)
  <2>1. \/ bill' = [bill EXCEPT ![q] = "settled"] /\ messages' = Said(t, Assistant(q))
        \/ UNCHANGED <<bill, messages>>
    BY <1>5 DEF Complete
  <2> QED BY <1>1, <1>2, <2>1, SaidType
<1> QED
  BY <1>1, <1>2, <1>3, <1>4, <1>5, SaidType, Zenon

LEMMA CancelExecutionType ==
    ASSUME TypeInv, NEW w \in Worker, turn[w] \in Call, CancelExecution(w)
    PROVE  bill' \in [Request -> BillStatus] /\ messages' \in [Thread -> Seq(Message)]
  BY BillingType DEF CancelExecution, Key, TypeInv, TypeOK, Release

\* Moving the record of one run keeps the type of the records.
LEMMA RunTypes ==
    ASSUME TypeInv, NEW r \in Call
    PROVE  /\ run[r] \in RunRecord
           /\ \A s \in Active \cup Terminal : [run EXCEPT ![r].status = s] \in [Call -> RunRecord]
           /\ \A a \in {"interrupt", "rollback"} : Cancelled(r, a) \in [Call -> RunRecord]
           /\ \A d \in Publisher : /\ ReleasedDispatch(d, r) \in [Call -> RunRecord]
                                   /\ [ReleasedDispatch(d, r) EXCEPT ![r].receipt = TRUE]
                                         \in [Call -> RunRecord]
                                   /\ [run EXCEPT ![r].publisher = d, ![r].plive = TRUE]
                                         \in [Call -> RunRecord]
           /\ \A b \in BOOLEAN : /\ [run EXCEPT ![r].live = b] \in [Call -> RunRecord]
                                 /\ [run EXCEPT ![r].plive = b] \in [Call -> RunRecord]
           /\ [run EXCEPT ![r].owner = None, ![r].live = FALSE] \in [Call -> RunRecord]
           /\ \A w \in Worker :
                [run EXCEPT ![r] = [@ EXCEPT !.status = "running", !.owner = w, !.live = TRUE]]
                    \in [Call -> RunRecord]
<1>1. run \in [Call -> RunRecord]
  BY DEF TypeInv, TypeOK
<1>2. run[r] \in RunRecord
  BY <1>1
<1>3. \A x \in RunRecord : [run EXCEPT ![r] = x] \in [Call -> RunRecord]
  BY <1>1
<1>4. \A s \in Active \cup Terminal : [run EXCEPT ![r].status = s] \in [Call -> RunRecord]
  <2>1. \A s \in Active \cup Terminal : [run[r] EXCEPT !.status = s] \in RunRecord
    BY <1>2 DEF RunRecord
  <2> QED BY <1>3, <2>1
<1>5. \A a \in {"interrupt", "rollback"} : Cancelled(r, a) \in [Call -> RunRecord]
  <2> TAKE a \in {"interrupt", "rollback"}
  <2>1. [run[r] EXCEPT !.status = "interrupted", !.abort = a] \in RunRecord
    BY <1>2 DEF RunRecord, Terminal
  <2>2. Cancelled(r, a)
        = [run EXCEPT ![r] = [run[r] EXCEPT !.status = "interrupted", !.abort = a]]
    BY <1>1, <1>2 DEF Cancelled, RunRecord
  <2> QED BY <1>3, <2>1, <2>2
<1>6. \A d \in Publisher : ReleasedDispatch(d, r) \in [Call -> RunRecord]
  <2>1. [run[r] EXCEPT !.publisher = None, !.plive = FALSE] \in RunRecord
    BY <1>2 DEF RunRecord
  <2>2. [run EXCEPT ![r].publisher = None, ![r].plive = FALSE]
        = [run EXCEPT ![r] = [run[r] EXCEPT !.publisher = None, !.plive = FALSE]]
    BY <1>1, <1>2 DEF RunRecord
  <2> QED BY <1>1, <1>3, <2>1, <2>2 DEF ReleasedDispatch
<1>7. \A d \in Publisher :
         [ReleasedDispatch(d, r) EXCEPT ![r].receipt = TRUE] \in [Call -> RunRecord]
  <2> TAKE d \in Publisher
  <2> DEFINE f == ReleasedDispatch(d, r)
  <2>1. f \in [Call -> RunRecord]
    BY <1>6
  <2> HIDE DEF f
  <2>2. [f[r] EXCEPT !.receipt = TRUE] \in RunRecord
    BY <2>1 DEF RunRecord
  <2>3. [f EXCEPT ![r].receipt = TRUE] \in [Call -> RunRecord]
    BY <2>1, <2>2
  <2> QED BY <2>3 DEF f
<1>8. \A d \in Publisher :
         [run EXCEPT ![r].publisher = d, ![r].plive = TRUE] \in [Call -> RunRecord]
  <2> TAKE d \in Publisher
  <2>1. [run[r] EXCEPT !.publisher = d, !.plive = TRUE] \in RunRecord
    BY <1>2 DEF RunRecord
  <2>2. [run EXCEPT ![r].publisher = d, ![r].plive = TRUE]
        = [run EXCEPT ![r] = [run[r] EXCEPT !.publisher = d, !.plive = TRUE]]
    BY <1>1, <1>2 DEF RunRecord
  <2> QED BY <1>3, <2>1, <2>2
<1>9. \A b \in BOOLEAN : /\ [run EXCEPT ![r].live = b] \in [Call -> RunRecord]
                         /\ [run EXCEPT ![r].plive = b] \in [Call -> RunRecord]
  <2>1. \A b \in BOOLEAN : /\ [run[r] EXCEPT !.live = b] \in RunRecord
                           /\ [run[r] EXCEPT !.plive = b] \in RunRecord
    BY <1>2 DEF RunRecord
  <2> QED BY <1>3, <2>1
<1>10. [run EXCEPT ![r].owner = None, ![r].live = FALSE] \in [Call -> RunRecord]
  <2>1. [run[r] EXCEPT !.owner = None, !.live = FALSE] \in RunRecord
    BY <1>2 DEF RunRecord
  <2>2. [run EXCEPT ![r].owner = None, ![r].live = FALSE]
        = [run EXCEPT ![r] = [run[r] EXCEPT !.owner = None, !.live = FALSE]]
    BY <1>1, <1>2 DEF RunRecord
  <2> QED BY <1>3, <2>1, <2>2
<1>11. \A w \in Worker :
         [run EXCEPT ![r] = [@ EXCEPT !.status = "running", !.owner = w, !.live = TRUE]]
             \in [Call -> RunRecord]
  <2>1. \A w \in Worker :
          [run[r] EXCEPT !.status = "running", !.owner = w, !.live = TRUE] \in RunRecord
    BY <1>2 DEF RunRecord, Active
  <2> QED BY <1>3, <2>1
<1> QED
  BY <1>2, <1>4, <1>5, <1>6, <1>7, <1>8, <1>9, <1>10, <1>11

\* The parts of the invariant, for the steps that leave them alone.
DispatchTypes ==
    /\ dpc \in [Publisher -> PublisherState]
    /\ about \in [Publisher -> Call \cup {None}]
    /\ \A d \in Publisher : dpc[d] \in {"admitted", "owning", "published"} => about[d] \in Call
PlanTypes ==
    /\ plan \in [Call -> Strategy]
    /\ seen \in [Call -> SUBSET Call]
    /\ \A c \in Call : seen[c] # {} => plan[c] \in {"interrupt", "rollback"}
WorkTypes ==
    /\ wpc \in [Worker -> WorkerState]
    /\ turn \in [Worker -> Call \cup {None}]
    /\ replay \in [Worker -> BOOLEAN]
    /\ \A w \in Worker : wpc[w] # "idle" => turn[w] \in Call
BillTypes == bill \in [Request -> BillStatus] /\ messages \in [Thread -> Seq(Message)]
OtherTypes ==
    /\ run \in [Call -> RunRecord]
    /\ queue \in [Call -> 0 .. MaxQueue]
    /\ sent \in [Worker -> Call \cup {None}]
    /\ ended \subseteq Call
    /\ faults \in 0 .. MaxFaults
    /\ request \in [Call -> Request]
    /\ thread \in [Call -> Thread]

LEMMA SchedulingType ==
    ASSUME TypeInv, NEW c \in Call,
           \/ Schedule(c) \/ CancelInflight(c) \/ CreateRun(c) \/ LeaveDispatch(c)
           \/ \E a \in {"interrupt", "rollback"} : Cancel(c, a)
    PROVE  TypeInv'
<1> USE DEF transport, publishers, workers, billing, DispatchTypes, PlanTypes, WorkTypes,
            BillTypes, OtherTypes
<1>1. c \in Publisher
  BY DEF Publisher
<1>2. CASE Schedule(c)
  <2>1. PICK strategy \in Strategy :
           LET same == {r \in Call : run[r].status # "absent" /\ request[r] = request[c]}
           IN  IF same # {}
               THEN /\ UNCHANGED <<plan, seen>>
                    /\ \E r \in same :
                        IF thread[r] = thread[c] THEN Admitted(c, r) ELSE Refused(c)
               ELSE IF strategy = "reject" /\ ActiveOf(thread[c]) # {}
               THEN Refused(c) /\ UNCHANGED <<plan, seen>>
               ELSE /\ plan' = [plan EXCEPT ![c] = strategy]
                    /\ seen' = [seen EXCEPT ![c] = ActiveOf(thread[c])]
                    /\ dpc' = [dpc EXCEPT ![c] = "scheduling"]
                    /\ UNCHANGED about
    BY <1>2 DEF Schedule
  <2>2. UNCHANGED <<request, thread, run, queue, ended, workers, billing, faults>>
    BY <1>2 DEF Schedule
  <2>3. PlanTypes'
    <3> DEFINE S == ActiveOf(thread[c])
    <3>1. S \in SUBSET Call
      BY DEF ActiveOf
    <3> HIDE DEF S
    <3>2. \/ UNCHANGED <<plan, seen>>
          \/ /\ plan' = [plan EXCEPT ![c] = strategy]
             /\ seen' = [seen EXCEPT ![c] = S]
             /\ strategy # "reject" \/ S = {}
      BY <2>1, Zenon DEF S
    <3> QED BY <3>1, <3>2 DEF TypeInv, TypeOK, AtWork, Strategy
  <2>4. DispatchTypes'
    <3>1. \/ \E r \in Call : Admitted(c, r)
          \/ Refused(c)
          \/ dpc' = [dpc EXCEPT ![c] = "scheduling"] /\ UNCHANGED about
      BY <2>1
    <3> QED BY <1>1, <3>1 DEF TypeInv, TypeOK, AtWork, Admitted, Refused, PublisherState
  <2> QED BY <2>2, <2>3, <2>4 DEF TypeInv, TypeOK, AtWork
<1>3. CASE CancelInflight(c)
  <2>1. PICK r \in seen[c] : /\ seen' = [seen EXCEPT ![c] = @ \ {r}]
                             /\ run' = IF IsActive(r) THEN Cancelled(r, plan[c]) ELSE run
    BY <1>3 DEF CancelInflight
  <2>2. UNCHANGED <<request, thread, queue, ended, dpc, about, plan, workers, billing, faults>>
    BY <1>3 DEF CancelInflight
  <2>3. run' \in [Call -> RunRecord]
    <3>1. r \in Call /\ plan[c] \in {"interrupt", "rollback"}
      BY DEF TypeInv, TypeOK, AtWork
    <3> QED BY <2>1, <3>1, RunTypes DEF TypeInv, TypeOK
  <2>4. PlanTypes'
    BY <2>1, <2>2 DEF TypeInv, TypeOK, AtWork
  <2> QED BY <2>2, <2>3, <2>4 DEF TypeInv, TypeOK, AtWork
<1>4. CASE CreateRun(c)
  <2>1. run' \in [Call -> RunRecord]
    BY <1>4, RunTypes DEF CreateRun, Active
  <2>2. DispatchTypes' /\ PlanTypes'
    BY <1>1, <1>4 DEF CreateRun, Admitted, TypeInv, TypeOK, AtWork, PublisherState, Strategy
  <2> QED BY <1>4, <2>1, <2>2 DEF CreateRun, TypeInv, TypeOK, AtWork
<1>5. CASE LeaveDispatch(c)
  BY <1>1, <1>5 DEF LeaveDispatch, Rest, TypeInv, TypeOK, AtWork, PublisherState
<1>6. CASE \E a \in {"interrupt", "rollback"} : Cancel(c, a)
  <2>1. run' \in [Call -> RunRecord]
    <3>1. PICK a \in {"interrupt", "rollback"} : Cancel(c, a)
      BY <1>6
    <3> QED BY <3>1, RunTypes DEF Cancel
  <2> QED BY <1>6, <2>1 DEF Cancel, TypeInv, TypeOK, AtWork
<1> QED
  BY <1>2, <1>3, <1>4, <1>5, <1>6

LEMMA PublisherType ==
    ASSUME TypeInv, NEW d \in Publisher,
           \/ \E r \in Call : ClaimDispatch(d, r)
           \/ Publish(d) \/ MarkDispatched(d) \/ PublishFails(d) \/ PublisherCrash(d)
    PROVE  TypeInv'
<1> USE DEF transport, publishers, workers, billing, DispatchTypes, PlanTypes, WorkTypes,
            BillTypes, OtherTypes
<1>1. \A r \in Call : Enqueue(r) => queue' \in [Call -> 0 .. MaxQueue]
  BY Bounds DEF Enqueue, TypeInv, TypeOK
<1>2. Fault => faults' \in 0 .. MaxFaults
  BY Bounds DEF Fault, TypeInv, TypeOK
<1>3. Rest(d) => DispatchTypes'
  BY DEF Rest, TypeInv, TypeOK, AtWork, PublisherState
<1>4. dpc[d] \in {"owning", "published"} => about[d] \in Call
  BY DEF TypeInv, AtWork
<1>5. ASSUME NEW r \in Call, ClaimDispatch(d, r) PROVE TypeInv'
  <2>1. DispatchTypes'
    BY <1>5 DEF ClaimDispatch, TypeInv, TypeOK, AtWork, PublisherState
  <2> QED BY <1>5, <2>1, RunTypes DEF ClaimDispatch, TypeInv, TypeOK, AtWork
<1>6. CASE Publish(d)
  <2>1. DispatchTypes'
    BY <1>4, <1>6 DEF Publish, TypeInv, TypeOK, AtWork, PublisherState
  <2> QED BY <1>1, <1>4, <1>6, <2>1 DEF Publish, TypeInv, TypeOK, AtWork
<1>7. CASE MarkDispatched(d)
  <2>1. run' \in [Call -> RunRecord]
    BY <1>4, <1>7, RunTypes DEF MarkDispatched, TypeInv, TypeOK
  <2> QED BY <1>3, <1>7, <2>1 DEF MarkDispatched, TypeInv, TypeOK, AtWork
<1>8. CASE PublishFails(d)
  <2>1. run' \in [Call -> RunRecord]
    BY <1>4, <1>8, RunTypes DEF PublishFails
  <2>2. queue' \in [Call -> 0 .. MaxQueue]
    BY <1>1, <1>4, <1>8 DEF PublishFails, TypeInv, TypeOK
  <2> QED BY <1>2, <1>3, <1>8, <2>1, <2>2 DEF PublishFails, TypeInv, TypeOK, AtWork
<1>9. CASE PublisherCrash(d)
  <2>1. PlanTypes'
    BY <1>9 DEF PublisherCrash, TypeInv, TypeOK, AtWork, Strategy
  <2> QED BY <1>2, <1>3, <1>9, <2>1 DEF PublisherCrash, TypeInv, TypeOK, AtWork
<1> QED
  BY <1>5, <1>6, <1>7, <1>8, <1>9

LEMMA LapseType ==
    ASSUME TypeInv, NEW r \in Call, DispatchLapse(r) \/ LeaseLapse(r)
    PROVE  TypeInv'
<1> USE DEF transport, publishers, workers, billing
<1>1. run' \in [Call -> RunRecord]
  <2>1. CASE DispatchLapse(r)
    BY <2>1, RunTypes DEF DispatchLapse
  <2>2. CASE LeaseLapse(r)
    BY <2>2, RunTypes DEF LeaseLapse
  <2> QED BY <2>1, <2>2
<1>2. faults' \in 0 .. MaxFaults
  BY Bounds DEF Fault, DispatchLapse, LeaseLapse, TypeInv, TypeOK
<1> QED
  BY <1>1, <1>2 DEF DispatchLapse, LeaseLapse, TypeInv, TypeOK, AtWork

LEMMA DeliveryType ==
    ASSUME TypeInv, NEW w \in Worker,
           \/ \E r \in Call : Deliver(w, r)
           \/ ClaimExecution(w) \/ ClaimRefused(w) \/ RenewExecutionClaim(w)
           \/ ExecutionLeaseUnavailable(w) \/ FinishTask(w) \/ WorkerCrash(w) \/ Redeliver(w)
    PROVE  TypeInv'
<1> USE DEF transport, publishers, workers, billing, DispatchTypes, PlanTypes, WorkTypes,
            BillTypes, OtherTypes
<1>1. \A r \in Call : Enqueue(r) => queue' \in [Call -> 0 .. MaxQueue]
  BY Bounds DEF Enqueue, TypeInv, TypeOK
<1>2. Fault => faults' \in 0 .. MaxFaults
  BY Bounds DEF Fault, TypeInv, TypeOK
<1>3. Idle(w) => WorkTypes'
  BY DEF Idle, Goto, TypeInv, TypeOK, AtWork, WorkerState
<1>4. wpc[w] # "idle" => turn[w] \in Call
  BY DEF TypeInv, AtWork
<1>5. ASSUME NEW r \in Call, Deliver(w, r) PROVE TypeInv'
  <2>1. WorkTypes'
    BY <1>5 DEF Deliver, Goto, TypeInv, TypeOK, AtWork, WorkerState
  <2>2. queue' \in [Call -> 0 .. MaxQueue]
    BY <1>5, Bounds DEF Deliver, TypeInv, TypeOK
  <2> QED BY <1>5, <2>1, <2>2 DEF Deliver, TypeInv, TypeOK, AtWork
<1>6. CASE ClaimExecution(w)
  <2>1. WorkTypes'
    BY <1>4, <1>6 DEF ClaimExecution, Goto, TypeInv, TypeOK, AtWork, WorkerState, Executing
  <2>2. run' \in [Call -> RunRecord]
    BY <1>4, <1>6, RunTypes DEF ClaimExecution
  <2> QED BY <1>6, <2>1, <2>2 DEF ClaimExecution, TypeInv, TypeOK, AtWork
<1>7. CASE ClaimRefused(w)
  BY <1>3, <1>7 DEF ClaimRefused, TypeInv, TypeOK, AtWork
<1>8. CASE RenewExecutionClaim(w)
  <2>1. run' \in [Call -> RunRecord]
    BY <1>4, <1>8, RunTypes DEF RenewExecutionClaim, Executing
  <2> QED BY <1>8, <2>1 DEF RenewExecutionClaim, TypeInv, TypeOK, AtWork
<1>9. CASE ExecutionLeaseUnavailable(w)
  <2>1. wpc[w] # "idle"
    BY <1>9 DEF ExecutionLeaseUnavailable, Executing
  <2>2. run' \in [Call -> RunRecord]
    BY <1>4, <1>9, <2>1, RunTypes DEF ExecutionLeaseUnavailable, TypeInv, TypeOK
  <2>3. BillTypes'
    BY <1>4, <1>9, <2>1, CancelExecutionType DEF ExecutionLeaseUnavailable
  <2>4. WorkTypes'
    BY <1>4, <1>9, <2>1 DEF ExecutionLeaseUnavailable, Goto, TypeInv, TypeOK, AtWork, WorkerState
  <2> QED BY <1>2, <1>9, <2>2, <2>3, <2>4 DEF ExecutionLeaseUnavailable, TypeInv, TypeOK, AtWork
<1>10. CASE FinishTask(w)
  <2>1. turn[w] \in Call
    BY <1>4, <1>10 DEF FinishTask
  <2>2. run' \in [Call -> RunRecord]
    BY <1>10, <2>1, RunTypes DEF FinishTask, TypeInv, TypeOK
  <2>3. queue' \in [Call -> 0 .. MaxQueue] /\ ended' \subseteq Call
    BY <1>1, <1>10, <2>1 DEF FinishTask, TypeInv, TypeOK
  <2>4. WorkTypes'
    BY <1>3, <1>10 DEF FinishTask
  <2> QED BY <1>10, <2>2, <2>3, <2>4 DEF FinishTask, TypeInv, TypeOK, AtWork
<1>11. CASE WorkerCrash(w)
  BY <1>1, <1>2, <1>3, <1>4, <1>11 DEF WorkerCrash, TypeInv, TypeOK, AtWork
<1>12. CASE Redeliver(w)
  BY <1>1, <1>2, <1>4, <1>12 DEF Redeliver, TypeInv, TypeOK, AtWork
<1> QED
  BY <1>5, <1>6, <1>7, <1>8, <1>9, <1>10, <1>11, <1>12

\* A step of a turn that moves its worker on.
TurnStep(w) ==
    \/ Authorize(w) \/ Decline(w) \/ AuthorizeLost(w) \/ Compensate(w) \/ BindThread(w)
    \/ PublishMetadataFails(w) \/ StreamFails(w) \/ SendComplete(w) \/ CompleteLost(w)
    \/ Succeed(w) \/ FailTurn(w) \/ AbortSeen(w) \/ Interrupt(w) \/ ExecutionLeaseLost(w)

\* What all of them have in common.
LEMMA TurnStepFrame ==
    ASSUME NEW w, TurnStep(w)
    PROVE  /\ wpc[w] \in Executing \cup {"compensating", "completed", "failed", "refused",
                                         "interrupting"}
           /\ \E l \in WorkerState \ {"idle"} : Goto(w, l)
           /\ UNCHANGED <<request, thread, queue, ended, publishers, turn>>
<1> USE DEF transport, publishers, workers, billing, Executing, InGenerator, WorkerState, Close
<1>1. ASSUME Authorize(w) \/ Decline(w) \/ AuthorizeLost(w) \/ Compensate(w)
      PROVE  /\ wpc[w] \in {"preparing", "compensating"}
             /\ \E l \in {"refused", "prepared", "compensating"} : Goto(w, l)
             /\ UNCHANGED <<request, thread, queue, ended, publishers, turn>>
  BY <1>1, Zenon DEF Authorize, Decline, AuthorizeLost, Compensate
<1>2. ASSUME \/ BindThread(w) \/ PublishMetadataFails(w) \/ StreamFails(w)
             \/ SendComplete(w) \/ CompleteLost(w)
      PROVE  /\ wpc[w] \in Executing
             /\ \E l \in {"streaming", "leaving", "closing", "failed", "completed", "settling"} :
                   Goto(w, l)
             /\ UNCHANGED <<request, thread, queue, ended, publishers, turn>>
  BY <1>2, Zenon DEF BindThread, PublishMetadataFails, StreamFails, SendComplete, CompleteLost
<1>3. ASSUME Succeed(w) \/ FailTurn(w)
      PROVE  /\ wpc[w] \in {"completed", "failed", "refused"}
             /\ \E l \in {"leaving", "closing"} : Goto(w, l)
             /\ UNCHANGED <<request, thread, queue, ended, publishers, turn>>
  BY <1>3, Zenon DEF Succeed, FailTurn, Finish
<1>4. ASSUME AbortSeen(w) \/ Interrupt(w) \/ ExecutionLeaseLost(w)
      PROVE  /\ wpc[w] \in Executing \cup {"completed", "failed", "refused", "interrupting"}
             /\ \E l \in {"leaving", "closing", "interrupting"} : Goto(w, l)
             /\ UNCHANGED <<request, thread, queue, ended, publishers, turn>>
  BY <1>4, Zenon DEF AbortSeen, Interrupt, ExecutionLeaseLost
<1> QED
  BY <1>1, <1>2, <1>3, <1>4 DEF TurnStep

LEMMA TurnType ==
    ASSUME TypeInv, NEW w \in Worker, TurnStep(w)
    PROVE  TypeInv'
<1> USE DEF transport, publishers, workers, billing
<1>1. turn[w] \in Call /\ Key(w) \in Request /\ thread[turn[w]] \in Thread
  <2>1. wpc[w] # "idle"
    BY TurnStepFrame DEF Executing
  <2> QED BY <2>1 DEF TypeInv, TypeOK, AtWork, Key
<1>2. Fault => faults' \in 0 .. MaxFaults
  BY Bounds DEF Fault, TypeInv, TypeOK
<1>3. BillTypes'
  <2>1. CASE \/ Authorize(w) \/ Decline(w) \/ AuthorizeLost(w) \/ Compensate(w) \/ BindThread(w)
    BY <1>1, <2>1, BillingType DEF Authorize, Decline, AuthorizeLost, Compensate, BindThread,
         BillTypes
  <2>2. CASE \/ PublishMetadataFails(w) \/ StreamFails(w) \/ SendComplete(w) \/ CompleteLost(w)
    BY <1>1, <2>2, BillingType DEF PublishMetadataFails, StreamFails, SendComplete, CompleteLost,
         BillTypes
  <2>3. CASE Succeed(w) \/ FailTurn(w)
    BY <1>1, <2>3, BillingType DEF Succeed, FailTurn, Finish, BillTypes
  <2>4. CASE AbortSeen(w) \/ ExecutionLeaseLost(w)
    BY <1>1, <2>4, CancelExecutionType DEF AbortSeen, ExecutionLeaseLost, BillTypes
  <2>5. CASE Interrupt(w)
    BY <1>1, <2>5, BillingType, RollbackType DEF Interrupt, BillTypes
  <2> QED BY <2>1, <2>2, <2>3, <2>4, <2>5 DEF TurnStep
<1>4. /\ replay' \in [Worker -> BOOLEAN]
      /\ sent' \in [Worker -> Call \cup {None}]
      /\ faults' \in 0 .. MaxFaults
  <2>1. CASE \/ Authorize(w) \/ Decline(w) \/ AuthorizeLost(w) \/ Compensate(w) \/ BindThread(w)
    BY <1>2, <2>1 DEF Authorize, Decline, AuthorizeLost, Compensate, BindThread, TypeInv, TypeOK
  <2>2. CASE \/ PublishMetadataFails(w) \/ StreamFails(w) \/ SendComplete(w) \/ CompleteLost(w)
    BY <1>1, <1>2, <2>2 DEF PublishMetadataFails, StreamFails, SendComplete, CompleteLost, TypeInv,
         TypeOK
  <2>3. CASE \/ Succeed(w) \/ FailTurn(w) \/ AbortSeen(w) \/ ExecutionLeaseLost(w) \/ Interrupt(w)
    BY <2>3 DEF Succeed, FailTurn, Finish, AbortSeen, ExecutionLeaseLost, Interrupt, TypeInv, TypeOK
  <2> QED BY <2>1, <2>2, <2>3 DEF TurnStep
<1>5. run' \in [Call -> RunRecord]
  <2>1. CASE Succeed(w) \/ FailTurn(w)
    <3>1. PICK status \in {"success", "error"} : TransitionStatus(w, turn[w], status)
      BY <2>1 DEF Succeed, FailTurn, Finish
    <3> QED BY <1>1, <3>1, RunTypes DEF TransitionStatus, Terminal, TypeInv, TypeOK
  <2>2. ASSUME ~(Succeed(w) \/ FailTurn(w)) PROVE run' = run
    BY <2>2, Zenon DEF TurnStep, Authorize, Decline, AuthorizeLost, Compensate, BindThread,
         PublishMetadataFails, StreamFails, SendComplete, CompleteLost, AbortSeen, Interrupt,
         ExecutionLeaseLost
  <2> QED BY <2>1, <2>2 DEF TypeInv, TypeOK
<1>6. WorkTypes'
  BY <1>1, <1>4, TurnStepFrame DEF WorkTypes, Goto, TypeInv, TypeOK, AtWork
<1> QED
  BY <1>3, <1>4, <1>5, <1>6, TurnStepFrame DEF TypeInv, TypeOK, AtWork, WorkTypes, BillTypes

LEMMA ServeType ==
    ASSUME TypeInv, NEW w \in Worker, ServeComplete(w)
    PROVE  TypeInv'
<1> USE DEF transport, publishers, workers
<1>1. sent[w] \in Call /\ request[sent[w]] \in Request /\ thread[sent[w]] \in Thread
  BY DEF ServeComplete, TypeInv, TypeOK
<1>2. BillTypes'
  BY <1>1, BillingType DEF ServeComplete, BillTypes
<1>3. WorkTypes'
  BY DEF ServeComplete, Goto, TypeInv, TypeOK, AtWork, WorkTypes, WorkerState, Executing
<1> QED
  BY <1>2, <1>3 DEF ServeComplete, TypeInv, TypeOK, AtWork, WorkTypes, BillTypes

LEMMA ExpireType ==
    ASSUME TypeInv, NEW q \in Request, Expire(q)
    PROVE  TypeInv'
  BY Bounds DEF Expire, Fault, TypeInv, TypeOK, AtWork, BillStatus, transport, publishers, workers

\* The steps of Next, by the lemma that speaks of them.
LEMMA NextSplit ==
    Next => \/ \E c \in Call : \/ Schedule(c) \/ CancelInflight(c) \/ CreateRun(c)
                               \/ LeaveDispatch(c)
                               \/ \E a \in {"interrupt", "rollback"} : Cancel(c, a)
            \/ \E d \in Publisher : \/ \E r \in Call : ClaimDispatch(d, r)
                                    \/ Publish(d) \/ MarkDispatched(d) \/ PublishFails(d)
                                    \/ PublisherCrash(d)
            \/ \E r \in Call : DispatchLapse(r) \/ LeaseLapse(r)
            \/ \E w \in Worker :
                  \/ \E r \in Call : Deliver(w, r)
                  \/ ClaimExecution(w) \/ ClaimRefused(w) \/ RenewExecutionClaim(w)
                  \/ ExecutionLeaseUnavailable(w) \/ FinishTask(w) \/ WorkerCrash(w) \/ Redeliver(w)
                  \/ TurnStep(w) \/ ServeComplete(w)
            \/ \E q \in Request : Expire(q)
<1>1. Beat \in Publisher /\ Call \subseteq Publisher
  BY DEF Publisher
<1> QED
  BY <1>1, Zenon DEF Next, CallStep, PublisherStep, WorkerStep, WorkerFault, TurnStep

LEMMA TypeStep == TypeInv /\ [Next]_vars => TypeInv'
<1> SUFFICES ASSUME TypeInv, [Next]_vars PROVE TypeInv'
  OBVIOUS
<1>1. CASE Next
  BY <1>1, NextSplit, SchedulingType, PublisherType, LapseType, DeliveryType, TurnType,
     ServeType, ExpireType
<1>2. CASE UNCHANGED vars
  BY <1>2 DEF vars, transport, publishers, workers, billing, TypeInv, TypeOK, AtWork
<1> QED
  BY <1>1, <1>2

\* Every variable keeps its type, and every process at work knows its run.
THEOREM TypeCorrect == Spec => []TypeOK
<1>1. TypeInv => TypeOK
  BY DEF TypeInv
<1> QED
  BY InitType, TypeStep, <1>1, PTL DEF Spec

-----------------------------------------------------------------------------
(* How the status and the owner of a run change.                           *)

Neutral(f) == \A s \in Call : f[s].status = run[s].status /\ f[s].owner = run[s].owner

LEMMA NeutralEdits ==
    ASSUME TypeInv, NEW r \in Call
    PROVE  /\ Neutral(run)
           /\ \A b : Neutral([run EXCEPT ![r].live = b])
           /\ \A b : Neutral([run EXCEPT ![r].plive = b])
           /\ \A d : /\ Neutral([run EXCEPT ![r].publisher = d, ![r].plive = TRUE])
                     /\ Neutral(ReleasedDispatch(d, r))
                     /\ Neutral([ReleasedDispatch(d, r) EXCEPT ![r].receipt = TRUE])
<1>1. run \in [Call -> RunRecord]
  BY DEF TypeInv, TypeOK
<1>2. \A b : Neutral([run EXCEPT ![r].live = b]) /\ Neutral([run EXCEPT ![r].plive = b])
  BY <1>1 DEF Neutral, RunRecord
<1>3. ASSUME NEW d PROVE Neutral([run EXCEPT ![r].publisher = d, ![r].plive = TRUE])
  BY <1>1 DEF Neutral, RunRecord
<1>4. ASSUME NEW d PROVE Neutral(ReleasedDispatch(d, r))
  BY <1>1 DEF Neutral, RunRecord, ReleasedDispatch
<1>5. ASSUME NEW d PROVE Neutral([ReleasedDispatch(d, r) EXCEPT ![r].receipt = TRUE])
  <2>1. CASE run[r].publisher = d
    BY <1>1, <2>1 DEF Neutral, RunRecord, ReleasedDispatch
  <2>2. CASE run[r].publisher # d
    BY <1>1, <2>2 DEF Neutral, RunRecord, ReleasedDispatch
  <2> QED BY <2>1, <2>2
<1> QED
  BY <1>1, <1>2, <1>3, <1>4, <1>5 DEF Neutral

\* The steps that change the status or the owner of some run.
Changes ==
    \/ \E c \in Call : \/ CancelInflight(c) \/ CreateRun(c)
                       \/ \E a \in {"interrupt", "rollback"} : Cancel(c, a)
    \/ \E w \in Worker : ClaimExecution(w) \/ FinishTask(w) \/ Succeed(w) \/ FailTurn(w)

LEMMA OthersAreNeutral ==
    ASSUME TypeInv, [Next]_vars, ~Changes
    PROVE  Neutral(run')
<1> USE DEF transport, publishers, workers, billing
<1>1. Neutral(run)
  BY DEF Neutral
<1>2. ASSUME NEW c \in Call, Schedule(c) \/ LeaveDispatch(c) PROVE Neutral(run')
  BY <1>1, <1>2 DEF Schedule, LeaveDispatch
<1>3. ASSUME NEW d \in Publisher,
             \/ \E r \in Call : ClaimDispatch(d, r)
             \/ Publish(d) \/ MarkDispatched(d) \/ PublishFails(d) \/ PublisherCrash(d)
      PROVE Neutral(run')
  <2>1. dpc[d] \in {"owning", "published"} => about[d] \in Call
    BY DEF TypeInv, AtWork
  <2>2. CASE \E r \in Call : ClaimDispatch(d, r)
    <3>1. PICK r \in Call : run' = [run EXCEPT ![r].publisher = d, ![r].plive = TRUE]
      BY <2>2 DEF ClaimDispatch
    <3> QED BY <3>1, NeutralEdits
  <2>3. CASE Publish(d) \/ PublisherCrash(d)
    BY <1>1, <2>3 DEF Publish, PublisherCrash
  <2>4. CASE MarkDispatched(d)
    BY <1>1, <2>1, <2>4, NeutralEdits DEF MarkDispatched
  <2>5. CASE PublishFails(d)
    BY <2>1, <2>5, NeutralEdits DEF PublishFails
  <2> QED BY <1>3, <2>2, <2>3, <2>4, <2>5
<1>4. ASSUME NEW r \in Call, DispatchLapse(r) \/ LeaseLapse(r) PROVE Neutral(run')
  <2>1. CASE DispatchLapse(r)
    BY <2>1, NeutralEdits DEF DispatchLapse
  <2>2. CASE LeaseLapse(r)
    BY <2>2, NeutralEdits DEF LeaseLapse
  <2> QED BY <1>4, <2>1, <2>2
<1>5. ASSUME NEW w \in Worker,
             \/ \E r \in Call : Deliver(w, r)
             \/ ClaimRefused(w) \/ RenewExecutionClaim(w)
             \/ ExecutionLeaseUnavailable(w) \/ WorkerCrash(w) \/ Redeliver(w)
             \/ ServeComplete(w)
      PROVE Neutral(run')
  <2>1. wpc[w] # "idle" => turn[w] \in Call
    BY DEF TypeInv, AtWork
  <2>2. CASE \/ \E r \in Call : Deliver(w, r)
             \/ ClaimRefused(w) \/ WorkerCrash(w) \/ Redeliver(w) \/ ServeComplete(w)
    BY <1>1, <2>2 DEF Deliver, ClaimRefused, WorkerCrash, Redeliver, ServeComplete
  <2>3. CASE RenewExecutionClaim(w)
    BY <2>1, <2>3, NeutralEdits DEF RenewExecutionClaim, Executing
  <2>4. CASE ExecutionLeaseUnavailable(w)
    BY <1>1, <2>1, <2>4, NeutralEdits DEF ExecutionLeaseUnavailable, Executing
  <2> QED BY <1>5, <2>2, <2>3, <2>4
<1>6. ASSUME NEW w \in Worker, TurnStep(w) PROVE Neutral(run')
  BY <1>1, <1>6, Zenon DEF Changes, TurnStep, Authorize, Decline, AuthorizeLost, Compensate,
         BindThread, PublishMetadataFails, StreamFails, SendComplete, CompleteLost, AbortSeen,
         Interrupt, ExecutionLeaseLost
<1>7. ASSUME NEW q \in Request, Expire(q) PROVE Neutral(run')
  BY <1>1, <1>7 DEF Expire
<1>8. CASE UNCHANGED vars
  BY <1>1, <1>8 DEF vars
<1>9. CASE Next
  BY <1>2, <1>3, <1>4, <1>5, <1>6, <1>7, <1>9, NextSplit, Zenon DEF Changes
<1> QED
  BY <1>8, <1>9

\* What the others do to the status.
LEMMA StatusChange ==
    ASSUME TypeInv, [Next]_vars, NEW r \in Call, run'[r].status # run[r].status
    PROVE  \/ CreateRun(r) /\ run'[r].status = "pending"
           \/ IsActive(r) /\ run'[r].status = "interrupted"
           \/ run[r].status = "pending" /\ run'[r].status = "running"
           \/ \E w \in Worker : /\ HoldsRun(w, r) /\ turn[w] = r
                                /\ \/ Succeed(w) /\ run'[r].status = "success"
                                   \/ FailTurn(w) /\ run'[r].status = "error"
<1>1. run \in [Call -> RunRecord]
  BY DEF TypeInv, TypeOK
<1>2. Changes
  BY OthersAreNeutral DEF Neutral
<1>3. ASSUME NEW x \in Call, NEW a, run' = IF IsActive(x) THEN Cancelled(x, a) ELSE run
      PROVE  IsActive(r) /\ run'[r].status = "interrupted"
  BY <1>1, <1>3 DEF Cancelled, RunRecord
<1>4. ASSUME NEW c \in Call, CancelInflight(c) PROVE IsActive(r) /\ run'[r].status = "interrupted"
  <2>1. PICK x \in seen[c] : run' = IF IsActive(x) THEN Cancelled(x, plan[c]) ELSE run
    BY <1>4 DEF CancelInflight
  <2>2. x \in Call
    BY DEF TypeInv, TypeOK
  <2> QED BY <1>3, <2>1, <2>2
<1>5. ASSUME NEW c \in Call, CreateRun(c) PROVE CreateRun(r) /\ run'[r].status = "pending"
  BY <1>1, <1>5 DEF CreateRun, RunRecord
<1>6. ASSUME NEW c \in Call, NEW a \in {"interrupt", "rollback"}, Cancel(c, a)
      PROVE IsActive(r) /\ run'[r].status = "interrupted"
  BY <1>3, <1>6 DEF Cancel
<1>7. ASSUME NEW w \in Worker, ClaimExecution(w)
      PROVE run[r].status = "pending" /\ run'[r].status = "running"
  <2>1. turn[w] \in Call
    BY <1>7 DEF ClaimExecution, TypeInv, AtWork
  <2> QED BY <1>1, <1>7, <2>1 DEF ClaimExecution, Claimable, RunRecord
<1>8. ASSUME NEW w \in Worker, FinishTask(w) PROVE FALSE
  <2>1. turn[w] \in Call
    BY <1>8 DEF FinishTask, TypeInv, AtWork
  <2> QED BY <1>1, <1>8, <2>1 DEF FinishTask, RunRecord
<1>9. ASSUME NEW w \in Worker, Succeed(w) \/ FailTurn(w)
      PROVE /\ HoldsRun(w, r) /\ turn[w] = r
            /\ \/ Succeed(w) /\ run'[r].status = "success"
               \/ FailTurn(w) /\ run'[r].status = "error"
  <2>1. turn[w] \in Call
    BY <1>9 DEF Succeed, FailTurn, Finish, TypeInv, AtWork
  <2>2. ASSUME NEW status, TransitionStatus(w, turn[w], status)
        PROVE HoldsRun(w, r) /\ turn[w] = r /\ run'[r].status = status
    BY <1>1, <2>1, <2>2 DEF TransitionStatus, RunRecord
  <2> QED BY <1>9, <2>2 DEF Succeed, FailTurn, Finish
<1> QED
  BY <1>2, <1>4, <1>5, <1>6, <1>7, <1>8, <1>9 DEF Changes

-----------------------------------------------------------------------------
(* What has been charged stays charged, and a worker that reports success  *)
(* has seen the charge.                                                    *)

Settled(r) == bill[request[r]] = "settled"

\* A worker asks for one completion at a time, and for its own turn.
SettledInv ==
    /\ \A w \in Worker : wpc[w] = "settling" => sent[w] = turn[w]
    /\ \A w \in Worker : wpc[w] = "completed" => Settled(turn[w])
    /\ \A w \in Worker : replay[w] => wpc[w] # "idle" /\ Settled(turn[w])
    /\ SuccessIsSettled

\* A transaction on one row leaves every settled row settled.
LEMMA BillingKeeps ==
    ASSUME TypeInv, NEW t, NEW q \in Request, NEW p \in Request, bill[p] = "settled",
           \/ Authorized(q, t) \/ Release(q) \/ Rollback(q, t) \/ Complete(q, t)
           \/ UNCHANGED <<bill, messages>>
    PROVE  bill'[p] = "settled"
  BY DEF Authorized, Release, Rollback, ReleasedBill, Complete, TypeInv, TypeOK

LEMMA SettledStays ==
    ASSUME TypeInv, [Next]_vars
    PROVE  request' = request /\ \A p \in Request : bill[p] = "settled" => bill'[p] = "settled"
<1> USE DEF transport, publishers, workers, billing
<1>1. request' = request
  BY NextSplit, TurnStepFrame, Zenon DEF vars, Schedule, CancelInflight, CreateRun, LeaveDispatch,
       Cancel, ClaimDispatch, Publish, MarkDispatched, PublishFails, PublisherCrash, DispatchLapse,
       LeaseLapse, Deliver, ClaimExecution, ClaimRefused, RenewExecutionClaim,
       ExecutionLeaseUnavailable, FinishTask, WorkerCrash, Redeliver, ServeComplete, Expire
<1> SUFFICES ASSUME NEW p \in Request, bill[p] = "settled" PROVE bill'[p] = "settled"
  BY <1>1
<1>2. ASSUME NEW w \in Worker, turn[w] \in Call, CancelExecution(w) PROVE bill'[p] = "settled"
  <2>1. Key(w) \in Request
    BY <1>2 DEF Key, TypeInv, TypeOK
  <2>2. CASE wpc[w] = "preparing" /\ bill[Key(w)] = "none"
    <3>1. \/ bill' = [bill EXCEPT ![Key(w)] = "released"]
          \/ bill' = ReleasedBill(Key(w))
          \/ bill' = bill
      BY <1>2, Zenon DEF CancelExecution, Release
    <3> QED BY <2>1, <2>2, <3>1 DEF ReleasedBill, TypeInv, TypeOK
  <2>3. CASE ~(wpc[w] = "preparing" /\ bill[Key(w)] = "none")
    BY <1>2, <2>1, <2>3, BillingKeeps DEF CancelExecution
  <2> QED BY <2>2, <2>3
<1>3. ASSUME NEW w \in Worker, TurnStep(w) PROVE bill'[p] = "settled"
  <2>1. turn[w] \in Call /\ Key(w) \in Request
    <3>1. wpc[w] # "idle"
      BY <1>3, TurnStepFrame DEF Executing
    <3> QED BY <3>1 DEF TypeInv, TypeOK, AtWork, Key
  <2>2. CASE \/ Authorize(w) \/ Decline(w) \/ AuthorizeLost(w) \/ Compensate(w) \/ BindThread(w)
    BY <2>1, <2>2, BillingKeeps DEF Authorize, Decline, AuthorizeLost, Compensate, BindThread
  <2>3. CASE \/ PublishMetadataFails(w) \/ StreamFails(w) \/ SendComplete(w) \/ CompleteLost(w)
    BY <2>1, <2>3, BillingKeeps DEF PublishMetadataFails, StreamFails, SendComplete, CompleteLost
  <2>4. CASE Succeed(w) \/ FailTurn(w)
    BY <2>4 DEF Succeed, FailTurn, Finish
  <2>5. CASE AbortSeen(w) \/ ExecutionLeaseLost(w)
    BY <1>2, <2>1, <2>5 DEF AbortSeen, ExecutionLeaseLost
  <2>6. CASE Interrupt(w)
    BY <2>1, <2>6, BillingKeeps DEF Interrupt
  <2> QED BY <1>3, <2>2, <2>3, <2>4, <2>5, <2>6 DEF TurnStep
<1>4. ASSUME NEW w \in Worker, ServeComplete(w) PROVE bill'[p] = "settled"
  <2>1. request[sent[w]] \in Request
    BY <1>4 DEF ServeComplete, TypeInv, TypeOK
  <2> QED BY <1>4, <2>1, BillingKeeps DEF ServeComplete
<1>5. ASSUME NEW w \in Worker, ExecutionLeaseUnavailable(w) PROVE bill'[p] = "settled"
  <2>1. turn[w] \in Call
    BY <1>5 DEF ExecutionLeaseUnavailable, Executing, TypeInv, AtWork
  <2> QED BY <1>2, <1>5, <2>1 DEF ExecutionLeaseUnavailable
<1>6. ASSUME NEW q \in Request, Expire(q) PROVE bill'[p] = "settled"
  BY <1>6 DEF Expire, TypeInv, TypeOK
<1>7. \/ bill' = bill
      \/ \E w \in Worker : TurnStep(w) \/ ServeComplete(w) \/ ExecutionLeaseUnavailable(w)
      \/ \E q \in Request : Expire(q)
  BY NextSplit, Zenon DEF vars, Schedule, CancelInflight, CreateRun, LeaveDispatch,
       Cancel, ClaimDispatch, Publish, MarkDispatched, PublishFails, PublisherCrash, DispatchLapse,
       LeaseLapse, Deliver, ClaimExecution, ClaimRefused, RenewExecutionClaim, FinishTask,
       WorkerCrash, Redeliver
<1> QED
  BY <1>3, <1>4, <1>5, <1>6, <1>7

\* A worker comes to report success only from the charge, seen or replayed.
LEMMA SettledStep == TypeInv /\ SettledInv /\ [Next]_vars => SettledInv'
<1> SUFFICES ASSUME TypeInv, SettledInv, [Next]_vars PROVE SettledInv'
  OBVIOUS
<1> USE DEF transport, publishers, workers, billing
<1>1. TypeInv'
  BY TypeStep
<1>2. \A r \in Call : Settled(r) => Settled(r)'
  BY SettledStays DEF Settled, TypeInv, TypeOK
<1>3. ASSUME NEW w \in Worker, TurnStep(w)
      PROVE  /\ wpc'[w] = "settling" => sent'[w] = turn'[w]
             /\ wpc'[w] = "completed" => Settled(turn[w])'
             /\ replay'[w] => Settled(turn[w])'
             /\ wpc'[w] # "idle"
             /\ wpc' = [wpc EXCEPT ![w] = wpc'[w]] /\ replay' = [replay EXCEPT ![w] = replay'[w]]
             /\ \A v \in Worker : v # w => sent'[v] = sent[v]
  <2>1. turn[w] \in Call
    BY <1>3, TurnStepFrame DEF Executing, TypeInv, TypeOK, AtWork
  <2>2. turn' = turn /\ request' = request
    BY <1>3, TurnStepFrame
  <2>3. CASE Authorize(w)
    BY <1>2, <2>1, <2>2, <2>3 DEF Authorize, Goto, Settled, Key, Authorized, TypeInv, TypeOK, SettledInv
  <2>4. CASE SendComplete(w)
    BY <1>2, <2>1, <2>2, <2>4 DEF SendComplete, Goto, TypeInv, TypeOK, SettledInv
  <2>5. CASE CompleteLost(w)
    BY <1>2, <2>1, <2>2, <2>5 DEF CompleteLost, Goto, TypeInv, TypeOK, SettledInv
  <2>6. CASE \/ Decline(w) \/ AuthorizeLost(w) \/ Compensate(w) \/ BindThread(w)
             \/ PublishMetadataFails(w) \/ StreamFails(w)
    BY <1>2, <2>1, <2>2, <2>6 DEF Decline, AuthorizeLost, Compensate, BindThread,
         PublishMetadataFails, StreamFails, Close, Goto, TypeInv, TypeOK, SettledInv
  <2>7. CASE \/ Succeed(w) \/ FailTurn(w) \/ AbortSeen(w) \/ Interrupt(w) \/ ExecutionLeaseLost(w)
    BY <1>2, <2>1, <2>2, <2>7 DEF Succeed, FailTurn, Finish, AbortSeen, Interrupt,
         ExecutionLeaseLost, Close, Goto, TypeInv, TypeOK, SettledInv
  <2> QED BY <1>3, <2>3, <2>4, <2>5, <2>6, <2>7 DEF TurnStep
<1>4. SuccessIsSettled'
  <2> SUFFICES ASSUME NEW r \in Call, run'[r].status = "success" PROVE Settled(r)'
    BY DEF SuccessIsSettled, Settled
  <2>1. CASE run[r].status = "success"
    BY <1>2, <2>1 DEF SettledInv, SuccessIsSettled, Settled
  <2>2. CASE run[r].status # "success"
    <3>1. PICK w \in Worker : turn[w] = r /\ Succeed(w)
      BY <2>2, StatusChange
    <3>2. wpc[w] = "completed"
      BY <3>1 DEF Succeed, Finish
    <3> QED BY <1>2, <3>1, <3>2 DEF SettledInv
  <2> QED BY <2>1, <2>2
<1>5. ASSUME NEW w \in Worker, TurnStep(w) PROVE SettledInv'
  <2>1. \A v \in Worker \ {w} : /\ wpc'[v] = wpc[v] /\ turn'[v] = turn[v] /\ replay'[v] = replay[v]
                                /\ sent'[v] = sent[v]
    BY <1>3, <1>5, TurnStepFrame DEF TypeInv, TypeOK
  <2>2. \A v \in Worker \ {w} : wpc[v] # "idle" => turn[v] \in Call
    BY DEF TypeInv, AtWork
  <2>3. \A v \in Worker : wpc'[v] = "settling" => sent'[v] = turn'[v]
    BY <1>3, <1>5, <2>1 DEF SettledInv
  <2>4. \A v \in Worker : wpc'[v] = "completed" => Settled(turn[v])'
    <3>1. \A v \in Worker \ {w} : wpc[v] = "completed" => turn[v] \in Call /\ Settled(turn[v])
      BY <2>2 DEF SettledInv
    <3> QED BY <1>2, <1>3, <1>5, <2>1, <3>1 DEF Settled
  <2>5. \A v \in Worker : replay'[v] => wpc'[v] # "idle" /\ Settled(turn[v])'
    <3>1. \A v \in Worker \ {w} : replay[v] =>
             wpc[v] # "idle" /\ turn[v] \in Call /\ Settled(turn[v])
      BY <2>2 DEF SettledInv
    <3> QED BY <1>2, <1>3, <1>5, <2>1, <3>1 DEF Settled
  <2> QED BY <1>4, <2>3, <2>4, <2>5 DEF SettledInv
\* Steps that bring no worker nearer to a success.
<1>6. ASSUME \A v \in Worker : \/ wpc'[v] = wpc[v] /\ turn'[v] = turn[v] /\ replay'[v] = replay[v]
                               \/ wpc'[v] \notin {"settling", "completed"} /\ ~replay'[v]
                               \/ /\ wpc'[v] \notin {"settling", "completed", "idle"}
                                  /\ turn'[v] = turn[v] /\ replay'[v] = replay[v],
             sent' = sent
      PROVE  SettledInv'
  <2>1. \A v \in Worker : wpc'[v] = "settling" => sent'[v] = turn'[v]
    BY <1>6 DEF SettledInv
  <2>2. \A v \in Worker : wpc[v] # "idle" => turn[v] \in Call
    BY DEF TypeInv, AtWork
  <2>3. \A v \in Worker : wpc'[v] = "completed" => Settled(turn[v])'
    <3>1. \A v \in Worker : wpc[v] = "completed" => turn[v] \in Call /\ Settled(turn[v])
      BY <2>2 DEF SettledInv
    <3> QED BY <1>2, <1>6, <3>1 DEF Settled
  <2>4. \A v \in Worker : replay'[v] => wpc'[v] # "idle" /\ Settled(turn[v])'
    <3>1. \A v \in Worker : replay[v] => wpc[v] # "idle" /\ turn[v] \in Call /\ Settled(turn[v])
      BY <2>2 DEF SettledInv
    <3> QED BY <1>2, <1>6, <3>1 DEF Settled
  <2> QED BY <1>4, <2>1, <2>3, <2>4 DEF SettledInv
<1>7. ASSUME NEW w \in Worker, ServeComplete(w) PROVE SettledInv'
  <2>1. sent[w] \in Call /\ run' = run /\ turn' = turn /\ replay' = replay /\ request' = request
    BY <1>7 DEF ServeComplete, TypeInv, TypeOK
  <2>2. /\ \A v \in Worker \ {w} : sent'[v] = sent[v] /\ wpc'[v] = wpc[v]
        /\ wpc[w] # "settling" => wpc'[w] = wpc[w]
        /\ wpc[w] = "settling" => wpc'[w] \in {"completed", "failed"}
        /\ wpc'[w] # "settling"
    BY <1>7 DEF ServeComplete, Goto, TypeInv, TypeOK
  <2>3. wpc[w] = "settling" /\ wpc'[w] = "completed" => Settled(turn[w])'
    <3>1. SUFFICES ASSUME wpc[w] = "settling", wpc'[w] = "completed" PROVE Settled(turn[w])'
      OBVIOUS
    <3>2. sent[w] = turn[w]
      BY <3>1 DEF SettledInv
    <3>3. bill[request[sent[w]]] \in {"authorized", "settled"}
      BY <1>7, <3>1 DEF ServeComplete, Goto, TypeInv, TypeOK
    <3>4. request[sent[w]] \in Request
      BY <2>1 DEF TypeInv, TypeOK
    <3>5. bill'[request[sent[w]]] = "settled"
      BY <1>7, <3>3, <3>4 DEF ServeComplete, Complete, TypeInv, TypeOK
    <3> QED BY <2>1, <3>2, <3>5 DEF Settled
  <2>4. \A v \in Worker : wpc[v] # "idle" => turn[v] \in Call
    BY DEF TypeInv, AtWork
  <2>5. \A v \in Worker : wpc'[v] = "settling" => sent'[v] = turn'[v]
    BY <2>1, <2>2 DEF SettledInv
  <2>6. \A v \in Worker : wpc'[v] = "completed" => Settled(turn[v])'
    <3>1. \A v \in Worker : wpc[v] = "completed" => turn[v] \in Call /\ Settled(turn[v])
      BY <2>4 DEF SettledInv
    <3> QED BY <1>2, <2>1, <2>2, <2>3, <3>1 DEF Settled
  <2>7. \A v \in Worker : replay'[v] => wpc'[v] # "idle" /\ Settled(turn[v])'
    <3>1. \A v \in Worker : replay[v] => wpc[v] # "idle" /\ turn[v] \in Call /\ Settled(turn[v])
      BY <2>4 DEF SettledInv
    <3> QED BY <1>2, <2>1, <2>2, <3>1 DEF Settled
  <2> QED BY <1>4, <2>5, <2>6, <2>7 DEF SettledInv
<1>8. ASSUME NEW w \in Worker,
             \/ \E r \in Call : Deliver(w, r)
             \/ ClaimExecution(w) \/ ClaimRefused(w) \/ RenewExecutionClaim(w)
             \/ ExecutionLeaseUnavailable(w) \/ FinishTask(w) \/ WorkerCrash(w) \/ Redeliver(w)
      PROVE  SettledInv'
  <2>3. sent' = sent
    BY <1>8 DEF Deliver, ClaimExecution, ClaimRefused, RenewExecutionClaim,
         ExecutionLeaseUnavailable, FinishTask, WorkerCrash, Redeliver
  <2>4. \A v \in Worker \ {w} : wpc'[v] = wpc[v] /\ turn'[v] = turn[v] /\ replay'[v] = replay[v]
    BY <1>8 DEF Deliver, ClaimExecution, ClaimRefused, RenewExecutionClaim,
         ExecutionLeaseUnavailable, FinishTask, WorkerCrash, Redeliver, Idle, Goto, TypeInv, TypeOK
  <2>5. \/ wpc'[w] = wpc[w] /\ turn'[w] = turn[w] /\ replay'[w] = replay[w]
        \/ wpc'[w] \notin {"settling", "completed"} /\ ~replay'[w]
        \/ /\ wpc'[w] \notin {"settling", "completed", "idle"}
           /\ turn'[w] = turn[w] /\ replay'[w] = replay[w]
    <3>1. CASE \E r \in Call : Deliver(w, r)
      BY <3>1 DEF Deliver, Goto, SettledInv, TypeInv, TypeOK
    <3>2. CASE \/ ClaimExecution(w) \/ ClaimRefused(w) \/ RenewExecutionClaim(w)
               \/ ExecutionLeaseUnavailable(w) \/ FinishTask(w) \/ WorkerCrash(w) \/ Redeliver(w)
      BY <3>2 DEF ClaimExecution, ClaimRefused, RenewExecutionClaim,
         ExecutionLeaseUnavailable, FinishTask, WorkerCrash, Redeliver, Idle, Goto, TypeInv, TypeOK
    <3> QED BY <1>8, <3>1, <3>2
  <2> QED BY <1>6, <2>3, <2>4, <2>5
<1>9. ASSUME \/ \E c \in Call : \/ Schedule(c) \/ CancelInflight(c) \/ CreateRun(c)
                                \/ LeaveDispatch(c)
                                \/ \E a \in {"interrupt", "rollback"} : Cancel(c, a)
             \/ \E d \in Publisher : \/ \E r \in Call : ClaimDispatch(d, r)
                                     \/ Publish(d) \/ MarkDispatched(d) \/ PublishFails(d)
                                     \/ PublisherCrash(d)
             \/ \E r \in Call : DispatchLapse(r) \/ LeaseLapse(r)
             \/ \E q \in Request : Expire(q)
             \/ UNCHANGED vars
      PROVE  SettledInv'
  <2>1. UNCHANGED <<wpc, turn, replay, sent>>
    BY <1>9, Zenon DEF vars, Schedule, CancelInflight, CreateRun, LeaveDispatch,
       Cancel, ClaimDispatch, Publish, MarkDispatched, PublishFails, PublisherCrash, DispatchLapse,
       LeaseLapse, Expire
  <2> QED BY <1>6, <2>1
<1> QED
  BY <1>5, <1>7, <1>8, <1>9, NextSplit

\* A turn the transport reports as successful has been charged and answered.
THEOREM SuccessSettled == Spec => []SuccessIsSettled
<1>1. Init => SettledInv
  BY DEF Init, SettledInv, SuccessIsSettled, NoRun
<1>2. SettledInv => SuccessIsSettled
  BY DEF SettledInv
<1> QED
  BY InitType, TypeStep, <1>1, SettledStep, <1>2, PTL DEF Spec

-----------------------------------------------------------------------------
(* A run ends once, and its stream ends after it.                          *)

OwnedIsClaimed ==
    \A r \in Call : run[r].owner # None => run[r].status \in {"running"} \cup Terminal
NotYetCreated ==
    \A c \in Call : dpc[c] \in {"idle", "scheduling"} => run[c].status = "absent"
ClosingIsTerminal ==
    \A w \in Worker : wpc[w] \in {"interrupting", "closing"} => run[turn[w]].status \in Terminal

EndInv == OwnedIsClaimed /\ NotYetCreated /\ ClosingIsTerminal /\ EndedIsTerminal

LEMMA TerminalStays ==
    ASSUME TypeInv, NotYetCreated, [Next]_vars, NEW r \in Call, run[r].status \in Terminal
    PROVE  run'[r].status = run[r].status
<1>1. CreateRun(r) => run[r].status = "absent"
  BY DEF NotYetCreated, CreateRun, Scheduling
<1> QED
  BY <1>1, StatusChange DEF Terminal, Active, IsActive, HoldsRun

LEMMA OwnedStep ==
    ASSUME TypeInv, EndInv, [Next]_vars
    PROVE  OwnedIsClaimed'
<1>1. run \in [Call -> RunRecord]
  BY DEF TypeInv, TypeOK
<1>2. CASE ~Changes
  BY <1>2, OthersAreNeutral DEF Neutral, EndInv, OwnedIsClaimed
<1> SUFFICES ASSUME Changes, NEW r \in Call, run'[r].owner # None
             PROVE  run'[r].status \in {"running"} \cup Terminal
  BY <1>2 DEF OwnedIsClaimed
<1>3. CASE run'[r].owner = run[r].owner
  <2>1. run[r].status \in {"running"} \cup Terminal
    BY <1>3 DEF EndInv, OwnedIsClaimed
  <2> QED BY <2>1, StatusChange, TerminalStays DEF EndInv, NotYetCreated, CreateRun, Scheduling, Terminal
<1>4. CASE run'[r].owner # run[r].owner
  <2>1. ASSUME NEW x \in Call, NEW a, run' = IF IsActive(x) THEN Cancelled(x, a) ELSE run
        PROVE  FALSE
    BY <1>1, <1>4, <2>1 DEF Cancelled, RunRecord
  <2>2. ASSUME NEW c \in Call, CancelInflight(c) PROVE FALSE
    <3>1. PICK x \in seen[c] : run' = IF IsActive(x) THEN Cancelled(x, plan[c]) ELSE run
      BY <2>2 DEF CancelInflight
    <3>2. x \in Call
      BY DEF TypeInv, TypeOK
    <3> QED BY <2>1, <3>1, <3>2
  <2>3. ASSUME NEW c \in Call, CreateRun(c) PROVE FALSE
    BY <1>1, <1>4, <2>3 DEF CreateRun, RunRecord
  <2>4. ASSUME NEW c \in Call, NEW a \in {"interrupt", "rollback"}, Cancel(c, a) PROVE FALSE
    BY <2>1, <2>4 DEF Cancel
  <2>5. ASSUME NEW w \in Worker, Succeed(w) \/ FailTurn(w) PROVE FALSE
    <3>1. turn[w] \in Call
      BY <2>5 DEF Succeed, FailTurn, Finish, TypeInv, AtWork
    <3> QED BY <1>1, <1>4, <2>5, <3>1 DEF Succeed, FailTurn, Finish, TransitionStatus, RunRecord
  <2>6. ASSUME NEW w \in Worker, FinishTask(w) PROVE FALSE
    <3>1. turn[w] \in Call
      BY <2>6 DEF FinishTask, TypeInv, AtWork
    <3> QED BY <1>1, <1>4, <2>6, <3>1 DEF FinishTask, RunRecord
  <2>7. ASSUME NEW w \in Worker, ClaimExecution(w) PROVE run'[r].status = "running"
    <3>1. turn[w] \in Call
      BY <2>7 DEF ClaimExecution, TypeInv, AtWork
    <3> QED BY <1>1, <1>4, <2>7, <3>1 DEF ClaimExecution, RunRecord
  <2> QED BY <2>2, <2>3, <2>4, <2>5, <2>6, <2>7 DEF Changes
<1> QED
  BY <1>3, <1>4

LEMMA CreationStep ==
    ASSUME TypeInv, EndInv, [Next]_vars
    PROVE  NotYetCreated'
<1> USE DEF transport, publishers, workers, billing
<1> SUFFICES ASSUME NEW c \in Call, dpc'[c] \in {"idle", "scheduling"}
             PROVE  run'[c].status = "absent"
  BY DEF NotYetCreated
<1>1. dpc[c] \in {"idle", "scheduling"} /\ ~CreateRun(c)
  <2>1. c \in Publisher /\ c # Beat
    BY DistinctNames DEF Publisher
  <2>2. CASE dpc' = dpc
    <3>1. ASSUME CreateRun(c) PROVE FALSE
      BY <2>1, <2>2, <3>1 DEF CreateRun, Admitted, Scheduling, TypeInv, TypeOK
    <3> QED BY <2>2, <3>1
  <2>3. ASSUME NEW d \in Call,
               Schedule(d) \/ CancelInflight(d) \/ CreateRun(d) \/ LeaveDispatch(d)
        PROVE  dpc[c] \in {"idle", "scheduling"} /\ ~CreateRun(c)
    BY <2>1, <2>3 DEF Schedule, CancelInflight, CreateRun, LeaveDispatch, Admitted, Refused, Rest,
         Scheduling, TypeInv, TypeOK
  <2>4. ASSUME NEW d \in Publisher,
               \/ \E r \in Call : ClaimDispatch(d, r)
               \/ Publish(d) \/ MarkDispatched(d) \/ PublishFails(d) \/ PublisherCrash(d)
        PROVE  dpc[c] \in {"idle", "scheduling"} /\ ~CreateRun(c)
    <3>1. \E l \in {"owning", "published", "done", "idle"} :
             /\ dpc' = [dpc EXCEPT ![d] = l]
             /\ d # Beat => l # "idle"
      BY <2>4 DEF ClaimDispatch, Publish, MarkDispatched, PublishFails, PublisherCrash, Rest
    <3>2. dpc'[c] = dpc[c]
      BY <2>1, <3>1 DEF TypeInv, TypeOK
    <3>3. ASSUME CreateRun(c) PROVE FALSE
      BY <2>1, <3>2, <3>3 DEF CreateRun, Admitted, Scheduling, TypeInv, TypeOK
    <3> QED BY <3>2, <3>3
  <2>5. \/ dpc' = dpc
        \/ \E d \in Call : Schedule(d) \/ CancelInflight(d) \/ CreateRun(d) \/ LeaveDispatch(d)
        \/ \E d \in Publisher : \/ \E r \in Call : ClaimDispatch(d, r)
                                \/ Publish(d) \/ MarkDispatched(d) \/ PublishFails(d)
                                \/ PublisherCrash(d)
    BY NextSplit, TurnStepFrame, Zenon DEF vars, Cancel, DispatchLapse, LeaseLapse, Deliver,
       ClaimExecution, ClaimRefused, RenewExecutionClaim, ExecutionLeaseUnavailable, FinishTask,
       WorkerCrash, Redeliver, ServeComplete, Expire
  <2> QED BY <2>2, <2>3, <2>4, <2>5
<1>2. run[c].status = "absent"
  BY <1>1 DEF EndInv, NotYetCreated
<1> QED
  BY <1>1, <1>2, StatusChange DEF IsActive, Active, HoldsRun

LEMMA ClosingStep ==
    ASSUME TypeInv, EndInv, [Next]_vars
    PROVE  ClosingIsTerminal'
<1> USE DEF transport, publishers, workers, billing
<1> SUFFICES ASSUME NEW w \in Worker, wpc'[w] \in {"interrupting", "closing"}
             PROVE  run'[turn'[w]].status \in Terminal
  BY DEF ClosingIsTerminal
<1>1. CASE wpc'[w] = wpc[w] /\ turn'[w] = turn[w]
  <2>1. turn[w] \in Call /\ run[turn[w]].status \in Terminal
    BY <1>1 DEF EndInv, ClosingIsTerminal, TypeInv, AtWork
  <2> QED BY <1>1, <2>1, TerminalStays DEF EndInv
<1>2. CASE TurnStep(w)
  <2>1. turn[w] \in Call /\ turn'[w] = turn[w]
    BY <1>2, TurnStepFrame DEF publishers, Executing, TypeInv, AtWork
  <2>2. CASE Succeed(w) \/ FailTurn(w)
    <3>1. Owns(w, turn[w])
      BY <2>2 DEF Succeed, FailTurn, Finish, Close, Goto, TypeInv, TypeOK
    <3>2. PICK status \in {"success", "error"} : TransitionStatus(w, turn[w], status)
      BY <2>2 DEF Succeed, FailTurn, Finish
    <3>3. w # None /\ run[turn[w]].owner = w
      BY <3>1, DistinctNames DEF Owns
    <3>4. run[turn[w]].status \in {"running"} \cup Terminal
      BY <2>1, <3>3 DEF EndInv, OwnedIsClaimed
    <3> QED BY <2>1, <3>1, <3>2, <3>4 DEF TransitionStatus, HoldsRun, Terminal, TypeInv, TypeOK, RunRecord
  <2>3. CASE AbortSeen(w)
    <3>1. run[turn[w]].status \in Terminal
      BY <2>3 DEF AbortSeen, Terminal
    <3> QED BY <2>1, <3>1, TerminalStays DEF EndInv
  <2>4. CASE Interrupt(w)
    <3>1. run[turn[w]].status \in Terminal
      BY <2>4 DEF Interrupt, EndInv, ClosingIsTerminal
    <3> QED BY <2>1, <3>1, TerminalStays DEF EndInv
  <2>5. CASE \/ Authorize(w) \/ Decline(w) \/ AuthorizeLost(w) \/ Compensate(w) \/ BindThread(w)
             \/ PublishMetadataFails(w) \/ StreamFails(w) \/ SendComplete(w) \/ CompleteLost(w)
             \/ ExecutionLeaseLost(w)
    BY <2>5 DEF Authorize, Decline, AuthorizeLost, Compensate, BindThread,
         PublishMetadataFails, StreamFails, SendComplete, CompleteLost, ExecutionLeaseLost, Close,
         Goto, TypeInv, TypeOK
  <2> QED BY <1>2, <2>2, <2>3, <2>4, <2>5 DEF TurnStep
<1>3. ASSUME NEW v \in Worker,
             \/ \E r \in Call : Deliver(v, r)
             \/ ClaimExecution(v) \/ ClaimRefused(v) \/ RenewExecutionClaim(v)
             \/ ExecutionLeaseUnavailable(v) \/ FinishTask(v) \/ WorkerCrash(v) \/ Redeliver(v)
             \/ ServeComplete(v) \/ (v # w /\ TurnStep(v))
      PROVE  wpc'[w] = wpc[w] /\ turn'[w] = turn[w]
  <2>1. CASE v # w /\ TurnStep(v)
    BY <2>1, TurnStepFrame DEF Goto, TypeInv, TypeOK
  <2>2. CASE \/ \E r \in Call : Deliver(v, r)
             \/ ClaimExecution(v) \/ ClaimRefused(v) \/ RenewExecutionClaim(v)
             \/ ExecutionLeaseUnavailable(v) \/ FinishTask(v) \/ WorkerCrash(v) \/ Redeliver(v)
             \/ ServeComplete(v)
    BY <2>2 DEF Deliver, ClaimExecution, ClaimRefused, RenewExecutionClaim,
         ExecutionLeaseUnavailable, FinishTask, WorkerCrash, Redeliver, ServeComplete, Idle, Goto,
         TypeInv, TypeOK
  <2> QED BY <1>3, <2>1, <2>2
<1>4. \/ UNCHANGED <<wpc, turn>>
      \/ \E v \in Worker :
            \/ \E r \in Call : Deliver(v, r)
            \/ ClaimExecution(v) \/ ClaimRefused(v) \/ RenewExecutionClaim(v)
            \/ ExecutionLeaseUnavailable(v) \/ FinishTask(v) \/ WorkerCrash(v) \/ Redeliver(v)
            \/ ServeComplete(v) \/ TurnStep(v)
  BY NextSplit, Zenon DEF vars, Schedule, CancelInflight, CreateRun, LeaveDispatch,
       Cancel, ClaimDispatch, Publish, MarkDispatched, PublishFails, PublisherCrash, DispatchLapse,
       LeaseLapse, Expire
<1> QED
  BY <1>1, <1>2, <1>3, <1>4

LEMMA EndStep == TypeInv /\ EndInv /\ [Next]_vars => EndInv'
<1> SUFFICES ASSUME TypeInv, EndInv, [Next]_vars PROVE EndInv'
  OBVIOUS
<1> USE DEF transport, publishers, workers, billing
<1>1. EndedIsTerminal'
  <2> SUFFICES ASSUME NEW r \in ended' PROVE run'[r].status \in Terminal
    BY DEF EndedIsTerminal
  <2>1. r \in Call /\ run[r].status \in Terminal
    <3>1. CASE r \in ended
      BY <3>1 DEF EndInv, EndedIsTerminal, TypeInv, TypeOK
    <3>2. CASE r \notin ended
      <4>1. PICK w \in Worker : FinishTask(w)
        BY <3>2, NextSplit, TurnStepFrame, Zenon DEF vars, Schedule, CancelInflight, CreateRun,
           LeaveDispatch, Cancel, ClaimDispatch, Publish, MarkDispatched, PublishFails,
           PublisherCrash, DispatchLapse, LeaseLapse, Expire, Deliver, ClaimExecution,
           ClaimRefused, RenewExecutionClaim, ExecutionLeaseUnavailable, WorkerCrash, Redeliver,
           ServeComplete
      <4>2. r = turn[w] /\ wpc[w] = "closing"
        BY <3>2, <4>1 DEF FinishTask
      <4> QED BY <4>2 DEF EndInv, ClosingIsTerminal, TypeInv, AtWork
    <3> QED BY <3>1, <3>2
  <2> QED BY <2>1, TerminalStays DEF EndInv
<1> QED
  BY <1>1, OwnedStep, CreationStep, ClosingStep DEF EndInv

LEMMA InitEnd == Init => EndInv
  BY DEF Init, EndInv, OwnedIsClaimed, NotYetCreated, ClosingIsTerminal, EndedIsTerminal, NoRun

\* The reader of a stream is told that it ended only when the turn has.
THEOREM StreamEndsAfterTurn == Spec => []EndedIsTerminal
<1>1. EndInv => EndedIsTerminal
  BY DEF EndInv
<1> QED
  BY InitType, TypeStep, InitEnd, EndStep, <1>1, PTL DEF Spec

\* A turn that has ended keeps its result.
THEOREM ResultKept == Spec => ResultIsKept
<1>1. TypeInv /\ EndInv /\ [Next]_vars =>
        [\A r \in Call : run[r].status \in Terminal => run'[r].status = run[r].status]_vars
  BY TerminalStays DEF EndInv
<1> QED
  BY InitType, TypeStep, InitEnd, EndStep, <1>1, PTL DEF Spec, ResultIsKept

-----------------------------------------------------------------------------
(* One active turn of a thread.                                            *)

\* A call that holds the scheduling locks knows every run it has to cancel...
KnowsInflight ==
    \A c \in Call : Scheduling(c) =>
        \A r \in Call :
            /\ run[r].status # "absent" => request[r] # request[c]
            /\ IsActive(r) /\ thread[r] = thread[c] => r \in seen[c]

\* ... and is the only one at work on its request and on its thread.
LocksHold ==
    \A c, d \in Call :
        c # d /\ Scheduling(c) /\ Scheduling(d) =>
            request[c] # request[d] /\ thread[c] # thread[d]

ScheduleInv == KnowsInflight /\ LocksHold /\ OneActiveTurn

\* Only CreateRun makes a run exist, and no other step makes one active.
LEMMA NoneComesAlive ==
    ASSUME TypeInv, EndInv, [Next]_vars, NEW r \in Call, ~CreateRun(r)
    PROVE  /\ IsActive(r)' => IsActive(r)
           /\ run'[r].status # "absent" => run[r].status # "absent"
  BY StatusChange DEF IsActive, Active, HoldsRun

\* The steps that move a call into or within its scheduling.
LEMMA SchedulingMoves ==
    ASSUME TypeInv, [Next]_vars
    PROVE  \/ \E c \in Call : Schedule(c) \/ CancelInflight(c) \/ CreateRun(c)
           \/ /\ UNCHANGED <<request, thread>>
              /\ \A c \in Call : /\ Scheduling(c)' => Scheduling(c) /\ seen'[c] = seen[c]
                                 /\ ~CreateRun(c)
<1> USE DEF transport, publishers, workers, billing
<1>1. \/ UNCHANGED <<dpc, seen, request, thread>>
      \/ \E c \in Call : Schedule(c) \/ CancelInflight(c) \/ CreateRun(c) \/ LeaveDispatch(c)
      \/ \E d \in Publisher : \/ \E r \in Call : ClaimDispatch(d, r)
                              \/ Publish(d) \/ MarkDispatched(d) \/ PublishFails(d)
                              \/ PublisherCrash(d)
  BY NextSplit, TurnStepFrame, Zenon DEF vars, Cancel, DispatchLapse, LeaseLapse, Deliver,
     ClaimExecution, ClaimRefused, RenewExecutionClaim, ExecutionLeaseUnavailable, FinishTask,
     WorkerCrash, Redeliver, ServeComplete, Expire
<1> SUFFICES ASSUME ~ \E c \in Call : Schedule(c) \/ CancelInflight(c) \/ CreateRun(c)
             PROVE  /\ UNCHANGED <<request, thread>>
                    /\ \A c \in Call : Scheduling(c)' => Scheduling(c) /\ seen'[c] = seen[c]
  OBVIOUS
<1>2. \A c \in Call : c \in Publisher /\ c # Beat
  BY DistinctNames DEF Publisher
<1>3. CASE UNCHANGED <<dpc, seen, request, thread>>
  BY <1>3 DEF Scheduling
<1>4. ASSUME NEW d \in Call, LeaveDispatch(d)
      PROVE  /\ UNCHANGED <<request, thread, seen>>
             /\ \A c \in Call : Scheduling(c)' => Scheduling(c)
  BY <1>2, <1>4 DEF LeaveDispatch, Rest, Scheduling, TypeInv, TypeOK
<1>5. ASSUME NEW d \in Publisher,
             \/ \E r \in Call : ClaimDispatch(d, r)
             \/ Publish(d) \/ MarkDispatched(d) \/ PublishFails(d) \/ PublisherCrash(d)
      PROVE  /\ UNCHANGED <<request, thread>>
             /\ \A c \in Call : Scheduling(c)' => Scheduling(c) /\ seen'[c] = seen[c]
  <2>1. PICK l \in {"owning", "published", "done", "idle"} : dpc' = [dpc EXCEPT ![d] = l]
    BY <1>5 DEF ClaimDispatch, Publish, MarkDispatched, PublishFails, PublisherCrash, Rest
  <2>2. \A c \in Call : Scheduling(c)' => c # d /\ Scheduling(c)
    BY <1>2, <2>1 DEF Scheduling, TypeInv, TypeOK
  <2>3. UNCHANGED <<request, thread>> /\ (seen' = seen \/ seen' = [seen EXCEPT ![d] = {}])
    BY <1>5 DEF ClaimDispatch, Publish, MarkDispatched, PublishFails, PublisherCrash
  <2> QED BY <1>2, <2>2, <2>3 DEF TypeInv, TypeOK
<1> QED
  BY <1>1, <1>3, <1>4, <1>5

LEMMA ScheduleStep == TypeInv /\ EndInv /\ ScheduleInv /\ [Next]_vars => ScheduleInv'
<1> SUFFICES ASSUME TypeInv, EndInv, ScheduleInv, [Next]_vars PROVE ScheduleInv'
  OBVIOUS
<1>1. Call \subseteq Publisher
  BY DEF Publisher
<1>2. ASSUME NEW c \in Call, CreateRun(c) PROVE ScheduleInv'
  <2>1. UNCHANGED <<request, thread, seen>>
    BY <1>2 DEF CreateRun
  <2>2. Scheduling(c) /\ seen[c] = {}
    BY <1>2 DEF CreateRun
  <2>3. \A d \in Call : Scheduling(d)' => d # c /\ Scheduling(d)
    BY <1>1, <1>2 DEF CreateRun, Admitted, Scheduling, TypeInv, TypeOK
  <2>4. \A r \in Call \ {c} : run'[r] = run[r]
    BY <1>2 DEF CreateRun, TypeInv, TypeOK
  <2>5. KnowsInflight'
    BY <2>1, <2>2, <2>3, <2>4 DEF KnowsInflight, ScheduleInv, LocksHold, IsActive
  <2>6. LocksHold'
    BY <2>1, <2>3 DEF ScheduleInv, LocksHold
  <2>7. ASSUME NEW r \in Call
        PROVE  /\ IsActive(r) => thread[r] # thread[c]
               /\ run[r].status # "absent" => request[r] # request[c]
    BY <2>2, Zenon DEF ScheduleInv, KnowsInflight
  <2>8. OneActiveTurn'
    <3> SUFFICES ASSUME NEW r \in Call, NEW s \in Call, r # s
                 PROVE  /\ ~(IsActive(r) /\ IsActive(s) /\ thread[r] = thread[s])'
                        /\ (request[r] = request[s] =>
                               "absent" \in {run[r].status, run[s].status})'
      BY DEF OneActiveTurn
    <3>1. CASE r # c /\ s # c
      BY <2>1, <2>4, <3>1 DEF ScheduleInv, OneActiveTurn, IsActive
    <3>2. CASE r = c
      BY <2>1, <2>4, <2>7, <3>2 DEF IsActive
    <3>3. CASE s = c
      BY <2>1, <2>4, <2>7, <3>3 DEF IsActive
    <3> QED BY <3>1, <3>2, <3>3
  <2> QED BY <2>5, <2>6, <2>8 DEF ScheduleInv
\* Every other step leaves one active turn.
<1>3. ASSUME \A c \in Call : ~CreateRun(c), UNCHANGED <<request, thread>>
      PROVE  OneActiveTurn'
  BY <1>3, NoneComesAlive DEF ScheduleInv, OneActiveTurn
<1>4. ASSUME NEW c \in Call, Schedule(c) PROVE ScheduleInv'
  <2>1. UNCHANGED <<request, thread, run>>
    BY <1>4 DEF Schedule, transport
  <2>2. \A d \in Call \ {c} : (Scheduling(d)' <=> Scheduling(d)) /\ seen'[d] = seen[d]
    BY <1>1, <1>4 DEF Schedule, Admitted, Refused, Scheduling, TypeInv, TypeOK
  <2>3. Scheduling(c)' => /\ seen'[c] = ActiveOf(thread[c])
                          /\ \A r \in Call : run[r].status # "absent" => request[r] # request[c]
    <3>1. PICK strategy \in Strategy :
             LET same == {r \in Call : run[r].status # "absent" /\ request[r] = request[c]}
             IN  IF same # {}
                 THEN /\ UNCHANGED <<plan, seen>>
                      /\ \E r \in same :
                          IF thread[r] = thread[c] THEN Admitted(c, r) ELSE Refused(c)
                 ELSE IF strategy = "reject" /\ ActiveOf(thread[c]) # {}
                 THEN Refused(c) /\ UNCHANGED <<plan, seen>>
                 ELSE /\ plan' = [plan EXCEPT ![c] = strategy]
                      /\ seen' = [seen EXCEPT ![c] = ActiveOf(thread[c])]
                      /\ dpc' = [dpc EXCEPT ![c] = "scheduling"]
                      /\ UNCHANGED about
      BY <1>4 DEF Schedule
    <3>2. (\E r \in Call : Admitted(c, r)) \/ Refused(c) => ~Scheduling(c)'
      BY <1>1 DEF Admitted, Refused, Scheduling, TypeInv, TypeOK
    <3> QED BY <3>1, <3>2 DEF TypeInv, TypeOK
  <2>4. KnowsInflight'
    BY <2>1, <2>2, <2>3 DEF ScheduleInv, KnowsInflight, ActiveOf, IsActive
  <2>5. LocksHold'
    BY <1>4, <2>1, <2>2 DEF ScheduleInv, LocksHold, Schedule, MayScheduleNow
  <2>6. OneActiveTurn'
    BY <2>1 DEF ScheduleInv, OneActiveTurn, IsActive
  <2> QED BY <2>4, <2>5, <2>6 DEF ScheduleInv
<1>5. ASSUME NEW c \in Call, CancelInflight(c) PROVE ScheduleInv'
  <2>1. PICK x \in seen[c] : /\ seen' = [seen EXCEPT ![c] = @ \ {x}]
                             /\ run' = IF IsActive(x) THEN Cancelled(x, plan[c]) ELSE run
    BY <1>5 DEF CancelInflight
  <2>2. UNCHANGED <<request, thread, dpc>>
    BY <1>5 DEF CancelInflight
  <2>3. x \in Call /\ ~IsActive(x)'
    <3>1. x \in Call
      BY DEF TypeInv, TypeOK
    <3>2. CASE IsActive(x)
      BY <2>1, <3>1, <3>2 DEF Cancelled, IsActive, Active, TypeInv, TypeOK, RunRecord
    <3> QED BY <2>1, <3>1, <3>2 DEF IsActive
  <2>4. \A d \in Call : ~CreateRun(d)
    <3>1. ASSUME NEW d \in Call, CreateRun(d) PROVE FALSE
      BY <1>1, <2>2, <3>1 DEF CreateRun, Admitted, Scheduling, TypeInv, TypeOK
    <3> QED BY <3>1
  <2>5. \A r \in Call : /\ IsActive(r)' => IsActive(r) /\ r # x
                        /\ run'[r].status # "absent" => run[r].status # "absent"
    BY <2>3, <2>4, NoneComesAlive
  <2>6. \A d \in Call, r \in Call : r \in seen[d] /\ r # x => r \in seen'[d]
    BY <2>1 DEF TypeInv, TypeOK
  <2>7. \A d \in Call : Scheduling(d)' <=> Scheduling(d)
    BY <2>2 DEF Scheduling
  <2>8. KnowsInflight'
    <3> SUFFICES ASSUME NEW d \in Call, Scheduling(d)', NEW r \in Call
                 PROVE  /\ (run[r].status # "absent" => request[r] # request[d])'
                        /\ (IsActive(r) /\ thread[r] = thread[d] => r \in seen[d])'
      BY DEF KnowsInflight
    <3>1. Scheduling(d)
      BY <2>7
    <3>2. /\ run[r].status # "absent" => request[r] # request[d]
          /\ IsActive(r) /\ thread[r] = thread[d] => r \in seen[d]
      BY <3>1, Zenon DEF ScheduleInv, KnowsInflight
    <3> QED BY <2>2, <2>5, <2>6, <3>2
  <2>9. LocksHold'
    BY <2>2, <2>7 DEF ScheduleInv, LocksHold
  <2> QED BY <1>3, <2>2, <2>4, <2>8, <2>9 DEF ScheduleInv
<1>6. ASSUME UNCHANGED <<request, thread>>,
             \A c \in Call : /\ Scheduling(c)' => Scheduling(c) /\ seen'[c] = seen[c]
                             /\ ~CreateRun(c)
      PROVE  ScheduleInv'
  <2>1. KnowsInflight'
    <3> SUFFICES ASSUME NEW d \in Call, Scheduling(d)', NEW r \in Call
                 PROVE  /\ (run[r].status # "absent" => request[r] # request[d])'
                        /\ (IsActive(r) /\ thread[r] = thread[d] => r \in seen[d])'
      BY DEF KnowsInflight
    <3>1. Scheduling(d) /\ seen'[d] = seen[d]
      BY <1>6
    <3>2. /\ run[r].status # "absent" => request[r] # request[d]
          /\ IsActive(r) /\ thread[r] = thread[d] => r \in seen[d]
      BY <3>1, Zenon DEF ScheduleInv, KnowsInflight
    <3> QED BY <1>6, <3>1, <3>2, NoneComesAlive
  <2>2. LocksHold'
    <3>1. \A c \in Call : Scheduling(c)' => Scheduling(c)
      BY <1>6
    <3> QED BY <1>6, <3>1 DEF ScheduleInv, LocksHold
  <2> QED BY <1>3, <1>6, <2>1, <2>2 DEF ScheduleInv
<1> QED
  BY <1>2, <1>4, <1>5, <1>6, SchedulingMoves

LEMMA InitSchedule == Init => ScheduleInv
  BY DEF Init, ScheduleInv, KnowsInflight, LocksHold, OneActiveTurn, Scheduling, IsActive, Active,
       NoRun, Publisher

\* Whatever calls are admitted at the same time, and however they treat the
\* turn under way: a thread has one active turn, a request one run.
THEOREM OneTurnPerThread == Spec => []OneActiveTurn
<1>1. ScheduleInv => OneActiveTurn
  BY DEF ScheduleInv
<1> QED
  BY InitType, TypeStep, InitEnd, EndStep, InitSchedule, ScheduleStep, <1>1, PTL DEF Spec

-----------------------------------------------------------------------------
(* Question and answer.                                                    *)

\* The runs that were created.
Exists(r) == run[r].status # "absent"

\* A worker past its claim, and a completion under way, are about such a run.
WorksOnRuns ==
    /\ \A w \in Worker : wpc[w] \notin {"idle", "claiming"} => Exists(turn[w])
    /\ \A w \in Worker : sent[w] # None => Exists(sent[w])

\* What is said of a request is said in the conversation of its run...
SaidInThread ==
    \A t \in Thread : \A i \in DOMAIN messages[t] :
        \E r \in Call : Exists(r) /\ thread[r] = t /\ request[r] = messages[t][i].of

\* ... once by either side ...
SaidOnce ==
    \A t \in Thread : \A i, j \in DOMAIN messages[t] :
        messages[t][i] = messages[t][j] => i = j

\* ... and as the billing row tells: nothing before the authorization, the
\* question while it is open, the answer with the charge and after the question.
SaidAsBilled ==
    /\ \A t \in Thread : \A i \in DOMAIN messages[t] : bill[messages[t][i].of] # "none"
    /\ \A q \in Request : bill[q] = "authorized" =>
           \E t \in Thread : Occurrences(t, User(q)) # {}
    /\ \A q \in Request : bill[q] = "settled" =>
           \E t \in Thread : Occurrences(t, Assistant(q)) # {}
    /\ \A t \in Thread, q \in Request : \A j \in Occurrences(t, Assistant(q)) :
           bill[q] = "settled" /\ \E i \in Occurrences(t, User(q)) : i < j

Conversation == SaidInThread /\ SaidOnce /\ SaidAsBilled
ConversationInv == WorksOnRuns /\ Conversation

\* How a step moves the billing rows and the conversations: it closes an open
\* authorization at most, or it asks, answers or withdraws the question of one run.
Quiet ==
    /\ UNCHANGED messages
    /\ \/ UNCHANGED bill
       \/ \E q \in Request :
             /\ bill[q] = "authorized"
             /\ \E b \in {"released", "expired"} : bill' = [bill EXCEPT ![q] = b]
Asks(r) ==
    /\ bill[request[r]] = "none"
    /\ \E b \in {"authorized", "released"} : bill' = [bill EXCEPT ![request[r]] = b]
    /\ messages' = Said(thread[r], User(request[r]))
Answers(r) ==
    /\ bill[request[r]] = "authorized"
    /\ bill' = [bill EXCEPT ![request[r]] = "settled"]
    /\ messages' = Said(thread[r], Assistant(request[r]))
Withdraws(r) ==
    /\ bill[request[r]] # "settled"
    /\ bill' = ReleasedBill(request[r])
    /\ LET said == messages[thread[r]]
       IN  /\ said # <<>>
           /\ said[Len(said)] = User(request[r])
           /\ messages' = [messages EXCEPT ![thread[r]] = SubSeq(said, 1, Len(said) - 1)]

Moves(r) == Asks(r) \/ Answers(r) \/ Withdraws(r)

LEMMA TransactionMoves ==
    ASSUME TypeInv, NEW r \in Call,
           \/ Authorized(request[r], thread[r]) \/ Release(request[r])
           \/ Rollback(request[r], thread[r]) \/ Complete(request[r], thread[r])
           \/ UNCHANGED <<bill, messages>>
    PROVE  Quiet \/ Moves(r)
<1>1. bill \in [Request -> BillStatus] /\ request[r] \in Request
  BY DEF TypeInv, TypeOK
<1>2. ASSUME UNCHANGED messages, bill' = ReleasedBill(request[r]) \/ UNCHANGED bill PROVE Quiet
  BY <1>1, <1>2 DEF Quiet, ReleasedBill
<1>3. CASE Authorized(request[r], thread[r])
  BY <1>2, <1>3 DEF Authorized, Moves, Asks
<1>4. CASE Complete(request[r], thread[r])
  BY <1>2, <1>4 DEF Complete, Moves, Answers
<1>5. CASE Rollback(request[r], thread[r])
  BY <1>1, <1>2, <1>5 DEF Rollback, Moves, Withdraws
<1> QED
  BY <1>2, <1>3, <1>4, <1>5 DEF Release

LEMMA CancellationMoves ==
    ASSUME TypeInv, NEW w \in Worker, turn[w] \in Call, CancelExecution(w)
    PROVE  Quiet \/ Moves(turn[w])
<1>1. CASE wpc[w] = "preparing" /\ bill[Key(w)] = "none"
  <2>1. /\ bill' = [bill EXCEPT ![Key(w)] = "released"]
        /\ messages' = Said(thread[turn[w]], User(Key(w)))
    BY <1>1 DEF CancelExecution, InGenerator
  <2> QED BY <1>1, <2>1 DEF Key, Moves, Asks
<1>2. CASE ~(wpc[w] = "preparing" /\ bill[Key(w)] = "none")
  <2>1. Release(Key(w)) \/ UNCHANGED <<bill, messages>>
    BY <1>2, Zenon DEF CancelExecution
  <2> QED BY <2>1, TransactionMoves DEF Key
<1> QED
  BY <1>1, <1>2

LEMMA ConversationMoves ==
    ASSUME TypeInv, WorksOnRuns, [Next]_vars
    PROVE  /\ UNCHANGED <<request, thread>>
           /\ Quiet \/ \E r \in Call : Exists(r) /\ Moves(r)
<1> USE DEF transport, publishers, workers, billing
<1>1. UNCHANGED <<request, thread>>
  BY NextSplit, TurnStepFrame, Zenon DEF vars, Schedule, CancelInflight, CreateRun, LeaveDispatch,
       Cancel, ClaimDispatch, Publish, MarkDispatched, PublishFails, PublisherCrash, DispatchLapse,
       LeaseLapse, Deliver, ClaimExecution, ClaimRefused, RenewExecutionClaim,
       ExecutionLeaseUnavailable, FinishTask, WorkerCrash, Redeliver, ServeComplete, Expire
<1>2. ASSUME NEW w \in Worker, TurnStep(w)
      PROVE  Quiet \/ \E r \in Call : Exists(r) /\ Moves(r)
  <2>1. turn[w] \in Call /\ Exists(turn[w])
    <3>1. wpc[w] \notin {"idle", "claiming"}
      BY <1>2, TurnStepFrame DEF Executing
    <3> QED BY <3>1 DEF TypeInv, AtWork, WorksOnRuns
  <2>2. CASE \/ Authorize(w) \/ Decline(w) \/ AuthorizeLost(w) \/ Compensate(w) \/ BindThread(w)
    BY <2>1, <2>2, TransactionMoves
       DEF Authorize, Decline, AuthorizeLost, Compensate, BindThread, Key
  <2>3. CASE \/ PublishMetadataFails(w) \/ StreamFails(w) \/ SendComplete(w) \/ CompleteLost(w)
    BY <2>1, <2>3, TransactionMoves
       DEF PublishMetadataFails, StreamFails, SendComplete, CompleteLost, Key
  <2>4. CASE Succeed(w) \/ FailTurn(w)
    BY <2>4 DEF Succeed, FailTurn, Finish, Quiet
  <2>5. CASE AbortSeen(w) \/ ExecutionLeaseLost(w)
    BY <2>1, <2>5, CancellationMoves DEF AbortSeen, ExecutionLeaseLost
  <2>6. CASE Interrupt(w)
    BY <2>1, <2>6, TransactionMoves DEF Interrupt, Key
  <2> QED BY <1>2, <2>2, <2>3, <2>4, <2>5, <2>6 DEF TurnStep
<1>3. ASSUME NEW w \in Worker, ServeComplete(w)
      PROVE  Quiet \/ \E r \in Call : Exists(r) /\ Moves(r)
  <2>1. sent[w] \in Call /\ Exists(sent[w])
    BY <1>3 DEF ServeComplete, TypeInv, TypeOK, WorksOnRuns
  <2> QED BY <1>3, <2>1, TransactionMoves DEF ServeComplete
<1>4. ASSUME NEW w \in Worker, ExecutionLeaseUnavailable(w)
      PROVE  Quiet \/ \E r \in Call : Exists(r) /\ Moves(r)
  <2>1. turn[w] \in Call /\ Exists(turn[w])
    BY <1>4 DEF ExecutionLeaseUnavailable, Executing, TypeInv, AtWork, WorksOnRuns
  <2> QED BY <1>4, <2>1, CancellationMoves DEF ExecutionLeaseUnavailable
<1>5. ASSUME NEW q \in Request, Expire(q) PROVE Quiet
  BY <1>5 DEF Expire, Quiet, TypeInv, TypeOK
<1>6. \/ UNCHANGED <<bill, messages>>
      \/ \E w \in Worker : TurnStep(w) \/ ServeComplete(w) \/ ExecutionLeaseUnavailable(w)
      \/ \E q \in Request : Expire(q)
  BY NextSplit, Zenon DEF vars, Schedule, CancelInflight, CreateRun, LeaveDispatch,
       Cancel, ClaimDispatch, Publish, MarkDispatched, PublishFails, PublisherCrash, DispatchLapse,
       LeaseLapse, Deliver, ClaimExecution, ClaimRefused, RenewExecutionClaim, FinishTask,
       WorkerCrash, Redeliver
<1>7. UNCHANGED <<bill, messages>> => Quiet
  BY DEF Quiet
<1> QED
  BY <1>1, <1>2, <1>3, <1>4, <1>5, <1>6, <1>7

\* A message is added at the end of one conversation, or taken from there.
Added(t, m) ==
    /\ \A s \in Thread : s # t => messages'[s] = messages[s]
    /\ \E n \in Nat : /\ DOMAIN messages[t] = 1 .. n
                      /\ DOMAIN messages'[t] = 1 .. n + 1
                      /\ \A i \in 1 .. n : messages'[t][i] = messages[t][i]
                      /\ messages'[t][n + 1] = m
Taken(t, m) ==
    /\ \A s \in Thread : s # t => messages'[s] = messages[s]
    /\ \E n \in Nat : /\ DOMAIN messages[t] = 1 .. n + 1
                      /\ DOMAIN messages'[t] = 1 .. n
                      /\ \A i \in 1 .. n : messages'[t][i] = messages[t][i]
                      /\ messages[t][n + 1] = m

LEMMA SaidAdds ==
    ASSUME TypeInv, NEW t \in Thread, NEW m \in Message, messages' = Said(t, m)
    PROVE  Added(t, m)
<1>1. messages[t] \in Seq(Message) /\ messages \in [Thread -> Seq(Message)]
  BY DEF TypeInv, TypeOK
<1>2. messages'[t] = Append(messages[t], m) /\ \A s \in Thread : s # t => messages'[s] = messages[s]
  BY <1>1 DEF Said
<1>3. /\ Len(messages[t]) \in Nat
      /\ DOMAIN messages[t] = 1 .. Len(messages[t])
      /\ DOMAIN messages'[t] = 1 .. Len(messages[t]) + 1
      /\ \A i \in 1 .. Len(messages[t]) : messages'[t][i] = messages[t][i]
      /\ messages'[t][Len(messages[t]) + 1] = m
  BY <1>1, <1>2, LenProperties, AppendProperties
<1> QED
  BY <1>2, <1>3, Zenon DEF Added

LEMMA WithdrawsTakes ==
    ASSUME TypeInv, NEW r \in Call, Withdraws(r)
    PROVE  Taken(thread[r], User(request[r]))
<1> DEFINE t == thread[r]
           said == messages[t]
           n == Len(said) - 1
<1>1. t \in Thread /\ messages \in [Thread -> Seq(Message)] /\ said \in Seq(Message)
  BY DEF TypeInv, TypeOK
<1>2. /\ said # <<>> /\ said[Len(said)] = User(request[r])
      /\ messages' = [messages EXCEPT ![t] = SubSeq(said, 1, n)]
  BY DEF Withdraws
<1>3. \A s \in Thread : s # t => messages'[s] = messages[s]
  BY <1>1, <1>2
<1>4. messages'[t] = SubSeq(said, 1, n)
  BY <1>1, <1>2
<1>5. Len(said) \in Nat /\ Len(said) # 0 /\ DOMAIN said = 1 .. Len(said)
  BY <1>1, <1>2, LenProperties, EmptySeq
<1>6. n \in Nat /\ Len(said) = n + 1
  BY <1>5
<1>7. \A i \in 1 .. n : said[i] \in Message
  BY <1>1, <1>5, <1>6, ElementOfSeq
<1>8. DOMAIN messages'[t] = 1 .. n /\ \A i \in 1 .. n : messages'[t][i] = said[i]
  BY <1>4, <1>6, <1>7, SubSeqProperties
<1>9. DOMAIN said = 1 .. n + 1 /\ said[n + 1] = User(request[r])
  BY <1>2, <1>5, <1>6
<1> HIDE DEF t, n
<1>10. Taken(t, User(request[r]))
  BY <1>3, <1>6, <1>8, <1>9, Zenon DEF Taken
<1> QED
  BY <1>10 DEF t

LEMMA ExistsStays ==
    ASSUME TypeInv, [Next]_vars, NEW r \in Call, Exists(r)
    PROVE  Exists(r)'
  BY StatusChange DEF Exists

LEMMA WorksStep ==
    ASSUME TypeInv, WorksOnRuns, [Next]_vars
    PROVE  WorksOnRuns'
<1> USE DEF transport, publishers, workers, billing
<1>1. \A r \in Call : Exists(r) => run'[r].status # "absent"
  BY ExistsStays DEF Exists
<1>2. \A v \in Worker : wpc[v] \notin {"idle", "claiming"} => run'[turn[v]].status # "absent"
  BY <1>1 DEF TypeInv, AtWork, WorksOnRuns
<1>3. \A v \in Worker : sent[v] # None => run'[sent[v]].status # "absent"
  BY <1>1 DEF TypeInv, TypeOK, WorksOnRuns
<1>4. \/ UNCHANGED <<wpc, turn, sent>>
      \/ \E w \in Worker :
            \/ \E r \in Call : Deliver(w, r)
            \/ ClaimExecution(w) \/ ClaimRefused(w)
            \/ ExecutionLeaseUnavailable(w) \/ FinishTask(w) \/ WorkerCrash(w)
            \/ TurnStep(w) \/ ServeComplete(w)
  BY NextSplit, Zenon DEF vars, Schedule, CancelInflight, CreateRun, LeaveDispatch, Cancel,
     ClaimDispatch, Publish, MarkDispatched, PublishFails, PublisherCrash, DispatchLapse,
     LeaseLapse, RenewExecutionClaim, Redeliver, Expire
<1>5. CASE UNCHANGED <<wpc, turn, sent>>
  BY <1>2, <1>3, <1>5 DEF WorksOnRuns, Exists
<1>6. ASSUME NEW w \in Worker, UNCHANGED sent, Idle(w) \/ \E r \in Call : Deliver(w, r)
      PROVE  WorksOnRuns'
  <2>1. /\ wpc'[w] \in {"idle", "claiming"}
        /\ \A v \in Worker : v # w => wpc'[v] = wpc[v] /\ turn'[v] = turn[v]
    BY <1>6 DEF Idle, Deliver, Goto, TypeInv, TypeOK
  <2> QED BY <1>2, <1>3, <1>6, <2>1 DEF WorksOnRuns, Exists
<1>7. ASSUME NEW w \in Worker, ClaimExecution(w) PROVE WorksOnRuns'
  <2>1. run'[turn[w]].status # "absent"
    <3>1. turn[w] \in Call /\ Exists(turn[w])
      BY <1>7 DEF ClaimExecution, Claimable, Exists, TypeInv, AtWork
    <3> QED BY <1>1, <3>1
  <2>2. UNCHANGED <<turn, sent>> /\ \A v \in Worker : v # w => wpc'[v] = wpc[v]
    BY <1>7 DEF ClaimExecution, Goto, TypeInv, TypeOK
  <2> QED BY <1>2, <1>3, <2>1, <2>2 DEF WorksOnRuns, Exists
<1>8. ASSUME NEW w \in Worker,
             TurnStep(w) \/ ServeComplete(w) \/ ExecutionLeaseUnavailable(w)
      PROVE  WorksOnRuns'
  <2>1. UNCHANGED turn
    BY <1>8, TurnStepFrame DEF ServeComplete, ExecutionLeaseUnavailable
  <2>2. \A v \in Worker : wpc'[v] = wpc[v] \/ wpc[v] \notin {"idle", "claiming"}
    BY <1>8, TurnStepFrame DEF Goto, ServeComplete, ExecutionLeaseUnavailable, Executing,
         TypeInv, TypeOK
  <2>3. \A v \in Worker :
           \/ sent'[v] \in {sent[v], None}
           \/ sent'[v] = turn[v] /\ wpc[v] \notin {"idle", "claiming"}
    <3>1. CASE UNCHANGED sent
      BY <3>1
    <3>2. CASE SendComplete(w) \/ CompleteLost(w) \/ ServeComplete(w)
      BY <3>2 DEF SendComplete, CompleteLost, ServeComplete, TypeInv, TypeOK
    <3>3. UNCHANGED sent \/ SendComplete(w) \/ CompleteLost(w) \/ ServeComplete(w)
      BY <1>8, Zenon DEF TurnStep, Authorize, Decline, AuthorizeLost, Compensate, BindThread,
         PublishMetadataFails, StreamFails, Succeed, FailTurn, Finish, AbortSeen, Interrupt,
         ExecutionLeaseLost, ExecutionLeaseUnavailable
    <3> QED BY <3>1, <3>2, <3>3
  <2> QED BY <1>2, <1>3, <2>1, <2>2, <2>3 DEF WorksOnRuns, Exists
<1> QED
  BY <1>4, <1>5, <1>6, <1>7, <1>8 DEF ClaimRefused, FinishTask, WorkerCrash, Deliver

LEMMA Messages ==
    ASSUME TypeInv
    PROVE  /\ \A t \in Thread : \A i \in DOMAIN messages[t] :
                 messages[t][i] \in Message /\ messages[t][i].of \in Request
           /\ \A p, q : User(p) # Assistant(q)
           /\ \A p, q : User(p) = User(q) => p = q
           /\ \A p, q : Assistant(p) = Assistant(q) => p = q
           /\ \A q : User(q).of = q /\ Assistant(q).of = q
<1>1. ASSUME NEW t \in Thread, NEW i \in DOMAIN messages[t]
      PROVE  messages[t][i] \in Message
  <2>1. messages[t] \in Seq(Message)
    BY DEF TypeInv, TypeOK
  <2>2. i \in 1 .. Len(messages[t])
    BY <2>1, LenProperties
  <2> QED BY <2>1, <2>2, ElementOfSeq
<1>2. \A m \in Message : m.of \in Request
  BY DEF Message
<1> QED
  BY <1>1, <1>2 DEF User, Assistant

\* What is left of the conversations, and what is new, after a message came.
LEMMA AddedMessages ==
    ASSUME NEW t \in Thread, NEW m, Added(t, m)
    PROVE  /\ \A s \in Thread : \A i \in DOMAIN messages[s] :
                 i \in DOMAIN messages'[s] /\ messages'[s][i] = messages[s][i]
           /\ \A s \in Thread : \A i \in DOMAIN messages'[s] :
                 \/ i \in DOMAIN messages[s] /\ messages'[s][i] = messages[s][i]
                 \/ /\ s = t /\ messages'[s][i] = m
                    /\ \A j \in DOMAIN messages[s] : j < i
           /\ \A i, j \in DOMAIN messages'[t] :
                 i \notin DOMAIN messages[t] /\ j \notin DOMAIN messages[t] => i = j
           /\ \E i \in DOMAIN messages'[t] : messages'[t][i] = m
<1>1. PICK n \in Nat : /\ DOMAIN messages[t] = 1 .. n
                       /\ DOMAIN messages'[t] = 1 .. n + 1
                       /\ \A i \in 1 .. n : messages'[t][i] = messages[t][i]
                       /\ messages'[t][n + 1] = m
  BY DEF Added
<1>2. \A s \in Thread : s # t => messages'[s] = messages[s]
  BY DEF Added
<1>3. \A i \in 1 .. n + 1 : i \in 1 .. n \/ i = n + 1
  OBVIOUS
<1>4. /\ \A i \in 1 .. n : i \in 1 .. n + 1 /\ i < n + 1
      /\ n + 1 \in 1 .. n + 1
      /\ n + 1 \notin 1 .. n
  OBVIOUS
<1>5. \A i \in DOMAIN messages[t] : i \in DOMAIN messages'[t] /\ messages'[t][i] = messages[t][i]
  BY <1>1, <1>4
<1>6. \A i \in DOMAIN messages'[t] :
         \/ i \in DOMAIN messages[t] /\ messages'[t][i] = messages[t][i]
         \/ messages'[t][i] = m /\ \A j \in DOMAIN messages[t] : j < i
  BY <1>1, <1>3, <1>4
<1>7. \A i, j \in DOMAIN messages'[t] :
         i \notin DOMAIN messages[t] /\ j \notin DOMAIN messages[t] => i = j
  BY <1>1, <1>3
<1>8. \E i \in DOMAIN messages'[t] : messages'[t][i] = m
  BY <1>1, <1>4
<1> QED
  BY <1>2, <1>5, <1>6, <1>7, <1>8, Zenon

\* The same after the last message was taken away.
LEMMA TakenMessages ==
    ASSUME NEW t \in Thread, NEW m, Taken(t, m)
    PROVE  /\ \A s \in Thread : \A i \in DOMAIN messages'[s] :
                 i \in DOMAIN messages[s] /\ messages'[s][i] = messages[s][i]
           /\ \A s \in Thread : \A i \in DOMAIN messages[s] :
                 \/ i \in DOMAIN messages'[s] /\ messages'[s][i] = messages[s][i]
                 \/ messages[s][i] = m
<1>1. PICK n \in Nat : /\ DOMAIN messages[t] = 1 .. n + 1
                       /\ DOMAIN messages'[t] = 1 .. n
                       /\ \A i \in 1 .. n : messages'[t][i] = messages[t][i]
                       /\ messages[t][n + 1] = m
  BY DEF Taken
<1>2. \A s \in Thread : s # t => messages'[s] = messages[s]
  BY DEF Taken
<1>3. /\ \A i \in 1 .. n + 1 : i \in 1 .. n \/ i = n + 1
      /\ \A i \in 1 .. n : i \in 1 .. n + 1
  OBVIOUS
<1>4. /\ \A i \in DOMAIN messages'[t] : i \in DOMAIN messages[t] /\ messages'[t][i] = messages[t][i]
      /\ \A i \in DOMAIN messages[t] :
            \/ i \in DOMAIN messages'[t] /\ messages'[t][i] = messages[t][i]
            \/ messages[t][i] = m
  BY <1>1, <1>3
<1> QED
  BY <1>2, <1>4, Zenon

\* A request has one run, hence one conversation.
LEMMA OneRun ==
    ASSUME OneActiveTurn, NEW r \in Call, NEW s \in Call, Exists(r), Exists(s),
           request[r] = request[s]
    PROVE  r = s
  BY DEF OneActiveTurn, Exists

LEMMA SaidOfRun ==
    ASSUME TypeInv, OneActiveTurn, SaidInThread, NEW r \in Call, Exists(r),
           NEW t \in Thread, NEW i \in DOMAIN messages[t], messages[t][i].of = request[r]
    PROVE  t = thread[r]
  BY OneRun DEF SaidInThread

LEMMA QuietKeeps ==
    ASSUME TypeInv, Conversation, UNCHANGED <<request, thread>>, Quiet,
           \A r \in Call : Exists(r) => Exists(r)'
    PROVE  Conversation'
<1>1. UNCHANGED messages
  BY DEF Quiet
<1>2. SaidInThread'
  <2> SUFFICES ASSUME NEW t \in Thread, NEW i \in DOMAIN messages[t]
               PROVE  \E r \in Call : /\ run'[r].status # "absent"
                                      /\ thread[r] = t /\ request[r] = messages[t][i].of
    BY <1>1 DEF SaidInThread, Exists
  <2> QED BY DEF Conversation, SaidInThread, Exists
<1>3. SaidOnce'
  BY <1>1 DEF Conversation, SaidOnce
<1>4. \A q \in Request : /\ bill[q] # "none" => bill'[q] # "none"
                         /\ bill'[q] = "authorized" => bill[q] = "authorized"
                         /\ bill'[q] = "settled" <=> bill[q] = "settled"
  BY DEF Quiet, TypeInv, TypeOK
<1>5. SaidAsBilled'
  <2>1. \A t \in Thread : \A i \in DOMAIN messages[t] : bill'[messages[t][i].of] # "none"
    BY <1>4, Messages DEF Conversation, SaidAsBilled
  <2>2. \A t \in Thread, q \in Request : Occurrences(t, User(q))' = Occurrences(t, User(q))
    BY <1>1 DEF Occurrences, User
  <2>3. \A t \in Thread, q \in Request :
           Occurrences(t, Assistant(q))' = Occurrences(t, Assistant(q))
    BY <1>1 DEF Occurrences, Assistant
  <2> QED BY <1>1, <1>4, <2>1, <2>2, <2>3 DEF Conversation, SaidAsBilled
<1> QED
  BY <1>2, <1>3, <1>5 DEF Conversation

\* A message of a run that its conversation does not hold yet fits there.
LEMMA AddedFits ==
    ASSUME TypeInv, Conversation, UNCHANGED <<request, thread>>,
           \A r \in Call : Exists(r) => Exists(r)',
           NEW r \in Call, Exists(r), NEW m, m.of = request[r], Added(thread[r], m),
           \A i \in DOMAIN messages[thread[r]] : messages[thread[r]][i] # m
    PROVE  SaidInThread' /\ SaidOnce'
<1> DEFINE t == thread[r]
<1>1. t \in Thread
  BY DEF TypeInv, TypeOK
<1>2. SaidInThread'
  <2> SUFFICES ASSUME NEW s \in Thread, NEW i \in DOMAIN messages'[s]
               PROVE  \E c \in Call : /\ run'[c].status # "absent"
                                      /\ thread[c] = s /\ request[c] = messages'[s][i].of
    BY DEF SaidInThread, Exists
  <2>1. CASE i \in DOMAIN messages[s] /\ messages'[s][i] = messages[s][i]
    BY <2>1 DEF Conversation, SaidInThread, Exists
  <2>2. CASE s = t /\ messages'[s][i] = m
    BY <2>2 DEF Exists
  <2> QED BY <1>1, <2>1, <2>2, AddedMessages
<1>3. SaidOnce'
  <2> SUFFICES ASSUME NEW s \in Thread, NEW i \in DOMAIN messages'[s],
                      NEW j \in DOMAIN messages'[s], messages'[s][i] = messages'[s][j]
               PROVE  i = j
    BY DEF SaidOnce
  <2>1. \A k \in DOMAIN messages'[s] :
           \/ k \in DOMAIN messages[s] /\ messages'[s][k] = messages[s][k]
           \/ s = t /\ messages'[s][k] = m /\ k \notin DOMAIN messages[s]
    <3>1. \A k \in DOMAIN messages'[s] :
             \/ k \in DOMAIN messages[s] /\ messages'[s][k] = messages[s][k]
             \/ s = t /\ messages'[s][k] = m
      BY <1>1, AddedMessages
    <3>2. \A k \in DOMAIN messages[s] : messages'[s][k] = messages[s][k]
      BY <1>1, AddedMessages
    <3> QED BY <3>1, <3>2
  <2>2. CASE i \in DOMAIN messages[s] /\ j \in DOMAIN messages[s]
    <3>1. messages[s][i] = messages[s][j]
      BY <2>2, <1>1, AddedMessages
    <3> QED BY <2>2, <3>1 DEF Conversation, SaidOnce
  <2>3. CASE i \notin DOMAIN messages[s] /\ j \notin DOMAIN messages[s]
    <3>1. s = t
      BY <2>1, <2>3
    <3> QED BY <1>1, <2>3, <3>1, AddedMessages
  <2>4. CASE (i \in DOMAIN messages[s]) # (j \in DOMAIN messages[s])
    BY <2>1, <2>4
  <2> QED BY <2>2, <2>3, <2>4
<1> QED
  BY <1>2, <1>3

\* What was said before the message came still is.
LEMMA AddedKeeps ==
    ASSUME NEW t \in Thread, NEW m, Added(t, m), NEW s \in Thread, NEW x
    PROVE  /\ Occurrences(s, x) \subseteq {i \in DOMAIN messages'[s] : messages'[s][i] = x}
           /\ \A i \in DOMAIN messages'[s] :
                 messages'[s][i] = x /\ x # m => i \in Occurrences(s, x)
  BY AddedMessages DEF Occurrences

LEMMA AsksKeeps ==
    ASSUME TypeInv, Conversation, UNCHANGED <<request, thread>>,
           \A r \in Call : Exists(r) => Exists(r)',
           NEW r \in Call, Exists(r), Asks(r)
    PROVE  Conversation'
<1> DEFINE q == request[r]
           t == thread[r]
           m == User(q)
<1>1. q \in Request /\ t \in Thread /\ m \in Message /\ bill \in [Request -> BillStatus]
  BY DEF TypeInv, TypeOK, User, Message
<1>2. messages' = Said(t, m)
  BY DEF Asks
<1> HIDE DEF m
<1>3. Added(t, m)
  BY <1>1, <1>2, SaidAdds
<1>4. \A s \in Thread : \A i \in DOMAIN messages[s] : messages[s][i].of # q
  BY DEF Asks, Conversation, SaidAsBilled
<1>5. m.of = q
  BY Messages DEF m
<1>6. SaidInThread' /\ SaidOnce'
  BY <1>1, <1>3, <1>4, <1>5, AddedFits
<1>7. PICK b \in {"authorized", "released"} : bill' = [bill EXCEPT ![q] = b]
  BY DEF Asks
<1>8. /\ bill[q] = "none" /\ bill'[q] \in {"authorized", "released"}
      /\ \A p \in Request : p # q => bill'[p] = bill[p]
  BY <1>1, <1>7 DEF Asks
<1>9. \A s \in Thread : \A i \in DOMAIN messages'[s] : bill'[messages'[s][i].of] # "none"
  <2> SUFFICES ASSUME NEW s \in Thread, NEW i \in DOMAIN messages'[s]
               PROVE  bill'[messages'[s][i].of] # "none"
    OBVIOUS
  <2>1. CASE i \in DOMAIN messages[s] /\ messages'[s][i] = messages[s][i]
    BY <1>4, <1>8, <2>1, Messages DEF Conversation, SaidAsBilled
  <2>2. CASE messages'[s][i] = m
    BY <1>5, <1>8, <2>2
  <2> QED BY <1>1, <1>3, <2>1, <2>2, AddedMessages
<1>10. \A p \in Request : bill'[p] = "authorized" =>
          \E s \in Thread : \E i \in DOMAIN messages'[s] : messages'[s][i] = User(p)
  <2> SUFFICES ASSUME NEW p \in Request, bill'[p] = "authorized"
               PROVE  \E s \in Thread : \E i \in DOMAIN messages'[s] : messages'[s][i] = User(p)
    OBVIOUS
  <2>1. CASE p = q
    BY <1>1, <1>3, <2>1, AddedMessages DEF m
  <2>2. CASE p # q
    <3>1. bill[p] = "authorized"
      BY <1>8, <2>2
    <3>2. PICK s \in Thread : Occurrences(s, User(p)) # {}
      BY <3>1 DEF Conversation, SaidAsBilled
    <3> QED BY <1>1, <1>3, <3>2, AddedKeeps
  <2> QED BY <2>1, <2>2
<1>11. \A p \in Request : bill'[p] = "settled" =>
          \E s \in Thread : \E i \in DOMAIN messages'[s] : messages'[s][i] = Assistant(p)
  <2> SUFFICES ASSUME NEW p \in Request, bill'[p] = "settled"
               PROVE  \E s \in Thread : \E i \in DOMAIN messages'[s] :
                         messages'[s][i] = Assistant(p)
    OBVIOUS
  <2>1. bill[p] = "settled"
    BY <1>8
  <2>2. PICK s \in Thread : Occurrences(s, Assistant(p)) # {}
    BY <2>1 DEF Conversation, SaidAsBilled
  <2> QED BY <1>1, <1>3, <2>2, AddedKeeps
<1>12. \A s \in Thread, p \in Request : \A j \in DOMAIN messages'[s] :
          messages'[s][j] = Assistant(p) =>
              /\ bill'[p] = "settled"
              /\ \E i \in DOMAIN messages'[s] : messages'[s][i] = User(p) /\ i < j
  <2> SUFFICES ASSUME NEW s \in Thread, NEW p \in Request, NEW j \in DOMAIN messages'[s],
                      messages'[s][j] = Assistant(p)
               PROVE  /\ bill'[p] = "settled"
                      /\ \E i \in DOMAIN messages'[s] : messages'[s][i] = User(p) /\ i < j
    OBVIOUS
  <2>1. j \in Occurrences(s, Assistant(p))
    BY <1>1, <1>3, AddedKeeps, Messages DEF m
  <2>2. bill[p] = "settled" /\ \E i \in Occurrences(s, User(p)) : i < j
    BY <2>1 DEF Conversation, SaidAsBilled
  <2> QED BY <1>1, <1>3, <1>8, <2>2, AddedKeeps
<1>13. SaidAsBilled'
  BY <1>9, <1>10, <1>11, <1>12 DEF SaidAsBilled, Occurrences, User, Assistant
<1> QED
  BY <1>6, <1>13 DEF Conversation

LEMMA AnswersKeeps ==
    ASSUME TypeInv, OneActiveTurn, Conversation, UNCHANGED <<request, thread>>,
           \A r \in Call : Exists(r) => Exists(r)',
           NEW r \in Call, Exists(r), Answers(r)
    PROVE  Conversation'
<1> DEFINE q == request[r]
           t == thread[r]
           m == Assistant(q)
<1>1. q \in Request /\ t \in Thread /\ m \in Message /\ bill \in [Request -> BillStatus]
  BY DEF TypeInv, TypeOK, Assistant, Message
<1>2. messages' = Said(t, m)
  BY DEF Answers
<1>3. \A s \in Thread : \A i \in DOMAIN messages[s] : messages[s][i] # m
  BY <1>1 DEF Answers, Conversation, SaidAsBilled, Occurrences
<1>4. m.of = q
  BY Messages
<1> HIDE DEF m
<1>5. Added(t, m)
  BY <1>1, <1>2, SaidAdds
<1>6. SaidInThread' /\ SaidOnce'
  BY <1>1, <1>3, <1>4, <1>5, AddedFits
<1>7. /\ bill[q] = "authorized" /\ bill'[q] = "settled"
      /\ \A p \in Request : p # q => bill'[p] = bill[p]
  BY <1>1 DEF Answers
\* The question stands in the conversation the answer is added to.
<1>8. \E i \in DOMAIN messages[t] : messages[t][i] = User(q)
  <2>1. PICK s \in Thread : Occurrences(s, User(q)) # {}
    BY <1>1, <1>7 DEF Conversation, SaidAsBilled
  <2>2. PICK i \in DOMAIN messages[s] : messages[s][i] = User(q)
    BY <2>1 DEF Occurrences
  <2>3. s = t
    BY <2>2, Messages, SaidOfRun DEF Conversation
  <2> QED BY <2>2, <2>3
<1>9. \A s \in Thread : \A i \in DOMAIN messages'[s] : bill'[messages'[s][i].of] # "none"
  <2> SUFFICES ASSUME NEW s \in Thread, NEW i \in DOMAIN messages'[s]
               PROVE  bill'[messages'[s][i].of] # "none"
    OBVIOUS
  <2>1. CASE i \in DOMAIN messages[s] /\ messages'[s][i] = messages[s][i]
    BY <1>7, <2>1, Messages DEF Conversation, SaidAsBilled
  <2>2. CASE messages'[s][i] = m
    BY <1>4, <1>7, <2>2
  <2> QED BY <1>1, <1>5, <2>1, <2>2, AddedMessages
<1>10. \A p \in Request : bill'[p] = "authorized" =>
          \E s \in Thread : \E i \in DOMAIN messages'[s] : messages'[s][i] = User(p)
  <2> SUFFICES ASSUME NEW p \in Request, bill'[p] = "authorized"
               PROVE  \E s \in Thread : \E i \in DOMAIN messages'[s] : messages'[s][i] = User(p)
    OBVIOUS
  <2>1. bill[p] = "authorized"
    BY <1>7
  <2>2. PICK s \in Thread : Occurrences(s, User(p)) # {}
    BY <2>1 DEF Conversation, SaidAsBilled
  <2> QED BY <1>1, <1>5, <2>2, AddedKeeps
<1>11. \A p \in Request : bill'[p] = "settled" =>
          \E s \in Thread : \E i \in DOMAIN messages'[s] : messages'[s][i] = Assistant(p)
  <2> SUFFICES ASSUME NEW p \in Request, bill'[p] = "settled"
               PROVE  \E s \in Thread : \E i \in DOMAIN messages'[s] :
                         messages'[s][i] = Assistant(p)
    OBVIOUS
  <2>1. CASE p = q
    BY <1>1, <1>5, <2>1, AddedMessages DEF m
  <2>2. CASE p # q
    <3>1. bill[p] = "settled"
      BY <1>7, <2>2
    <3>2. PICK s \in Thread : Occurrences(s, Assistant(p)) # {}
      BY <3>1 DEF Conversation, SaidAsBilled
    <3> QED BY <1>1, <1>5, <3>2, AddedKeeps
  <2> QED BY <2>1, <2>2
<1>12. \A s \in Thread, p \in Request : \A j \in DOMAIN messages'[s] :
          messages'[s][j] = Assistant(p) =>
              /\ bill'[p] = "settled"
              /\ \E i \in DOMAIN messages'[s] : messages'[s][i] = User(p) /\ i < j
  <2> SUFFICES ASSUME NEW s \in Thread, NEW p \in Request, NEW j \in DOMAIN messages'[s],
                      messages'[s][j] = Assistant(p)
               PROVE  /\ bill'[p] = "settled"
                      /\ \E i \in DOMAIN messages'[s] : messages'[s][i] = User(p) /\ i < j
    OBVIOUS
  <2>1. CASE p # q
    <3>1. Assistant(p) # m
      BY <2>1, Messages DEF m
    <3>2. j \in Occurrences(s, Assistant(p))
      BY <1>1, <1>5, <3>1, AddedKeeps
    <3>3. bill[p] = "settled" /\ \E i \in Occurrences(s, User(p)) : i < j
      BY <3>2 DEF Conversation, SaidAsBilled
    <3> QED BY <1>1, <1>5, <1>7, <2>1, <3>3, AddedKeeps
  <2>2. CASE p = q
    <3>1. ~(j \in DOMAIN messages[s] /\ messages'[s][j] = messages[s][j])
      BY <1>3, <2>2 DEF m
    <3>2. s = t /\ \A i \in DOMAIN messages[s] : i < j
      BY <1>1, <1>5, <3>1, AddedMessages
    <3>3. PICK i \in DOMAIN messages[t] : messages[t][i] = User(q)
      BY <1>8
    <3>4. i \in DOMAIN messages'[t] /\ messages'[t][i] = User(q)
      BY <1>1, <1>5, <3>3, AddedMessages
    <3> QED BY <1>7, <2>2, <3>2, <3>3, <3>4
  <2> QED BY <2>1, <2>2
<1>13. SaidAsBilled'
  BY <1>9, <1>10, <1>11, <1>12 DEF SaidAsBilled, Occurrences, User, Assistant
<1> QED
  BY <1>6, <1>13 DEF Conversation

LEMMA WithdrawsKeeps ==
    ASSUME TypeInv, Conversation, UNCHANGED <<request, thread>>,
           \A r \in Call : Exists(r) => Exists(r)',
           NEW r \in Call, Withdraws(r)
    PROVE  Conversation'
<1> DEFINE q == request[r]
           t == thread[r]
<1>1. q \in Request /\ t \in Thread /\ bill \in [Request -> BillStatus]
  BY DEF TypeInv, TypeOK
<1>2. Taken(t, User(q))
  BY WithdrawsTakes
<1>3. \A s \in Thread : \A i \in DOMAIN messages'[s] :
         i \in DOMAIN messages[s] /\ messages'[s][i] = messages[s][i]
  BY <1>1, <1>2, TakenMessages
<1>4. \A s \in Thread : \A i \in DOMAIN messages[s] :
         messages[s][i] # User(q) => i \in DOMAIN messages'[s] /\ messages'[s][i] = messages[s][i]
  BY <1>1, <1>2, TakenMessages
<1>5. /\ bill[q] # "settled" /\ bill'[q] \notin {"authorized", "settled"}
      /\ \A p \in Request : /\ p # q => bill'[p] = bill[p]
                            /\ bill[p] # "none" => bill'[p] # "none"
  BY <1>1 DEF Withdraws, ReleasedBill
<1>6. SaidInThread'
  <2> SUFFICES ASSUME NEW s \in Thread, NEW i \in DOMAIN messages'[s]
               PROVE  \E c \in Call : /\ run'[c].status # "absent"
                                      /\ thread[c] = s /\ request[c] = messages'[s][i].of
    BY DEF SaidInThread, Exists
  <2> QED BY <1>3 DEF Conversation, SaidInThread, Exists
<1>7. SaidOnce'
  BY <1>3 DEF Conversation, SaidOnce
<1>8. \A s \in Thread : \A i \in DOMAIN messages'[s] : bill'[messages'[s][i].of] # "none"
  BY <1>3, <1>5, Messages DEF Conversation, SaidAsBilled
<1>9. \A p \in Request : bill'[p] = "authorized" =>
         \E s \in Thread : \E i \in DOMAIN messages'[s] : messages'[s][i] = User(p)
  <2> SUFFICES ASSUME NEW p \in Request, bill'[p] = "authorized"
               PROVE  \E s \in Thread : \E i \in DOMAIN messages'[s] : messages'[s][i] = User(p)
    OBVIOUS
  <2>1. p # q /\ bill[p] = "authorized"
    BY <1>5
  <2>2. PICK s \in Thread : \E i \in DOMAIN messages[s] : messages[s][i] = User(p)
    BY <2>1 DEF Conversation, SaidAsBilled, Occurrences
  <2> QED BY <1>4, <2>1, <2>2, Messages
<1>10. \A p \in Request : bill'[p] = "settled" =>
         \E s \in Thread : \E i \in DOMAIN messages'[s] : messages'[s][i] = Assistant(p)
  <2> SUFFICES ASSUME NEW p \in Request, bill'[p] = "settled"
               PROVE  \E s \in Thread : \E i \in DOMAIN messages'[s] :
                         messages'[s][i] = Assistant(p)
    OBVIOUS
  <2>1. bill[p] = "settled"
    BY <1>5
  <2>2. PICK s \in Thread : \E i \in DOMAIN messages[s] : messages[s][i] = Assistant(p)
    BY <2>1 DEF Conversation, SaidAsBilled, Occurrences
  <2> QED BY <1>4, <2>2, Messages
<1>11. \A s \in Thread, p \in Request : \A j \in DOMAIN messages'[s] :
          messages'[s][j] = Assistant(p) =>
              /\ bill'[p] = "settled"
              /\ \E i \in DOMAIN messages'[s] : messages'[s][i] = User(p) /\ i < j
  <2> SUFFICES ASSUME NEW s \in Thread, NEW p \in Request, NEW j \in DOMAIN messages'[s],
                      messages'[s][j] = Assistant(p)
               PROVE  /\ bill'[p] = "settled"
                      /\ \E i \in DOMAIN messages'[s] : messages'[s][i] = User(p) /\ i < j
    OBVIOUS
  <2>1. j \in Occurrences(s, Assistant(p))
    BY <1>3 DEF Occurrences
  <2>2. bill[p] = "settled"
    BY <2>1 DEF Conversation, SaidAsBilled
  <2>3. PICK i \in Occurrences(s, User(p)) : i < j
    BY <2>1 DEF Conversation, SaidAsBilled
  <2>4. p # q
    BY <1>5, <2>2
  <2> QED BY <1>4, <1>5, <2>2, <2>3, <2>4, Messages DEF Occurrences
<1>12. SaidAsBilled'
  BY <1>8, <1>9, <1>10, <1>11 DEF SaidAsBilled, Occurrences, User, Assistant
<1> QED
  BY <1>6, <1>7, <1>12 DEF Conversation

LEMMA ConversationStep ==
    TypeInv /\ OneActiveTurn /\ ConversationInv /\ [Next]_vars => ConversationInv'
<1> SUFFICES ASSUME TypeInv, OneActiveTurn, ConversationInv, [Next]_vars
             PROVE  ConversationInv'
  OBVIOUS
<1>1. WorksOnRuns /\ Conversation
  BY DEF ConversationInv
<1>2. WorksOnRuns'
  BY <1>1, WorksStep
<1>3. \A r \in Call : Exists(r) => Exists(r)'
  BY ExistsStays
<1>4. /\ UNCHANGED <<request, thread>>
      /\ Quiet \/ \E r \in Call : Exists(r) /\ Moves(r)
  BY <1>1, ConversationMoves
<1>5. Conversation'
  BY <1>1, <1>3, <1>4, QuietKeeps, AsksKeeps, AnswersKeeps, WithdrawsKeeps DEF Moves
<1> QED
  BY <1>2, <1>5 DEF ConversationInv

LEMMA InitConversation == Init => ConversationInv
  BY EmptySeq DEF Init, ConversationInv, Conversation, WorksOnRuns, SaidInThread, SaidOnce,
     SaidAsBilled, Occurrences

\* The invariant says what it should: all that was said of a request stands in
\* one conversation, each side at most once.
LEMMA ConversationAnswers ==
    ASSUME TypeInv, OneActiveTurn, ConversationInv
    PROVE  AnsweredOnce
<1> SUFFICES ASSUME NEW q \in Request
             PROVE  /\ Cardinality(Posts(User(q))) <= 1
                    /\ Cardinality(Posts(Assistant(q))) = (IF bill[q] = "settled" THEN 1 ELSE 0)
                    /\ \A b \in Posts(Assistant(q)) :
                          \E a \in Posts(User(q)) : a[1] = b[1] /\ a[2] < b[2]
  BY DEF AnsweredOnce
<1>1. ASSUME NEW m, m.of = q PROVE Posts(m) = {} \/ \E x : Posts(m) = {x}
  <2> SUFFICES ASSUME NEW x \in Posts(m), NEW y \in Posts(m) PROVE x = y
    <3>1. \A S : (\A x, y \in S : x = y) => S = {} \/ \E x : S = {x}
      OBVIOUS
    <3> QED BY <3>1
  <2>1. PICK s \in Thread : \E i \in Occurrences(s, m) : x = <<s, i>>
    BY DEF Posts
  <2>2. PICK t \in Thread : \E j \in Occurrences(t, m) : y = <<t, j>>
    BY DEF Posts
  <2>3. PICK i \in Occurrences(s, m) : x = <<s, i>>
    BY <2>1
  <2>4. PICK j \in Occurrences(t, m) : y = <<t, j>>
    BY <2>2
  <2>5. s = t
    BY <1>1, OneRun DEF ConversationInv, Conversation, SaidInThread, Occurrences
  <2>6. i = j
    BY <2>5 DEF ConversationInv, Conversation, SaidOnce, Occurrences
  <2> QED BY <2>3, <2>4, <2>5, <2>6
<1>2. ASSUME NEW m PROVE Posts(m) # {} <=> \E t \in Thread : Occurrences(t, m) # {}
  <2>1. ASSUME NEW t \in Thread, NEW i \in Occurrences(t, m) PROVE <<t, i>> \in Posts(m)
    BY DEF Posts
  <2>2. ASSUME NEW x \in Posts(m) PROVE \E t \in Thread : Occurrences(t, m) # {}
    BY DEF Posts
  <2> QED BY <2>1, <2>2
<1>3. Posts(Assistant(q)) # {} <=> bill[q] = "settled"
  BY <1>2 DEF ConversationInv, Conversation, SaidAsBilled
<1>4. ASSUME NEW b \in Posts(Assistant(q))
      PROVE  \E a \in Posts(User(q)) : a[1] = b[1] /\ a[2] < b[2]
  <2>1. PICK t \in Thread : \E j \in Occurrences(t, Assistant(q)) : b = <<t, j>>
    BY DEF Posts
  <2>2. PICK j \in Occurrences(t, Assistant(q)) : b = <<t, j>>
    BY <2>1
  <2>3. PICK i \in Occurrences(t, User(q)) : i < j
    BY DEF ConversationInv, Conversation, SaidAsBilled
  <2>4. <<t, i>> \in Posts(User(q))
    BY DEF Posts
  <2> QED BY <2>2, <2>3, <2>4
<1>5. ASSUME NEW S, S = {} \/ \E x : S = {x}
      PROVE  Cardinality(S) = IF S = {} THEN 0 ELSE 1
  BY <1>5, FS_EmptySet, FS_Singleton
<1>6. /\ Posts(User(q)) = {} \/ \E x : Posts(User(q)) = {x}
      /\ Posts(Assistant(q)) = {} \/ \E x : Posts(Assistant(q)) = {x}
  BY <1>1, Messages
<1>7. /\ Cardinality(Posts(User(q))) = IF Posts(User(q)) = {} THEN 0 ELSE 1
      /\ Cardinality(Posts(Assistant(q))) = IF Posts(Assistant(q)) = {} THEN 0 ELSE 1
  BY <1>5, <1>6
<1> QED
  BY <1>3, <1>4, <1>7

\* However many workers and deliveries a request has seen, it is asked once and,
\* exactly when it was charged, answered once and after the question.
THEOREM AskedAndAnsweredOnce == Spec => []AnsweredOnce
<1>1. ScheduleInv => OneActiveTurn
  BY DEF ScheduleInv
<1>2. TypeInv /\ OneActiveTurn /\ ConversationInv => AnsweredOnce
  BY ConversationAnswers
<1> QED
  BY InitType, TypeStep, InitEnd, EndStep, InitSchedule, ScheduleStep, InitConversation,
     ConversationStep, <1>1, <1>2, PTL DEF Spec

-----------------------------------------------------------------------------
(* The billing of a request, as its user sees it.                          *)

\* One step of the rows and conversations is one step of TurnBilling.
LEMMA QuietBills ==
    ASSUME Quiet
    PROVE  [Billing!Next]_<<bill, Asked, Answered>>
<1>1. Asked' = Asked /\ Answered' = Answered
  BY DEF Quiet, Asked, Answered, Occurrences, User, Assistant
<1>2. ASSUME NEW q \in Request, bill[q] = "authorized",
             \E b \in {"released", "expired"} : bill' = [bill EXCEPT ![q] = b]
      PROVE  Billing!Close(q)
  BY <1>1, <1>2 DEF Billing!Close
<1> QED
  BY <1>1, <1>2 DEF Quiet, Billing!Next

LEMMA AsksBills ==
    ASSUME TypeInv, NEW r \in Call, Asks(r)
    PROVE  Billing!Ask(request[r])
<1> DEFINE q == request[r]
           t == thread[r]
<1>1. q \in Request /\ t \in Thread /\ User(q) \in Message
  BY DEF TypeInv, TypeOK, User, Message
<1>2. Added(t, User(q))
  BY <1>1, SaidAdds DEF Asks
<1>3. Asked' = Asked \cup {q}
  <2>1. ASSUME NEW p \in Asked PROVE p \in Asked'
    <3>1. PICK s \in Thread : Occurrences(s, User(p)) # {}
      BY <2>1 DEF Asked
    <3>2. \E i \in DOMAIN messages'[s] : messages'[s][i] = User(p)
      BY <1>1, <1>2, <3>1, AddedKeeps
    <3> QED BY <3>1, <3>2 DEF Asked, Occurrences, User
  <2>2. q \in Asked'
    <3>1. \E i \in DOMAIN messages'[t] : messages'[t][i] = User(q)
      BY <1>1, <1>2, AddedMessages
    <3> QED BY <1>1, <3>1 DEF Asked, Occurrences, User
  <2>3. ASSUME NEW p \in Asked', p # q PROVE p \in Asked
    <3>1. PICK s \in Thread : \E i \in DOMAIN messages'[s] : messages'[s][i] = User(p)
      BY DEF Asked, Occurrences, User
    <3>2. User(p) # User(q)
      BY <2>3, Messages
    <3>3. Occurrences(s, User(p)) # {}
      BY <1>1, <1>2, <3>1, <3>2, AddedKeeps
    <3> QED BY <3>3 DEF Asked
  <2> QED BY <2>1, <2>2, <2>3
<1>4. Answered' = Answered
  <2>1. \A s \in Thread, p \in Request :
           Occurrences(s, Assistant(p)) =
               {i \in DOMAIN messages'[s] : messages'[s][i] = Assistant(p)}
    BY <1>1, <1>2, AddedKeeps, Messages
  <2> QED BY <2>1 DEF Answered, Occurrences, Assistant
<1> QED
  BY <1>3, <1>4 DEF Asks, Billing!Ask

LEMMA AnswersBills ==
    ASSUME TypeInv, Conversation, NEW r \in Call, Answers(r)
    PROVE  Billing!Answer(request[r])
<1> DEFINE q == request[r]
           t == thread[r]
<1>1. q \in Request /\ t \in Thread /\ Assistant(q) \in Message
  BY DEF TypeInv, TypeOK, Assistant, Message
<1>2. Added(t, Assistant(q))
  BY <1>1, SaidAdds DEF Answers
<1>3. Answered' = Answered \cup {q}
  <2>1. ASSUME NEW p \in Answered PROVE p \in Answered'
    <3>1. PICK s \in Thread : Occurrences(s, Assistant(p)) # {}
      BY <2>1 DEF Answered
    <3>2. \E i \in DOMAIN messages'[s] : messages'[s][i] = Assistant(p)
      BY <1>1, <1>2, <3>1, AddedKeeps
    <3> QED BY <3>1, <3>2 DEF Answered, Occurrences, Assistant
  <2>2. q \in Answered'
    <3>1. \E i \in DOMAIN messages'[t] : messages'[t][i] = Assistant(q)
      BY <1>1, <1>2, AddedMessages
    <3> QED BY <1>1, <3>1 DEF Answered, Occurrences, Assistant
  <2>3. ASSUME NEW p \in Answered', p # q PROVE p \in Answered
    <3>1. PICK s \in Thread : \E i \in DOMAIN messages'[s] : messages'[s][i] = Assistant(p)
      BY DEF Answered, Occurrences, Assistant
    <3>2. Assistant(p) # Assistant(q)
      BY <2>3, Messages
    <3>3. Occurrences(s, Assistant(p)) # {}
      BY <1>1, <1>2, <3>1, <3>2, AddedKeeps
    <3> QED BY <3>3 DEF Answered
  <2> QED BY <2>1, <2>2, <2>3
<1>4. Asked' = Asked
  <2>1. \A s \in Thread, p \in Request :
           Occurrences(s, User(p)) = {i \in DOMAIN messages'[s] : messages'[s][i] = User(p)}
    BY <1>1, <1>2, AddedKeeps, Messages
  <2> QED BY <2>1 DEF Asked, Occurrences, User
<1>5. q \in Asked
  BY <1>1 DEF Answers, Conversation, SaidAsBilled, Asked
<1> QED
  BY <1>3, <1>4, <1>5 DEF Answers, Billing!Answer

\* The question that is taken away was the only one of its request.
LEMMA WithdrawsBills ==
    ASSUME TypeInv, OneActiveTurn, Conversation, NEW r \in Call, Exists(r), Withdraws(r)
    PROVE  Billing!Withdraw(request[r])
<1> DEFINE q == request[r]
           t == thread[r]
<1>1. q \in Request /\ t \in Thread
  BY DEF TypeInv, TypeOK
<1>2. Taken(t, User(q))
  BY WithdrawsTakes
<1>3. /\ \A s \in Thread : \A i \in DOMAIN messages'[s] :
            i \in DOMAIN messages[s] /\ messages'[s][i] = messages[s][i]
      /\ \A s \in Thread : \A i \in DOMAIN messages[s] :
            messages[s][i] # User(q) =>
                i \in DOMAIN messages'[s] /\ messages'[s][i] = messages[s][i]
  BY <1>1, <1>2, TakenMessages
<1>4. PICK k \in DOMAIN messages[t] : messages[t][k] = User(q) /\ k \notin DOMAIN messages'[t]
  <2>1. PICK n \in Nat : /\ DOMAIN messages[t] = 1 .. n + 1
                         /\ DOMAIN messages'[t] = 1 .. n
                         /\ messages[t][n + 1] = User(q)
    BY <1>2 DEF Taken
  <2>2. n + 1 \in 1 .. n + 1 /\ n + 1 \notin 1 .. n
    OBVIOUS
  <2> QED BY <2>1, <2>2
<1>5. q \in Asked
  BY <1>1, <1>4 DEF Asked, Occurrences
<1>6. Asked' = Asked \ {q}
  <2>1. ASSUME NEW p \in Asked, p # q PROVE p \in Asked'
    <3>1. PICK s \in Thread : \E i \in DOMAIN messages[s] : messages[s][i] = User(p)
      BY <2>1 DEF Asked, Occurrences
    <3>2. User(p) # User(q)
      BY <2>1, Messages
    <3>3. \E i \in DOMAIN messages'[s] : messages'[s][i] = User(p)
      BY <1>3, <3>1, <3>2
    <3> QED BY <3>3 DEF Asked, Occurrences, User
  <2>2. ASSUME NEW p \in Asked' PROVE p \in Asked
    <3>1. PICK s \in Thread : \E i \in DOMAIN messages'[s] : messages'[s][i] = User(p)
      BY DEF Asked, Occurrences, User
    <3> QED BY <1>3, <3>1 DEF Asked, Occurrences
  <2>3. q \notin Asked'
    <3>1. SUFFICES ASSUME NEW s \in Thread, NEW i \in DOMAIN messages'[s],
                          messages'[s][i] = User(q)
                   PROVE  FALSE
      BY DEF Asked, Occurrences, User
    <3>2. i \in DOMAIN messages[s] /\ messages[s][i] = User(q)
      BY <1>3, <3>1
    <3>3. s = t
      BY <3>2, Messages, SaidOfRun DEF Conversation
    <3>4. i = k
      BY <1>4, <3>2, <3>3 DEF Conversation, SaidOnce
    <3> QED BY <1>4, <3>3, <3>4
  <2>4. Asked' \subseteq Asked \cup {q} /\ Asked \subseteq Asked' \cup {q}
    BY <2>1, <2>2
  <2> QED BY <2>3, <2>4
<1>7. Answered' = Answered
  <2>1. \A s \in Thread, p \in Request :
           Occurrences(s, Assistant(p)) =
               {i \in DOMAIN messages'[s] : messages'[s][i] = Assistant(p)}
    BY <1>3, Messages DEF Occurrences
  <2> QED BY <2>1 DEF Answered, Occurrences, Assistant
<1>8. bill' = [bill EXCEPT ![q] = IF @ = "authorized" THEN "released" ELSE @]
  BY <1>1 DEF Withdraws, ReleasedBill, TypeInv, TypeOK
<1> QED
  BY <1>5, <1>6, <1>7, <1>8 DEF Withdraws, Billing!Withdraw

LEMMA BillingStep ==
    ASSUME TypeInv, OneActiveTurn, ConversationInv, [Next]_vars
    PROVE  [Billing!Next]_<<bill, Asked, Answered>>
<1>1. WorksOnRuns /\ Conversation
  BY DEF ConversationInv
<1>2. Quiet \/ \E r \in Call : Exists(r) /\ Moves(r)
  BY <1>1, ConversationMoves
<1>3. ASSUME NEW r \in Call, Exists(r), Moves(r) PROVE Billing!Next
  <2>1. request[r] \in Request
    BY DEF TypeInv, TypeOK
  <2> QED BY <1>1, <1>3, <2>1, AsksBills, AnswersBills, WithdrawsBills DEF Moves, Billing!Next
<1> QED
  BY <1>2, <1>3, QuietBills

LEMMA InitBilling == Init => Billing!Init
  BY EmptySeq DEF Init, Billing!Init, Asked, Answered, Occurrences

\* Runs, workers, retries and cancellations bill a request as TurnBilling
\* promises: what is closed is not charged, what is charged not taken back.
THEOREM TurnsKeepBilling == Spec => ImplementsBilling
<1>1. ScheduleInv => OneActiveTurn
  BY DEF ScheduleInv
<1>2. TypeInv /\ OneActiveTurn /\ ConversationInv /\ [Next]_vars
        => [Billing!Next]_<<bill, Asked, Answered>>
  BY BillingStep
<1> QED
  BY InitType, TypeStep, InitEnd, EndStep, InitSchedule, ScheduleStep, InitConversation,
     ConversationStep, InitBilling, <1>1, <1>2, PTL DEF Spec, ImplementsBilling, Billing!Spec

\* What the transport, the billing and the conversation together owe the user:
\* a turn that ended as a success has its answer, and before it the question,
\* in its own conversation.
SuccessIsAnswered ==
    \A r \in Call : run[r].status = "success" =>
        \E j \in Occurrences(thread[r], Assistant(request[r])) :
            \E i \in Occurrences(thread[r], User(request[r])) : i < j

THEOREM SuccessAnswered == Spec => []SuccessIsAnswered
<1>1. Init => SettledInv
  BY DEF Init, SettledInv, SuccessIsSettled, NoRun
<1>2. ScheduleInv => OneActiveTurn
  BY DEF ScheduleInv
<1>3. TypeInv /\ SettledInv /\ OneActiveTurn /\ ConversationInv => SuccessIsAnswered
  <2> SUFFICES ASSUME TypeInv, SettledInv, OneActiveTurn, ConversationInv,
                      NEW r \in Call, run[r].status = "success"
               PROVE  \E j \in Occurrences(thread[r], Assistant(request[r])) :
                          \E i \in Occurrences(thread[r], User(request[r])) : i < j
    BY DEF SuccessIsAnswered
  <2>1. Exists(r) /\ request[r] \in Request /\ bill[request[r]] = "settled"
    BY DEF Exists, SettledInv, SuccessIsSettled, TypeInv, TypeOK
  <2>2. PICK t \in Thread : Occurrences(t, Assistant(request[r])) # {}
    BY <2>1 DEF ConversationInv, Conversation, SaidAsBilled
  <2>3. PICK j \in DOMAIN messages[t] : messages[t][j] = Assistant(request[r])
    BY <2>2 DEF Occurrences
  <2>4. t = thread[r]
    BY <2>1, <2>3, Messages, SaidOfRun DEF ConversationInv, Conversation
  <2>5. j \in Occurrences(t, Assistant(request[r]))
    BY <2>3 DEF Occurrences
  <2> QED BY <2>1, <2>4, <2>5 DEF ConversationInv, Conversation, SaidAsBilled
<1> QED
  BY InitType, TypeStep, InitEnd, EndStep, InitSchedule, ScheduleStep, InitConversation,
     ConversationStep, SettledStep, <1>1, <1>2, <1>3, PTL DEF Spec
=============================================================================
