----------------------------- MODULE ChatTurns -----------------------------
(***************************************************************************)
(* The transport of chat turns and the billing of each turn.               *)
(*                                                                         *)
(*   run        the Redis hash of each ChatTurnRun (named by the API call  *)
(*              that created it): status, abort action, execution owner    *)
(*              and whether its lease is live, dispatch owner and lease,   *)
(*              and whether the worker task id (the receipt) is written    *)
(*   dpc, about what a publisher does: an API call admits a run and        *)
(*              publishes it, Beat (the Celery-beat reconciler) publishes  *)
(*              the intents that are due; about is the run it works on     *)
(*   plan, seen the multitask strategy of a call, and the active runs of   *)
(*              its thread it has still to cancel                          *)
(*   queue      broker messages of each run that no worker has taken       *)
(*   wpc, turn  what a worker process does, and the run it does it for     *)
(*   replay     the worker's authorization came back settled               *)
(*   sent       the completion request a worker has under way in the       *)
(*              DataService; it outlives the worker's interest in it       *)
(*   bill       the thread_turn_billings row of each request identity      *)
(*   messages   the conversation of each thread                            *)
(*   ended      the runs whose stream has its end event                    *)
(*                                                                         *)
(* An update of one run record (lock, load, check, store, unlock) is one   *)
(* step: it is assumed to finish within its five seconds' lock, and the    *)
(* admission of a call within its scheduling locks.  Admission itself,     *)
(* publication and a worker's turn are several steps, and any of them may  *)
(* be cut short by a fault.                                                *)
(***************************************************************************)
EXTENDS Naturals, Sequences, FiniteSets

CONSTANTS Call,         \* API calls, and the runs they create
          Request,      \* request identities of the client, bound to the actor
          Thread,       \* conversations
          Worker,       \* Celery worker processes
          Beat,         \* the reconciler
          None,
          MaxFaults,    \* crashes, stalls, lost responses in a behaviour
          MaxQueue      \* messages of one run waiting at the broker

ASSUME Bounds == MaxFaults \in Nat /\ MaxQueue \in Nat
ASSUME DistinctNames == Beat \notin Call /\ None \notin Call \cup Worker \cup {Beat}

VARIABLES request, thread, run, dpc, about, plan, seen, queue,
          wpc, turn, replay, sent, bill, messages, ended, faults

transport == <<run, queue, ended>>
publishers == <<dpc, about, plan, seen>>
workers == <<wpc, turn, replay>>
billing == <<sent, bill, messages>>
vars == <<request, thread, transport, publishers, workers, billing, faults>>

Publisher == Call \cup {Beat}
Active == {"pending", "running"}
Terminal == {"success", "error", "interrupted"}
Strategy == {"reject", "interrupt", "rollback"}

RunRecord == [status : Active \cup Terminal \cup {"absent"},
              abort : {"none", "interrupt", "rollback"},
              owner : Worker \cup {None}, live : BOOLEAN,
              publisher : Publisher \cup {None}, plive : BOOLEAN,
              receipt : BOOLEAN]

NoRun == [status |-> "absent", abort |-> "none", owner |-> None, live |-> FALSE,
          publisher |-> None, plive |-> FALSE, receipt |-> FALSE]

\* The states of a worker in which its execution task is under way, and those
\* in which the stream generator of the handler is open.
Executing == {"preparing", "prepared", "streaming", "settling"}
InGenerator == {"streaming", "settling"}
WorkerState == Executing \cup {"idle", "claiming", "compensating", "completed", "failed",
                               "refused", "interrupting", "closing", "leaving", "retrying"}
PublisherState == {"idle", "scheduling", "admitted", "owning", "published", "done"}
BillStatus == {"none", "authorized", "settled", "released", "expired"}
Message == [role : {"user", "assistant"}, of : Request]

TypeOK ==
    /\ request \in [Call -> Request]
    /\ thread \in [Call -> Thread]
    /\ run \in [Call -> RunRecord]
    /\ dpc \in [Publisher -> PublisherState]
    /\ about \in [Publisher -> Call \cup {None}]
    /\ plan \in [Call -> Strategy]
    /\ seen \in [Call -> SUBSET Call]
    /\ queue \in [Call -> 0 .. MaxQueue]
    /\ wpc \in [Worker -> WorkerState]
    /\ turn \in [Worker -> Call \cup {None}]
    /\ replay \in [Worker -> BOOLEAN]
    /\ sent \in [Worker -> Call \cup {None}]
    /\ bill \in [Request -> BillStatus]
    /\ messages \in [Thread -> Seq(Message)]
    /\ ended \subseteq Call
    /\ faults \in 0 .. MaxFaults

Init ==
    /\ request \in [Call -> Request]
    /\ thread \in [Call -> Thread]
    /\ run = [c \in Call |-> NoRun]
    /\ dpc = [d \in Publisher |-> "idle"]
    /\ about = [d \in Publisher |-> None]
    /\ plan = [c \in Call |-> "reject"]
    /\ seen = [c \in Call |-> {}]
    /\ queue = [c \in Call |-> 0]
    /\ wpc = [w \in Worker |-> "idle"]
    /\ turn = [w \in Worker |-> None]
    /\ replay = [w \in Worker |-> FALSE]
    /\ sent = [w \in Worker |-> None]
    /\ bill = [q \in Request |-> "none"]
    /\ messages = [t \in Thread |-> <<>>]
    /\ ended = {}
    /\ faults = 0

Fault == faults < MaxFaults /\ faults' = faults + 1

-----------------------------------------------------------------------------
(* The run manager: what its updates of one record do.                     *)

IsActive(r) == run[r].status \in Active
ActiveOf(t) == {r \in Call : IsActive(r) /\ thread[r] = t}
Owns(w, r) == run[r].owner = w
HoldsRun(w, r) == run[r].status = "running" /\ Owns(w, r)
Due(r) == run[r].status = "pending" /\ ~run[r].receipt
Claimable(r) == \/ run[r].status = "pending"
                \/ run[r].status = "running" /\ (run[r].owner = None \/ ~run[r].live)

Cancelled(r, action) == [run EXCEPT ![r].status = "interrupted", ![r].abort = action]

\* Mutant of TransitionStatus: the owner alone is checked.
TransitionOfOwner(w, r, status) ==
    run' = IF Owns(w, r) THEN [run EXCEPT ![r].status = status] ELSE run

\* transition_status: only from running and only by the owner; the refusal
\* leaves the record alone.
TransitionStatus(w, r, status) ==
    run' = IF HoldsRun(w, r) THEN [run EXCEPT ![r].status = status] ELSE run

\* release_dispatch_claim, or the record as it is when the claim has moved on.
ReleasedDispatch(d, r) ==
    IF run[r].publisher = d
    THEN [run EXCEPT ![r].publisher = None, ![r].plive = FALSE]
    ELSE run

-----------------------------------------------------------------------------
(* Admission of an API call (create_or_reject).                            *)

Scheduling(d) == dpc[d] = "scheduling"

\* Mutant of MayScheduleNow: only the request is locked.
MayScheduleRequest(c) ==
    \A d \in Call \ {c} : Scheduling(d) => request[d] # request[c]

\* The request lock and the thread lock.
MayScheduleNow(c) ==
    \A d \in Call \ {c} :
        Scheduling(d) => request[d] # request[c] /\ thread[d] # thread[c]

Admitted(c, r) == /\ dpc' = [dpc EXCEPT ![c] = "admitted"]
                  /\ about' = [about EXCEPT ![c] = r]

Refused(c) == dpc' = [dpc EXCEPT ![c] = "done"] /\ UNCHANGED about

\* Both locks are taken and the runs of the thread are loaded.  A run of the
\* same request is returned instead of a new one, unless its payload differs.
Schedule(c) ==
    /\ dpc[c] = "idle"
    /\ MayScheduleNow(c)
    /\ \E strategy \in Strategy :
        /\ LET same == {r \in Call : run[r].status # "absent" /\ request[r] = request[c]}
           IN  IF same # {}
               THEN /\ UNCHANGED <<plan, seen>>
                    /\ \E r \in same :
                        IF thread[r] = thread[c] THEN Admitted(c, r) ELSE Refused(c)
               ELSE IF strategy = "reject" /\ ActiveOf(thread[c]) # {}
               THEN Refused(c) /\ UNCHANGED <<plan, seen>>
               ELSE /\ plan' = [plan EXCEPT ![c] = strategy]
                    /\ seen' = [seen EXCEPT ![c] = ActiveOf(thread[c])]
                    /\ dpc' = [dpc EXCEPT ![c] = "scheduling"]
                    /\ UNCHANGED about
    /\ UNCHANGED <<request, thread, transport, workers, billing, faults>>

\* One of the active runs is cancelled; a run that has ended meanwhile is left.
CancelInflight(c) ==
    /\ Scheduling(c)
    /\ \E r \in seen[c] :
        /\ seen' = [seen EXCEPT ![c] = @ \ {r}]
        /\ run' = IF IsActive(r) THEN Cancelled(r, plan[c]) ELSE run
    /\ UNCHANGED <<request, thread, queue, ended, dpc, about, plan, workers, billing, faults>>

CreateRun(c) ==
    /\ Scheduling(c)
    /\ seen[c] = {}
    /\ run' = [run EXCEPT ![c].status = "pending"]
    /\ Admitted(c, c)
    /\ plan' = [plan EXCEPT ![c] = "reject"]
    /\ UNCHANGED <<request, thread, queue, ended, seen, workers, billing, faults>>

\* A user stops the turn, or its only reader went away.
Cancel(r, action) ==
    /\ IsActive(r)
    /\ run' = Cancelled(r, action)
    /\ UNCHANGED <<request, thread, queue, ended, publishers, workers, billing, faults>>

-----------------------------------------------------------------------------
(* Publication of a dispatch intent, by the call that admitted it or by    *)
(* the reconciler.                                                         *)

Rest(d) == /\ dpc' = [dpc EXCEPT ![d] = IF d = Beat THEN "idle" ELSE "done"]
           /\ about' = [about EXCEPT ![d] = None]

ClaimDispatch(d, r) ==
    /\ IF d = Beat THEN dpc[d] = "idle" ELSE dpc[d] = "admitted" /\ about[d] = r
    /\ Due(r)
    /\ run[r].publisher = None \/ ~run[r].plive
    /\ run' = [run EXCEPT ![r].publisher = d, ![r].plive = TRUE]
    /\ dpc' = [dpc EXCEPT ![d] = "owning"]
    /\ about' = [about EXCEPT ![d] = r]
    /\ UNCHANGED <<request, thread, queue, ended, plan, seen, workers, billing, faults>>

\* The intent is no longer due, or another publisher held it to the end of the
\* wait: the call answers with the run as it is.
LeaveDispatch(c) ==
    /\ dpc[c] = "admitted"
    /\ Due(about[c]) => run[about[c]].publisher # None /\ run[about[c]].plive
    /\ Rest(c)
    /\ UNCHANGED <<request, thread, transport, plan, seen, workers, billing, faults>>

\* One more message; MaxQueue bounds the copies that wait at the same time.
Enqueue(r) == queue[r] < MaxQueue /\ queue' = [queue EXCEPT ![r] = @ + 1]

Publish(d) ==
    /\ dpc[d] = "owning"
    /\ Enqueue(about[d])
    /\ dpc' = [dpc EXCEPT ![d] = "published"]
    /\ UNCHANGED <<request, thread, run, ended, about, plan, seen, workers, billing, faults>>

\* The broker raises, with or without having taken the message.
PublishFails(d) ==
    /\ Fault
    /\ dpc[d] = "owning"
    /\ \/ UNCHANGED queue
       \/ Enqueue(about[d])
    /\ run' = ReleasedDispatch(d, about[d])
    /\ Rest(d)
    /\ UNCHANGED <<request, thread, ended, plan, seen, workers, billing>>

MarkDispatched(d) ==
    /\ dpc[d] = "published"
    /\ LET r == about[d]
       IN  run' = IF run[r].publisher = d
                  THEN [ReleasedDispatch(d, r) EXCEPT ![r].receipt = TRUE]
                  ELSE run
    /\ Rest(d)
    /\ UNCHANGED <<request, thread, queue, ended, plan, seen, workers, billing, faults>>

\* The process of a publisher dies.  A new reconciler takes Beat's place.
PublisherCrash(d) ==
    /\ Fault
    /\ dpc[d] \notin {"idle", "done"}
    /\ Rest(d)
    /\ IF Scheduling(d)
       THEN seen' = [seen EXCEPT ![d] = {}] /\ plan' = [plan EXCEPT ![d] = "reject"]
       ELSE UNCHANGED <<seen, plan>>
    /\ UNCHANGED <<request, thread, transport, workers, billing>>

\* The claim of a publisher that is gone runs out, or (a fault) of a slow one.
DispatchLapse(r) ==
    /\ run[r].plive
    /\ LET d == run[r].publisher
       IN  IF dpc[d] \in {"owning", "published"} /\ about[d] = r
           THEN Fault
           ELSE UNCHANGED faults
    /\ run' = [run EXCEPT ![r].plive = FALSE]
    /\ UNCHANGED <<request, thread, queue, ended, publishers, workers, billing>>

-----------------------------------------------------------------------------
(* The DataService's transactions on the billing row of a request.         *)

Key(w) == request[turn[w]]
User(q) == [role |-> "user", of |-> q]
Assistant(q) == [role |-> "assistant", of |-> q]
Said(t, m) == [messages EXCEPT ![t] = Append(@, m)]

\* authorize: the hold and the user message in one transaction; the same key
\* again is a replay.
Authorized(q, t) ==
    IF bill[q] = "none"
    THEN bill' = [bill EXCEPT ![q] = "authorized"] /\ messages' = Said(t, User(q))
    ELSE UNCHANGED <<bill, messages>>

\* release (and release_by_idempotency_key): nothing unless authorized.
ReleasedBill(q) ==
    IF bill[q] = "authorized" THEN [bill EXCEPT ![q] = "released"] ELSE bill
Release(q) == bill' = ReleasedBill(q) /\ UNCHANGED messages

\* Mutant of Rollback: a charged turn is rolled back as well, its question is
\* deleted wherever it stands.
RollbackAnyway(q, t) ==
    /\ bill' = ReleasedBill(q)
    /\ messages' = [messages EXCEPT ![t] = SelectSeq(@, LAMBDA m : m # User(q))]

\* rollback: refused once settled, otherwise a release that also deletes the
\* user message if it is still the last of its thread.
Rollback(q, t) ==
    /\ bill[q] # "settled"
    /\ bill' = ReleasedBill(q)
    /\ LET said == messages[t]
       IN  messages' =
             IF said # <<>> /\ said[Len(said)] = User(q)
             THEN [messages EXCEPT ![t] = SubSeq(said, 1, Len(said) - 1)]
             ELSE messages

\* Mutant of Complete: the status of the row is not compared, so a completion
\* that comes late charges what was released.
CompleteUncharged(q, t) ==
    IF bill[q] # "settled"
    THEN bill' = [bill EXCEPT ![q] = "settled"] /\ messages' = Said(t, Assistant(q))
    ELSE UNCHANGED <<bill, messages>>

\* complete: the answer and the charge in one transaction, for an authorized
\* row; a settled row replays its answer, any other row is a conflict.
Complete(q, t) ==
    IF bill[q] = "authorized"
    THEN bill' = [bill EXCEPT ![q] = "settled"] /\ messages' = Said(t, Assistant(q))
    ELSE UNCHANGED <<bill, messages>>

\* reconcile_expired: beyond its lifetime an authorization is closed.
Expire(q) ==
    /\ Fault
    /\ bill[q] = "authorized"
    /\ bill' = [bill EXCEPT ![q] = "expired"]
    /\ UNCHANGED <<request, thread, transport, publishers, workers, sent, messages>>

-----------------------------------------------------------------------------
(* A worker takes a message and claims the run.                            *)

Goto(w, l) == wpc' = [wpc EXCEPT ![w] = l]

Idle(w) == /\ Goto(w, "idle")
           /\ turn' = [turn EXCEPT ![w] = None]
           /\ replay' = [replay EXCEPT ![w] = FALSE]

\* Mutant of Close: the end event follows whoever owns the run.
CloseAlways(w, gone) == Goto(w, "closing")

\* A worker that has lost the run leaves it without an end event.
Close(w, gone) == Goto(w, IF gone THEN "leaving" ELSE "closing")

\* Worker w is alive and at work on run r, which it has claimed.
Busy(w, r) == turn[w] = r /\ wpc[w] \notin {"idle", "claiming"}

Deliver(w, r) ==
    /\ wpc[w] = "idle"
    /\ queue[r] > 0
    /\ queue' = [queue EXCEPT ![r] = @ - 1]
    /\ turn' = [turn EXCEPT ![w] = r]
    /\ Goto(w, "claiming")
    /\ UNCHANGED <<request, thread, run, ended, publishers, replay, billing, faults>>

ClaimExecution(w) ==
    /\ wpc[w] = "claiming"
    /\ Claimable(turn[w])
    /\ run' = [run EXCEPT ![turn[w]] =
                 [@ EXCEPT !.status = "running", !.owner = w, !.live = TRUE]]
    /\ Goto(w, "preparing")
    /\ UNCHANGED <<request, thread, queue, ended, publishers, turn, replay, billing, faults>>

\* Mutant of ClaimRefused: the worker does not wait for the lease to lapse.
ClaimRefusedAtOnce(w) ==
    /\ wpc[w] = "claiming"
    /\ ~Claimable(turn[w])
    /\ Idle(w)
    /\ UNCHANGED <<request, thread, transport, publishers, billing, faults>>

\* The run has ended, or another worker held it to the end of the wait, which
\* is longer than a lease: nobody is refused for the lease of a dead worker.
ClaimRefused(w) ==
    /\ wpc[w] = "claiming"
    /\ \/ ~IsActive(turn[w])
       \/ ~Claimable(turn[w]) /\ \E v \in Worker : Owns(v, turn[w]) /\ Busy(v, turn[w])
    /\ Idle(w)
    /\ UNCHANGED <<request, thread, transport, publishers, billing, faults>>

\* The heartbeat extends the lease as long as the run is the worker's own,
\* also when it had run out and nobody has taken the run.
RenewExecutionClaim(w) ==
    /\ wpc[w] \in Executing
    /\ HoldsRun(w, turn[w])
    /\ ~run[turn[w]].live
    /\ run' = [run EXCEPT ![turn[w]].live = TRUE]
    /\ UNCHANGED <<request, thread, queue, ended, publishers, workers, billing, faults>>

\* The lease of a worker that is gone runs out, or (a fault) that of a worker
\* that stalls.
LeaseLapse(r) ==
    /\ run[r].owner # None
    /\ run[r].live
    /\ LET w == run[r].owner
       IN  IF Busy(w, r)
           THEN Fault
           ELSE UNCHANGED faults
    /\ run' = [run EXCEPT ![r].live = FALSE]
    /\ UNCHANGED <<request, thread, queue, ended, publishers, workers, billing>>

-----------------------------------------------------------------------------
(* The turn (run_chat_turn and ThreadTurnHandler).                         *)

\* prepare_turn: the turn is authorized, replayed, or refused.
Authorize(w) ==
    /\ wpc[w] = "preparing"
    /\ IF bill[Key(w)] \in {"released", "expired"}
       THEN Goto(w, "refused") /\ UNCHANGED <<replay, bill, messages>>
       ELSE /\ Authorized(Key(w), thread[turn[w]])
            /\ replay' = [replay EXCEPT ![w] = bill[Key(w)] = "settled"]
            /\ Goto(w, "prepared")
    /\ UNCHANGED <<request, thread, transport, publishers, turn, sent, faults>>

\* The credits do not suffice.
Decline(w) ==
    /\ wpc[w] = "preparing"
    /\ bill[Key(w)] = "none"
    /\ Goto(w, "refused")
    /\ UNCHANGED <<request, thread, transport, publishers, turn, replay, billing, faults>>

\* The authorization commits and its response is lost, twice: the handler
\* compensates by the key and gives the turn up.
AuthorizeLost(w) ==
    /\ Fault
    /\ wpc[w] = "preparing"
    /\ bill[Key(w)] \notin {"released", "expired"}
    /\ Authorized(Key(w), thread[turn[w]])
    /\ Goto(w, "compensating")
    /\ UNCHANGED <<request, thread, transport, publishers, turn, replay, sent>>

Compensate(w) ==
    /\ wpc[w] = "compensating"
    /\ Release(Key(w)) \/ UNCHANGED <<bill, messages>>
    /\ Goto(w, "refused")
    /\ UNCHANGED <<request, thread, transport, publishers, turn, replay, sent, faults>>

\* bind_thread is checked against the owner; then the generator is opened.
BindThread(w) ==
    /\ wpc[w] = "prepared"
    /\ IF Owns(w, turn[w])
       THEN Goto(w, "streaming")
       ELSE Close(w, TRUE)
    /\ UNCHANGED <<request, thread, transport, publishers, turn, replay, billing, faults>>

\* The first event cannot be published: the authorization is closed only while
\* the run is still the worker's own.
PublishMetadataFails(w) ==
    /\ Fault
    /\ wpc[w] = "prepared"
    /\ Owns(w, turn[w])
    /\ IF HoldsRun(w, turn[w]) THEN Release(Key(w)) ELSE UNCHANGED <<bill, messages>>
    /\ Goto(w, "failed")
    /\ UNCHANGED <<request, thread, transport, publishers, turn, replay, sent>>

\* The provider, or a later publication, fails: the generator's own handler
\* closes the authorization (stream_turn's except clause).
StreamFails(w) ==
    /\ wpc[w] = "streaming"
    /\ Release(Key(w))
    /\ Goto(w, "failed")
    /\ UNCHANGED <<request, thread, transport, publishers, turn, replay, sent, faults>>

\* The answer is complete: a replay has it already, otherwise the completion
\* is requested.
SendComplete(w) ==
    /\ wpc[w] = "streaming"
    /\ IF replay[w]
       THEN Goto(w, "completed") /\ UNCHANGED sent
       ELSE /\ sent[w] = None
            /\ sent' = [sent EXCEPT ![w] = turn[w]]
            /\ Goto(w, "settling")
    /\ UNCHANGED <<request, thread, transport, publishers, turn, replay, bill, messages, faults>>

\* Mutant of ServeComplete: a conflict counts as a completion.
ServeCompleteWhatever(w) ==
    /\ sent[w] # None
    /\ Complete(request[sent[w]], thread[sent[w]])
    /\ IF wpc[w] = "settling" THEN Goto(w, "completed") ELSE UNCHANGED wpc
    /\ sent' = [sent EXCEPT ![w] = None]
    /\ UNCHANGED <<request, thread, transport, publishers, turn, replay, faults>>

\* The DataService commits or refuses a completion; the worker may have given
\* up on it.  The refusal fails the turn.
ServeComplete(w) ==
    /\ sent[w] # None
    /\ LET q == request[sent[w]]
       IN  /\ Complete(q, thread[sent[w]])
           /\ IF wpc[w] = "settling"
              THEN Goto(w, IF bill[q] \in {"authorized", "settled"}
                           THEN "completed" ELSE "failed")
              ELSE UNCHANGED wpc
    /\ sent' = [sent EXCEPT ![w] = None]
    /\ UNCHANGED <<request, thread, transport, publishers, turn, replay, faults>>

\* The response is lost or late: the generator closes the authorization, as far
\* as it is still open, whatever becomes of the request.
CompleteLost(w) ==
    /\ Fault
    /\ wpc[w] = "settling"
    /\ \/ Release(Key(w)) /\ UNCHANGED sent
       \/ /\ Complete(Key(w), thread[turn[w]])
          /\ sent' = [sent EXCEPT ![w] = None]
    /\ Goto(w, "failed")
    /\ UNCHANGED <<request, thread, transport, publishers, turn, replay>>

\* A terminal status is written only by the owner of a running run; otherwise
\* the worker looks who owns the run now.
Finish(w, l, status) ==
    /\ wpc[w] = l
    /\ TransitionStatus(w, turn[w], status)
    /\ Close(w, ~Owns(w, turn[w]))
    /\ UNCHANGED <<request, thread, queue, ended, publishers, turn, replay, billing, faults>>

Succeed(w) == Finish(w, "completed", "success")
FailTurn(w) == Finish(w, "failed", "error") \/ Finish(w, "refused", "error")

-----------------------------------------------------------------------------
(* A worker's turn is cut short.                                           *)

\* What the cancelled execution task does to the authorization before it ends:
\* an authorization under way is awaited and released, an open generator
\* releases, and between the two nothing does.
CancelExecution(w) ==
    LET q == Key(w)
    IN  CASE wpc[w] = "preparing" /\ bill[q] = "none" ->
                /\ bill' = [bill EXCEPT ![q] = "released"]
                /\ messages' = Said(thread[turn[w]], User(q))
          [] (wpc[w] = "preparing" /\ bill[q] # "none") \/ wpc[w] \in InGenerator ->
                Release(q)
          [] OTHER -> UNCHANGED <<bill, messages>>

\* wait_for_abort sees the interrupted status.  A worker whose authorization
\* was under way or refused has nothing to hand to the interruption handler.
AbortSeen(w) ==
    /\ wpc[w] \in Executing \cup {"completed", "failed", "refused"}
    /\ run[turn[w]].status = "interrupted"
    /\ CancelExecution(w)
    /\ IF wpc[w] \in {"preparing", "refused"}
       THEN Close(w, FALSE)
       ELSE Goto(w, "interrupting")
    /\ UNCHANGED <<request, thread, transport, publishers, turn, replay, sent, faults>>

\* handle_run_interruption: roll back, unless the turn has started a Mission or
\* the rollback is refused; release otherwise.
Interrupt(w) ==
    /\ wpc[w] = "interrupting"
    /\ \/ run[turn[w]].abort = "rollback" /\ Rollback(Key(w), thread[turn[w]])
       \/ Release(Key(w))
    /\ Close(w, FALSE)
    /\ UNCHANGED <<request, thread, transport, publishers, turn, replay, sent, faults>>

\* The heartbeat finds that the run is not the worker's any more: the execution
\* task is cancelled and the stream run closed.
ExecutionLeaseLost(w) ==
    /\ wpc[w] \in Executing
    /\ ~HoldsRun(w, turn[w])
    /\ CancelExecution(w)
    /\ Close(w, TRUE)
    /\ UNCHANGED <<request, thread, transport, publishers, turn, replay, sent, faults>>

\* Redis is away for the length of a lease: the same, and the task ends with a
\* retry of its message.
ExecutionLeaseUnavailable(w) ==
    /\ Fault
    /\ wpc[w] \in Executing
    /\ run' = IF Owns(w, turn[w]) THEN [run EXCEPT ![turn[w]].live = FALSE] ELSE run
    /\ CancelExecution(w)
    /\ Goto(w, "retrying")
    /\ UNCHANGED <<request, thread, queue, ended, publishers, turn, replay, sent>>

\* release_execution_claim, and the end event unless the ownership was lost.
FinishTask(w) ==
    /\ wpc[w] \in {"closing", "leaving", "retrying"}
    /\ run' = IF Owns(w, turn[w])
              THEN [run EXCEPT ![turn[w]].owner = None, ![turn[w]].live = FALSE]
              ELSE run
    /\ ended' = IF wpc[w] = "closing" THEN ended \cup {turn[w]} ELSE ended
    /\ IF wpc[w] = "retrying" THEN Enqueue(turn[w]) ELSE UNCHANGED queue
    /\ Idle(w)
    /\ UNCHANGED <<request, thread, publishers, billing, faults>>

\* The process dies: the message was not acknowledged and comes back.
WorkerCrash(w) ==
    /\ Fault
    /\ wpc[w] # "idle"
    /\ Enqueue(turn[w])
    /\ Idle(w)
    /\ UNCHANGED <<request, thread, run, ended, publishers, billing>>

\* The broker takes a slow worker for dead.
Redeliver(w) ==
    /\ Fault
    /\ wpc[w] # "idle"
    /\ Enqueue(turn[w])
    /\ UNCHANGED <<request, thread, run, ended, publishers, workers, billing>>

-----------------------------------------------------------------------------
PublisherStep(d) ==
    \/ \E r \in Call : ClaimDispatch(d, r)
    \/ Publish(d) \/ MarkDispatched(d)

CallStep(c) == CancelInflight(c) \/ CreateRun(c) \/ LeaveDispatch(c) \/ PublisherStep(c)

WorkerStep(w) ==
    \/ \E r \in Call : Deliver(w, r)
    \/ ClaimExecution(w) \/ ClaimRefused(w) \/ RenewExecutionClaim(w)
    \/ Authorize(w) \/ Decline(w) \/ Compensate(w) \/ BindThread(w)
    \/ StreamFails(w) \/ SendComplete(w) \/ Succeed(w) \/ FailTurn(w)
    \/ AbortSeen(w) \/ Interrupt(w) \/ ExecutionLeaseLost(w) \/ FinishTask(w)

WorkerFault(w) ==
    \/ AuthorizeLost(w) \/ PublishMetadataFails(w) \/ CompleteLost(w)
    \/ ExecutionLeaseUnavailable(w) \/ WorkerCrash(w) \/ Redeliver(w)

Next ==
    \/ \E c \in Call : Schedule(c) \/ CallStep(c)
    \/ PublisherStep(Beat)
    \/ \E d \in Publisher : PublishFails(d) \/ PublisherCrash(d)
    \/ \E r \in Call : DispatchLapse(r) \/ LeaseLapse(r)
    \/ \E r \in Call, action \in {"interrupt", "rollback"} : Cancel(r, action)
    \/ \E w \in Worker : WorkerStep(w) \/ ServeComplete(w) \/ WorkerFault(w)
    \/ \E q \in Request : Expire(q)

Spec == Init /\ [][Next]_vars

(***************************************************************************)
(* Every process that has a step takes it: the API calls that were made,   *)
(* beat, the workers (each of their steps is a bounded wait), the          *)
(* DataService, and the clock that ends the leases of the dead.  Users and *)
(* faults are not fair.                                                    *)
(***************************************************************************)
Fairness ==
    /\ \A c \in Call : WF_vars(CallStep(c))
    /\ WF_vars(PublisherStep(Beat))
    /\ \A w \in Worker : WF_vars(WorkerStep(w)) /\ WF_vars(ServeComplete(w))
    /\ \A r \in Call : WF_vars(DispatchLapse(r)) /\ WF_vars(LeaseLapse(r))

FairSpec == Spec /\ Fairness

-----------------------------------------------------------------------------
(* Properties.                                                             *)

\* A turn the transport reports as successful has been answered and charged:
\* its billing row is settled, although the status lives in Redis, the row in
\* the database, and the two are written by different steps.
SuccessIsSettled ==
    \A r \in Call : run[r].status = "success" => bill[request[r]] = "settled"

Occurrences(t, m) == {i \in DOMAIN messages[t] : messages[t][i] = m}

\* Where a message stands, in whatever conversation.
Posts(m) == UNION {{t} \X Occurrences(t, m) : t \in Thread}

\* However many workers and deliveries a request has seen, there is one question
\* of it and, exactly when it was charged, one answer, below it in the same
\* conversation; a rollback never takes away the question of a charged turn.
AnsweredOnce ==
    \A q \in Request :
        /\ Cardinality(Posts(User(q))) <= 1
        /\ Cardinality(Posts(Assistant(q))) = (IF bill[q] = "settled" THEN 1 ELSE 0)
        /\ \A b \in Posts(Assistant(q)) : \E a \in Posts(User(q)) : a[1] = b[1] /\ a[2] < b[2]

Asked == {q \in Request : \E t \in Thread : Occurrences(t, User(q)) # {}}
Answered == {q \in Request : \E t \in Thread : Occurrences(t, Assistant(q)) # {}}

\* For all that runs, workers, retries and cancellations do to it, a request is
\* billed as TurnBilling promises: a closed authorization is not charged by a
\* late completion, and no rollback takes back what was charged.
Billing == INSTANCE TurnBilling WITH row <- bill, asked <- Asked, answered <- Answered
ImplementsBilling == Billing!Spec

\* A thread has one active turn, and a request one run, whatever calls and
\* strategies are admitted at the same time.
OneActiveTurn ==
    \A r, s \in Call :
        r # s => /\ ~(IsActive(r) /\ IsActive(s) /\ thread[r] = thread[s])
                 /\ request[r] = request[s] =>
                        "absent" \in {run[r].status, run[s].status}

\* The reader of a stream is told that it ended only when the turn has.
EndedIsTerminal == \A r \in ended : run[r].status \in Terminal

\* A turn that has ended keeps its result: no late worker, delivery, publisher
\* or canceller changes the status of a terminal run.
ResultIsKept ==
    [][\A r \in Call : run[r].status \in Terminal => run'[r].status = run[r].status]_vars

\* Every admitted turn ends: through crashes of the gateway, of beat and of
\* workers, lost and repeated messages and lapsed leases.
EveryTurnEnds ==
    \A r \in Call : run[r].status = "pending" ~> run[r].status \in Terminal

\* docs/current/architecture.md:52 (also specs/mission-runtime/01_workspace_agent.md:74):
\* billing cleanup is fenced by the owner.  While a worker holds a run and
\* streams its turn, nobody else releases the authorization of the turn.
CleanupIsFenced ==
    [][\A w \in Worker :
          wpc[w] \in InGenerator /\ HoldsRun(w, turn[w]) /\ bill[Key(w)] = "authorized"
          => (bill'[Key(w)] # "released" \/ wpc'[w] # wpc[w])]_vars
=============================================================================
