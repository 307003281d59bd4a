--------------------------- MODULE ToolOperations ---------------------------
(***************************************************************************)
(* The tool calls of one Mission and the durable receipts that keep their  *)
(* effects from being repeated (ToolOrchestrator.invoke, the operation     *)
(* journal over mission_items, SandboxRuntime.execute).                    *)
(*                                                                         *)
(*   lease     the Mission's lease: its epoch, and whether it is held      *)
(*   alive     the leases whose slice process still runs; it may run on    *)
(*             after its lease is lost                                     *)
(*   inflight  the operation of the Mission being driven, an index of Plan *)
(*   receipt   for each operation key, its latest claim: status, claim     *)
(*             token, and whether the claim has not expired                *)
(*   begun     the tools whose handler ever began (history)                *)
(*   jobs      how often each sandbox job was run (history)                *)
(*   run       for each lease and call, the invocation in that process     *)
(*   reported  what the Mission's own ledger says of the call              *)
(*   surprises interruptions, lost responses and slow writes so far        *)
(*                                                                         *)
(* A workspace agent has one tool call in flight.  A subagent operation    *)
(* runs several jobs at once, each with a call of its own, and a slice may *)
(* yield before the batch ends: the next slice replays the calls it has    *)
(* seen.  Each DataService command locks the Mission row: one step.  Which *)
(* process gets the lease is the subject of MissionLease; a Mission that   *)
(* ends is one whose lease is lost and not taken again.                    *)
(***************************************************************************)
EXTENDS Integers, Sequences

CONSTANTS
    Call,
    Plan,           \* the Mission's operations in order, each a set of calls
    SubagentOps,    \* those run by subagents
    KeyOf,          \* tool operation key of each call
    SandboxKeyOf,   \* sandbox operation key of each sandbox tool key
    Retryable,      \* keys of reads, with a second attempt in place
    MaxEpoch,       \* bound on leases; the last one is not lost
    MaxSurprises    \* bound on surprises

ToolKey == {KeyOf[c] : c \in Call}
SandboxTool == DOMAIN SandboxKeyOf
SandboxKey == {SandboxKeyOf[k] : k \in SandboxTool}
Key == ToolKey \cup SandboxKey
Epoch == 1..MaxEpoch

ASSUME PlanAssumption ==
    /\ Plan \in Seq(SUBSET Call)
    /\ \A i, j \in DOMAIN Plan : i # j => Plan[i] \cap Plan[j] = {}
    /\ KeyOf \in [Call -> ToolKey]
    /\ SandboxTool \subseteq ToolKey
    /\ SandboxKeyOf \in [SandboxTool -> SandboxKey]
    /\ ToolKey \cap SandboxKey = {}
    \* sandbox keys name the subagent: jobs of one batch never share one
    /\ \A i \in DOMAIN Plan : \A c, d \in Plan[i] :
          /\ KeyOf[c] \in SandboxTool /\ KeyOf[d] \in SandboxTool
          /\ SandboxKeyOf[KeyOf[c]] = SandboxKeyOf[KeyOf[d]]
          => c = d
    /\ MaxEpoch \in Nat \ {0} /\ MaxSurprises \in Nat

VARIABLES lease, alive, inflight, receipt, begun, jobs, run, reported, surprises

drive == <<lease, alive, inflight, reported>>
effects == <<begun, jobs>>
vars == <<drive, receipt, effects, run, surprises>>

Idle == [pc |-> "idle", token |-> 0, job |-> 0, attempt |-> 1, outcome |-> "failed"]

Init ==
    /\ lease = [epoch |-> 0, held |-> FALSE]
    /\ alive = {}
    /\ inflight = 1
    /\ receipt = [k \in Key |-> [status |-> "none", token |-> 0, live |-> FALSE]]
    /\ begun = {}
    /\ jobs = [s \in SandboxKey |-> 0]
    /\ run = [e \in Epoch |-> [c \in Call |-> Idle]]
    /\ reported = [c \in Call |-> "open"]
    /\ surprises = 0

-----------------------------------------------------------------------------
(* The receipts. *)

\* _require_effect_epoch, and what assert_current waits for.
Current(e) == lease.held /\ lease.epoch = e

Decided(k) == receipt[k].status \in {"succeeded", "failed"}

\* Mutant of CanClaim: a claim is taken over without a look at its expiry.
ClaimAnyway(k, e) == Current(e) /\ receipt[k].status \in {"none", "claimed"}

CanClaim(k, e) ==
    /\ Current(e)
    /\ \/ receipt[k].status = "none"
       \/ receipt[k].status = "claimed" /\ ~receipt[k].live

Claimed(k) == [status |-> "claimed", token |-> receipt[k].token + 1, live |-> TRUE]

Finished(k, v) == [receipt[k] EXCEPT !.status = v, !.live = FALSE]

\* Mutant of Known: only a failure is told apart.
KnownHope(k) == IF receipt[k].status = "failed" THEN "failed" ELSE "succeeded"

\* What a receipt answers to those who do not hold its claim: while it is only
\* claimed, a failure.
Known(k) == IF Decided(k) THEN receipt[k].status ELSE "failed"

\* finish_operation: a claim that expired may still be finished, one that was
\* taken over may not.
CanFinish(k, e, token) ==
    Current(e) /\ receipt[k].status = "claimed" /\ receipt[k].token = token

Surprise == surprises < MaxSurprises /\ surprises' = surprises + 1

\* Where an invocation is, and where it goes.
At(e, c, pc) == e \in alive /\ run[e][c].pc = pc
Becomes(e, c, r) == run' = [run EXCEPT ![e][c] = r]
To(e, c, next) == Becomes(e, c, [run[e][c] EXCEPT !.pc = next])
ToRecord(e, c, v) == Becomes(e, c, [run[e][c] EXCEPT !.pc = "record", !.outcome = v])
ToFinalize(e, c, v) == Becomes(e, c, [run[e][c] EXCEPT !.pc = "finalize", !.outcome = v])
Answer(e, c, v) == Becomes(e, c, [Idle EXCEPT !.pc = "returned", !.outcome = v])

-----------------------------------------------------------------------------
(* ToolOrchestrator.invoke: the outer receipt. *)

\* A call of the operation in flight begins, or is replayed by a later slice.
LoadTerminal(e, c) ==
    /\ Current(e) /\ At(e, c, "idle")
    /\ inflight \in DOMAIN Plan /\ c \in Plan[inflight]
    /\ IF Decided(KeyOf[c])
       THEN Answer(e, c, receipt[KeyOf[c]].status)
       ELSE To(e, c, "claim")
    /\ UNCHANGED <<drive, receipt, effects, surprises>>

ClaimStarted(e, c) ==
    /\ At(e, c, "claim")
    /\ LET k == KeyOf[c]
       IN  \/ /\ CanClaim(k, e)
              /\ receipt' = [receipt EXCEPT ![k] = Claimed(k)]
              /\ Becomes(e, c, [run[e][c] EXCEPT !.pc = "attempt",
                                                 !.token = receipt[k].token + 1])
           \/ /\ ~CanClaim(k, e)
              /\ IF Current(e) THEN To(e, c, "contended") ELSE Answer(e, c, "failed")
              /\ UNCHANGED receipt
    /\ UNCHANGED <<drive, effects, surprises>>

\* The claim is somebody else's or the receipt is decided: one more look.
LoadContended(e, c) ==
    /\ At(e, c, "contended")
    /\ Answer(e, c, Known(KeyOf[c]))
    /\ UNCHANGED <<drive, receipt, effects, surprises>>

\* Policy, permission and budget checks may refuse the call: a failed receipt.
Preflight(e, c) ==
    /\ At(e, c, "attempt") /\ run[e][c].attempt = 1
    /\ ToRecord(e, c, "failed")
    /\ UNCHANGED <<drive, receipt, effects, surprises>>

StartAttempt(e, c) ==
    /\ At(e, c, "attempt")
    /\ LET k == KeyOf[c]
       IN  \/ ~Current(e) /\ Answer(e, c, "failed") /\ UNCHANGED begun
           \/ /\ Current(e) /\ k \in SandboxTool
              /\ To(e, c, "inspect") /\ UNCHANGED begun
           \/ /\ Current(e) /\ k \notin SandboxTool
              /\ To(e, c, "handler")
              /\ begun' = begun \cup {k}
    /\ UNCHANGED <<drive, receipt, jobs, surprises>>

\* Mutant of MayRetry: the attempts are not counted.
RetryAlways(e, c) == KeyOf[c] \in Retryable

MayRetry(e, c) == KeyOf[c] \in Retryable /\ run[e][c].attempt = 1

HandlerEnds(e, c) ==
    /\ At(e, c, "handler")
    /\ \/ \E v \in {"succeeded", "failed"} : ToRecord(e, c, v)
       \/ /\ MayRetry(e, c)
          /\ Becomes(e, c, [run[e][c] EXCEPT !.pc = "attempt", !.attempt = 2])
    /\ UNCHANGED <<drive, receipt, effects, surprises>>

\* The write may be done and its response lost, or the task cancelled while
\* the shielded write goes on: then the caller sees a failure.
RecordTerminal(e, c) ==
    /\ At(e, c, "record")
    /\ LET k == KeyOf[c]
           r == run[e][c]
       IN  \/ /\ CanFinish(k, e, r.token)
              /\ receipt' = [receipt EXCEPT ![k] = Finished(k, r.outcome)]
              /\ \/ Answer(e, c, r.outcome) /\ UNCHANGED surprises
                 \/ Surprise /\ Answer(e, c, "failed")
           \/ /\ ~CanFinish(k, e, r.token)
              /\ Answer(e, c, "failed")
              /\ UNCHANGED <<receipt, surprises>>
    /\ UNCHANGED <<drive, effects>>

-----------------------------------------------------------------------------
(* SandboxRuntime.execute inside the handler: the inner receipt. *)

\* Mutant of Unclaimed: an expired claim is as good as none.
NotClaimedNow(s) == ~Decided(s) /\ ~receipt[s].live

\* inspect finds any earlier claim, expired or not: nobody knows how far its
\* job came.
Unclaimed(s) == receipt[s].status = "none"

\* An earlier claim is answered from its receipt; the network policy may refuse
\* a job nobody claimed.
Inspect(e, c) ==
    /\ At(e, c, "inspect")
    /\ LET s == SandboxKeyOf[KeyOf[c]]
       IN  \/ ~Current(e) /\ Answer(e, c, "failed")
           \/ Current(e) /\ Unclaimed(s) /\ To(e, c, "claim_job")
           \/ Current(e) /\ ToRecord(e, c, Known(s))
    /\ UNCHANGED <<drive, receipt, effects, surprises>>

ClaimJob(e, c) ==
    /\ At(e, c, "claim_job")
    /\ LET s == SandboxKeyOf[KeyOf[c]]
       IN  \/ /\ CanClaim(s, e)
              /\ receipt' = [receipt EXCEPT ![s] = Claimed(s)]
              /\ Becomes(e, c, [run[e][c] EXCEPT !.pc = "prepare",
                                                 !.job = receipt[s].token + 1])
           \/ /\ ~CanClaim(s, e)
              /\ ToRecord(e, c, IF Current(e) THEN Known(s) ELSE "failed")
              /\ UNCHANGED receipt
    /\ UNCHANGED <<drive, effects, surprises>>

\* Paths, quota and the command audit, then the last look at the lease before
\* the provider runs the job.
StartJob(e, c) ==
    /\ At(e, c, "prepare")
    /\ LET s == SandboxKeyOf[KeyOf[c]]
       IN  \/ /\ Current(e) /\ To(e, c, "provider")
              /\ jobs' = [jobs EXCEPT ![s] = @ + 1]
           \/ ~Current(e) /\ Answer(e, c, "failed") /\ UNCHANGED jobs
           \/ /\ ToFinalize(e, c, "failed")
              /\ UNCHANGED jobs
    /\ UNCHANGED <<drive, receipt, begun, surprises>>

\* Only a success is materialized, and only under the lease.
JobEnds(e, c) ==
    /\ At(e, c, "provider")
    /\ \/ \E v \in {"succeeded", "failed"} :
            /\ v = "succeeded" => Current(e)
            /\ ToFinalize(e, c, v)
       \/ ~Current(e) /\ Answer(e, c, "failed")
    /\ UNCHANGED <<drive, receipt, effects, surprises>>

Finalize(e, c) ==
    /\ At(e, c, "finalize")
    /\ LET s == SandboxKeyOf[KeyOf[c]]
           r == run[e][c]
       IN  \/ /\ CanFinish(s, e, r.job)
              /\ receipt' = [receipt EXCEPT ![s] = Finished(s, r.outcome)]
              /\ \/ To(e, c, "record") /\ UNCHANGED surprises
                 \/ Surprise /\ ToRecord(e, c, "failed")
           \/ /\ ~CanFinish(s, e, r.job)
              /\ ToRecord(e, c, "failed")
              /\ UNCHANGED <<receipt, surprises>>
    /\ UNCHANGED <<drive, effects>>

-----------------------------------------------------------------------------
(* Time and faults. *)

\* The slice deadline, a lost lease or the attempt's own timeout cancels the
\* task.  A cancelled attempt records a failure; a cancelled claim may have
\* been written, for nobody.
Interrupt(e, c) ==
    /\ e \in alive /\ Surprise
    /\ LET k == KeyOf[c]
           claimFor(key) == \/ UNCHANGED receipt
                            \/ CanClaim(key, e) /\ receipt' = [receipt EXCEPT ![key] = Claimed(key)]
       IN  \/ /\ run[e][c].pc = "contended"
              /\ Answer(e, c, "failed") /\ UNCHANGED receipt
           \/ run[e][c].pc = "claim" /\ Answer(e, c, "failed") /\ claimFor(k)
           \/ /\ run[e][c].pc \in {"attempt", "handler", "inspect", "finalize"}
              /\ ToRecord(e, c, "failed") /\ UNCHANGED receipt
           \/ /\ run[e][c].pc = "claim_job"
              /\ ToRecord(e, c, "failed") /\ claimFor(SandboxKeyOf[k])
           \/ /\ run[e][c].pc \in {"prepare", "provider"}
              /\ ToFinalize(e, c, "failed")
              /\ UNCHANGED receipt
    /\ UNCHANGED <<drive, effects>>

\* The invocation that holds the claim of k is still within the budget that
\* the composition checks against the claim's time to live.
SandboxPc == {"inspect", "claim_job", "prepare", "provider", "finalize"}

HoldsTool(e, c, k) ==
    e \in alive /\ KeyOf[c] = k /\ run[e][c].token = receipt[k].token

HoldsJob(e, c, k) ==
    /\ e \in alive /\ KeyOf[c] \in SandboxTool /\ SandboxKeyOf[KeyOf[c]] = k
    /\ run[e][c].job = receipt[k].token

Working(e, c, k) ==
    \/ /\ HoldsTool(e, c, k)
       /\ run[e][c].pc \in {"attempt", "handler"} \cup SandboxPc
    \/ HoldsJob(e, c, k) /\ run[e][c].pc \in {"prepare", "provider"}

Writing(e, c, k) ==
    \/ HoldsTool(e, c, k) /\ run[e][c].pc = "record"
    \/ HoldsJob(e, c, k) /\ run[e][c].pc = "finalize"

\* A claim expires when its holder is gone, or slow to write the end.
ClaimExpires(k) ==
    /\ receipt[k].live
    /\ \A e \in Epoch, c \in Call : ~Working(e, c, k)
    /\ IF \E e \in Epoch, c \in Call : Writing(e, c, k) THEN Surprise
                                                      ELSE UNCHANGED surprises
    /\ receipt' = [receipt EXCEPT ![k].live = FALSE]
    /\ UNCHANGED <<drive, effects, run>>

-----------------------------------------------------------------------------
(* The slice around the calls. *)

Resting(e) == \A c \in Call : run[e][c].pc \in {"idle", "returned"}
Forget(e) == alive' = alive \ {e} /\ run' = [run EXCEPT ![e] = [c \in Call |-> Idle]]

TakeLease ==
    /\ ~lease.held /\ lease.epoch < MaxEpoch
    /\ lease' = [lease EXCEPT !.epoch = @ + 1, !.held = TRUE]
    /\ alive' = alive \cup {lease.epoch + 1}
    /\ UNCHANGED <<inflight, reported, receipt, effects, run, surprises>>

LoseLease ==
    /\ lease.held /\ lease.epoch < MaxEpoch
    /\ lease' = [lease EXCEPT !.held = FALSE]
    /\ UNCHANGED <<alive, inflight, reported, receipt, effects, run, surprises>>

Crash(e) ==
    /\ e \in alive /\ e < MaxEpoch
    /\ Forget(e)
    /\ UNCHANGED <<lease, inflight, reported, receipt, effects, surprises>>

\* A process whose lease is gone leaves when its calls are over.
Leave(e) ==
    /\ e \in alive /\ ~Current(e) /\ Resting(e)
    /\ Forget(e)
    /\ UNCHANGED <<lease, inflight, reported, receipt, effects, surprises>>

\* A quantum of a subagent operation ends before its jobs do.
Yield(e) ==
    /\ e \in alive /\ Current(e) /\ e < MaxEpoch /\ Resting(e)
    /\ inflight \in SubagentOps
    /\ lease' = [lease EXCEPT !.held = FALSE]
    /\ Forget(e)
    /\ UNCHANGED <<inflight, reported, receipt, effects, surprises>>

\* The result of the operation in flight is appended under the lease.
Report(e) ==
    /\ e \in alive /\ Current(e) /\ inflight \in DOMAIN Plan
    /\ \A c \in Plan[inflight] : run[e][c].pc = "returned"
    /\ reported' = [c \in Call |->
                       IF c \notin Plan[inflight] THEN reported[c]
                       ELSE IF run[e][c].outcome = "succeeded" THEN "completed" ELSE "failed"]
    /\ inflight' = inflight + 1
    /\ run' = [run EXCEPT ![e] = [c \in Call |-> Idle]]
    /\ UNCHANGED <<lease, alive, receipt, effects, surprises>>

InvocationStep(e, c) ==
    \/ LoadTerminal(e, c) \/ ClaimStarted(e, c) \/ LoadContended(e, c)
    \/ Preflight(e, c) \/ StartAttempt(e, c) \/ HandlerEnds(e, c)
    \/ RecordTerminal(e, c)
    \/ Inspect(e, c) \/ ClaimJob(e, c) \/ StartJob(e, c) \/ JobEnds(e, c)
    \/ Finalize(e, c)

Next ==
    \/ \E e \in Epoch, c \in Call :
          InvocationStep(e, c) \/ Interrupt(e, c)
    \/ \E k \in Key : ClaimExpires(k)
    \/ \E e \in Epoch : Crash(e) \/ Leave(e) \/ Yield(e) \/ Report(e)
    \/ TakeLease \/ LoseLease

Spec == Init /\ [][Next]_vars

\* The event loops run their tasks and the store answers; a call has an end, so
\* no task needs a turn of its own.  The lease of a process that is gone
\* expires, and the Mission is dispatched again.
FairSpec ==
    /\ Spec
    /\ WF_vars(\E e \in Epoch, c \in Call : InvocationStep(e, c))
    /\ WF_vars(\E e \in Epoch : Report(e))
    /\ WF_vars(TakeLease)
    /\ WF_vars(lease.epoch \notin alive /\ LoseLease)

-----------------------------------------------------------------------------
Pc == {"idle", "claim", "contended", "attempt", "handler",
       "record", "returned"} \cup SandboxPc

Invocation == [pc : Pc, token : Nat, job : Nat, attempt : {1, 2},
               outcome : {"succeeded", "failed"}]

\* The types of the rows and of the state each invocation keeps in memory; a
\* process that is gone keeps none.
TypeOK ==
    /\ lease \in [epoch : 0..MaxEpoch, held : BOOLEAN]
    /\ alive \subseteq 1..lease.epoch
    /\ inflight \in 1..(Len(Plan) + 1)
    /\ receipt \in [Key -> [status : {"none", "claimed", "succeeded", "failed"},
                            token : Nat, live : BOOLEAN]]
    /\ \A k \in Key : receipt[k].live => receipt[k].status = "claimed"
    /\ begun \subseteq ToolKey
    /\ jobs \in [SandboxKey -> Nat]
    /\ run \in [Epoch -> [Call -> Invocation]]
    /\ \A e \in Epoch \ alive, c \in Call : run[e][c] = Idle
    /\ reported \in [Call -> {"open", "completed", "failed"}]
    /\ surprises \in 0..MaxSurprises

\* A handler runs only under the latest, unexpired claim of its undecided
\* receipt, and a sandbox job under that of its own: no two handlers of one
\* key run at a time, whatever processes, jobs and leases overlap, and none
\* runs once the receipt is decided.
HandlerHoldsClaim ==
    \A e \in alive, c \in Call :
        LET k == KeyOf[c]
            r == run[e][c]
        IN  /\ r.pc \in {"handler"} \cup SandboxPc =>
                  receipt[k] = [status |-> "claimed", token |-> r.token, live |-> TRUE]
            /\ r.pc = "provider" =>
                  receipt[SandboxKeyOf[k]] =
                      [status |-> "claimed", token |-> r.job, live |-> TRUE]

\* A sandbox job runs at most once in a Mission, through crashes, takeovers,
\* expired claims and later calls with the same request.
SandboxOnce == \A s \in SandboxKey : jobs[s] <= 1

\* The receipts and the Mission's ledger keep what OperationReceipts promises:
\* one decision, successes only for effects that happened, completed calls only
\* for successes.
Receipts == INSTANCE OperationReceipts WITH
    RestsOn <- SandboxKeyOf,
    decided <- [k \in Key |-> IF Decided(k) THEN receipt[k].status ELSE "open"],
    happened <- begun \cup {s \in SandboxKey : jobs[s] > 0}

ImplementsReceipts == Receipts!Spec

\* Every call of a Mission that goes on is reported in the end, though
\* claims of crashed processes stand in its way.
EveryCallIsReported ==
    <>(\A i \in DOMAIN Plan : \A c \in Plan[i] : reported[c] # "open")
=============================================================================
