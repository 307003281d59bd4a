----------------------- MODULE ToolOperations_proofs -----------------------
(***************************************************************************)
(* Proofs about ToolOperations, for any plan of calls, any number of       *)
(* leases and any number of surprises.                                     *)
(***************************************************************************)
EXTENDS ToolOperations, TLAPS

-----------------------------------------------------------------------------
(* Types.                                                                  *)

Receipt == [status : {"none", "claimed", "succeeded", "failed"}, token : Nat, live : BOOLEAN]

LEMMA KeyFacts ==
    /\ \A c \in Call : KeyOf[c] \in ToolKey /\ KeyOf[c] \in Key
    /\ \A k \in SandboxTool : SandboxKeyOf[k] \in SandboxKey /\ SandboxKeyOf[k] \in Key
    /\ \A k \in ToolKey : k \in Key /\ k \notin SandboxKey
    /\ \A k \in SandboxKey : k \in Key /\ k \notin ToolKey
  BY PlanAssumption DEF ToolKey, SandboxKey, SandboxTool, Key

LEMMA IdleType == Idle \in Invocation
  BY DEF Idle, Invocation, Pc, SandboxPc

LEMMA InitType == Init => TypeOK
<1> SUFFICES ASSUME Init PROVE TypeOK
  OBVIOUS
<1>1. /\ inflight \in 1 .. (Len(Plan) + 1)
      /\ reported \in [Call -> {"open", "completed", "failed"}]
      /\ surprises \in 0 .. MaxSurprises
  BY PlanAssumption DEF Init
<1>2. run \in [Epoch -> [Call -> Invocation]] /\ \A e \in Epoch, c \in Call : run[e][c] = Idle
  BY IdleType DEF Init
<1>3. /\ receipt \in [Key -> Receipt]
      /\ \A k \in Key : receipt[k].live => receipt[k].status = "claimed"
      /\ begun \subseteq ToolKey /\ jobs \in [SandboxKey -> Nat]
  BY DEF Init, Receipt
<1>4. lease \in [epoch : 0 .. MaxEpoch, held : BOOLEAN] /\ alive \subseteq 1 .. lease.epoch
  BY PlanAssumption DEF Init
<1> QED
  BY <1>1, <1>2, <1>3, <1>4 DEF TypeOK, Receipt

\* What a step may do to the record of one invocation.
LEMMA BecomesType ==
    ASSUME TypeOK, NEW e \in Epoch, NEW c \in Call, NEW x \in Invocation, Becomes(e, c, x)
    PROVE  /\ run' \in [Epoch -> [Call -> Invocation]]
           /\ run'[e][c] = x
           /\ \A f \in Epoch, d \in Call : f # e \/ d # c => run'[f][d] = run[f][d]
  BY DEF TypeOK, Becomes

LEMMA RecordTypes ==
    ASSUME TypeOK, NEW e \in Epoch, NEW c \in Call
    PROVE  /\ run[e][c] \in Invocation
           /\ \A p \in Pc : [run[e][c] EXCEPT !.pc = p] \in Invocation
           /\ \A p \in Pc, v \in {"succeeded", "failed"} :
                 /\ [run[e][c] EXCEPT !.pc = p, !.outcome = v] \in Invocation
                 /\ [Idle EXCEPT !.pc = p, !.outcome = v] \in Invocation
           /\ \A p \in Pc, n \in Nat :
                 /\ [run[e][c] EXCEPT !.pc = p, !.token = n] \in Invocation
                 /\ [run[e][c] EXCEPT !.pc = p, !.job = n] \in Invocation
           /\ \A p \in Pc : [run[e][c] EXCEPT !.pc = p, !.attempt = 2] \in Invocation
<1>1. run[e][c] \in Invocation
  BY DEF TypeOK
<1> QED
  BY <1>1, IdleType DEF Invocation

\* What a step may do to one receipt.
LEMMA ReceiptTypes ==
    ASSUME TypeOK, NEW k \in Key
    PROVE  /\ receipt[k] \in Receipt
           /\ Known(k) \in {"succeeded", "failed"}
           /\ Claimed(k) \in Receipt /\ Claimed(k).status = "claimed"
           /\ \A v \in {"succeeded", "failed"} :
                 Finished(k, v) \in Receipt /\ ~Finished(k, v).live
<1>1. receipt \in [Key -> Receipt] /\ receipt[k] \in Receipt
  BY DEF TypeOK, Receipt
<1>2. Known(k) \in {"succeeded", "failed"}
  BY <1>1 DEF Known, Decided
<1>3. Claimed(k) \in Receipt /\ Claimed(k).status = "claimed"
  BY <1>1 DEF Claimed, Receipt
<1>4. \A v \in {"succeeded", "failed"} : Finished(k, v) \in Receipt /\ ~Finished(k, v).live
  BY <1>1 DEF Finished, Receipt
<1> QED
  BY <1>1, <1>2, <1>3, <1>4

\* The ways a receipt moves.
Claims(k, e) == CanClaim(k, e) /\ receipt' = [receipt EXCEPT ![k] = Claimed(k)]
Finishes(k, e, token, v) ==
    CanFinish(k, e, token) /\ receipt' = [receipt EXCEPT ![k] = Finished(k, v)]

LEMMA ClaimMoves ==
    ASSUME TypeOK, NEW k \in Key, NEW e, Claims(k, e)
    PROVE  /\ receipt' \in [Key -> Receipt]
           /\ \A j \in Key : receipt'[j].live => receipt'[j].status = "claimed"
           /\ receipt'[k].status = "claimed" /\ receipt'[k].live
           /\ receipt'[k].token = receipt[k].token + 1
           /\ \A j \in Key \ {k} : receipt'[j] = receipt[j]
           /\ receipt[k].status \in {"none", "claimed"} /\ ~receipt[k].live
           /\ Current(e)
<1>1. receipt \in [Key -> Receipt] /\ \A j \in Key : receipt[j].live => receipt[j].status = "claimed"
  BY DEF TypeOK, Receipt
<1>2. receipt' = [receipt EXCEPT ![k] = Claimed(k)]
  BY DEF Claims
<1>3. receipt'[k] = Claimed(k) /\ \A j \in Key \ {k} : receipt'[j] = receipt[j]
  BY <1>1, <1>2
<1>4. receipt' \in [Key -> Receipt]
  BY <1>1, <1>2, ReceiptTypes
<1>5. Claimed(k).status = "claimed" /\ Claimed(k).live /\ Claimed(k).token = receipt[k].token + 1
  BY DEF Claimed
<1>6. receipt[k].status \in {"none", "claimed"} /\ ~receipt[k].live /\ Current(e)
  BY <1>1 DEF Claims, CanClaim
<1> QED
  BY <1>1, <1>3, <1>4, <1>5, <1>6

LEMMA FinishMoves ==
    ASSUME TypeOK, NEW k \in Key, NEW e, NEW t, NEW v \in {"succeeded", "failed"},
           Finishes(k, e, t, v)
    PROVE  /\ receipt' \in [Key -> Receipt]
           /\ \A j \in Key : receipt'[j].live => receipt'[j].status = "claimed"
           /\ receipt'[k].status = v /\ ~receipt'[k].live /\ receipt'[k].token = receipt[k].token
           /\ \A j \in Key \ {k} : receipt'[j] = receipt[j]
           /\ receipt[k].status = "claimed" /\ receipt[k].token = t
           /\ Current(e)
<1>1. receipt \in [Key -> Receipt] /\ \A j \in Key : receipt[j].live => receipt[j].status = "claimed"
  BY DEF TypeOK, Receipt
<1>2. receipt' = [receipt EXCEPT ![k] = Finished(k, v)]
  BY DEF Finishes
<1>3. receipt'[k] = Finished(k, v) /\ \A j \in Key \ {k} : receipt'[j] = receipt[j]
  BY <1>1, <1>2
<1>4. receipt' \in [Key -> Receipt]
  BY <1>1, <1>2, ReceiptTypes
<1>5. Finished(k, v).status = v /\ ~Finished(k, v).live /\ Finished(k, v).token = receipt[k].token
  BY <1>1 DEF Finished, Receipt
<1>6. receipt[k].status = "claimed" /\ receipt[k].token = t /\ Current(e)
  BY DEF Finishes, CanFinish
<1> QED
  BY <1>1, <1>3, <1>4, <1>5, <1>6

-----------------------------------------------------------------------------
(* The moves of one invocation.                                            *)

JobRun == {"prepare", "provider"}
JobPc == JobRun \cup {"finalize"}
HoldPc == {"attempt", "handler"} \cup SandboxPc

\* Only a sandbox tool enters the sandbox.
Sandboxed ==
    \A e \in Epoch, c \in Call : run[e][c].pc \in SandboxPc => KeyOf[c] \in SandboxTool

JobKey(c) == SandboxKeyOf[KeyOf[c]]

\* What the invocation c of e, which becomes x, does to the receipts: nothing
\* while it holds no claim, nothing while it keeps what it holds, a claim, the
\* end of a claim, or a claim whose holder is cancelled.
Rests(e, c, x) == UNCHANGED receipt /\ x.pc \in {"claim", "contended", "returned"}
Keeps(e, c, x) ==
    /\ UNCHANGED receipt
    /\ x.token = run[e][c].token /\ x.job = run[e][c].job
    /\ run[e][c].pc \in HoldPc /\ x.pc \in HoldPc \cup {"record"}
    /\ x.pc \in SandboxPc => KeyOf[c] \in SandboxTool
    /\ x.pc = "handler" => KeyOf[c] \notin SandboxTool
    /\ x.pc \in JobPc => run[e][c].pc \in JobRun
    /\ x.pc # "prepare"
TakesTool(e, c, x) ==
    /\ Claims(KeyOf[c], e)
    /\ run[e][c].pc = "claim" /\ x.pc = "attempt" /\ x.token = receipt[KeyOf[c]].token + 1
TakesJob(e, c, x) ==
    /\ Claims(JobKey(c), e)
    /\ run[e][c].pc = "claim_job" /\ x.pc = "prepare"
    /\ x.token = run[e][c].token /\ x.job = receipt[JobKey(c)].token + 1
Records(e, c, x) ==
    /\ Finishes(KeyOf[c], e, run[e][c].token, run[e][c].outcome)
    /\ run[e][c].pc = "record" /\ x.pc = "returned"
Finalizes(e, c, x) ==
    /\ Finishes(JobKey(c), e, run[e][c].job, run[e][c].outcome)
    /\ run[e][c].pc = "finalize" /\ x.pc = "record" /\ x.token = run[e][c].token
LosesTool(e, c, x) ==
    Claims(KeyOf[c], e) /\ run[e][c].pc = "claim" /\ x.pc = "returned"
LosesJob(e, c, x) ==
    /\ Claims(JobKey(c), e)
    /\ run[e][c].pc = "claim_job" /\ x.pc = "record" /\ x.token = run[e][c].token

ReceiptMove(e, c, x) ==
    \/ Rests(e, c, x) \/ Keeps(e, c, x) \/ TakesTool(e, c, x) \/ TakesJob(e, c, x)
    \/ Records(e, c, x) \/ Finalizes(e, c, x) \/ LosesTool(e, c, x) \/ LosesJob(e, c, x)

\* What it does to the world outside.
EffectMove(e, c, x) ==
    /\ \/ UNCHANGED begun /\ x.pc # "handler"
       \/ /\ run[e][c].pc = "attempt" /\ x.pc = "handler" /\ KeyOf[c] \notin SandboxTool
          /\ begun' = begun \cup {KeyOf[c]}
    /\ \/ UNCHANGED jobs /\ x.pc # "provider"
       \/ /\ run[e][c].pc = "prepare" /\ x.pc = "provider" /\ Current(e)
          /\ jobs' = [jobs EXCEPT ![JobKey(c)] = @ + 1]
    /\ x.pc = "claim_job" => Current(e) /\ receipt[JobKey(c)].status = "none"
    /\ run[e][c].pc = "idle" => Current(e) /\ inflight \in DOMAIN Plan /\ c \in Plan[inflight]

\* What the outcome it carries rests on.
OutcomeMove(e, c, x) ==
    x.outcome = "succeeded" =>
       /\ x.pc = "finalize" => run[e][c].pc = "provider"
       /\ x.pc = "record" => \/ run[e][c].pc = "handler"
                             \/ KeyOf[c] \in SandboxTool /\ receipt'[JobKey(c)].status = "succeeded"
       /\ x.pc = "returned" => receipt'[KeyOf[c]].status = "succeeded"

Move(e, c, x) ==
    /\ e \in alive
    /\ Becomes(e, c, x) /\ x.pc # "idle"
    /\ ReceiptMove(e, c, x) /\ EffectMove(e, c, x) /\ OutcomeMove(e, c, x)
    /\ UNCHANGED drive
    /\ surprises' \in 0 .. MaxSurprises

Moves(e, c) == \E x \in Invocation : Move(e, c, x)

LEMMA GoesTo ==
    ASSUME TypeOK, NEW e \in Epoch, NEW c \in Call, NEW p \in Pc, To(e, c, p)
    PROVE  \E x \in Invocation :
              /\ Becomes(e, c, x) /\ x.pc = p
              /\ x.token = run[e][c].token /\ x.job = run[e][c].job
              /\ x.outcome = run[e][c].outcome
<1>1. run[e][c] \in Invocation /\ [run[e][c] EXCEPT !.pc = p] \in Invocation
  BY RecordTypes
<1> QED
  BY <1>1 DEF To, Invocation

LEMMA GoesToRecord ==
    ASSUME TypeOK, NEW e \in Epoch, NEW c \in Call, NEW v \in {"succeeded", "failed"},
           ToRecord(e, c, v)
    PROVE  \E x \in Invocation :
              /\ Becomes(e, c, x) /\ x.pc = "record" /\ x.outcome = v
              /\ x.token = run[e][c].token /\ x.job = run[e][c].job
<1>1. run[e][c] \in Invocation /\ [run[e][c] EXCEPT !.pc = "record", !.outcome = v] \in Invocation
  BY RecordTypes DEF Pc
<1> QED
  BY <1>1 DEF ToRecord, Invocation

LEMMA GoesToFinalize ==
    ASSUME TypeOK, NEW e \in Epoch, NEW c \in Call, NEW v \in {"succeeded", "failed"},
           ToFinalize(e, c, v)
    PROVE  \E x \in Invocation :
              /\ Becomes(e, c, x) /\ x.pc = "finalize" /\ x.outcome = v
              /\ x.token = run[e][c].token /\ x.job = run[e][c].job
<1>1. run[e][c] \in Invocation /\ [run[e][c] EXCEPT !.pc = "finalize", !.outcome = v] \in Invocation
  BY RecordTypes DEF Pc, SandboxPc
<1> QED
  BY <1>1 DEF ToFinalize, Invocation

LEMMA Answers ==
    ASSUME TypeOK, NEW e \in Epoch, NEW c \in Call, NEW v \in {"succeeded", "failed"},
           Answer(e, c, v)
    PROVE  \E x \in Invocation : Becomes(e, c, x) /\ x.pc = "returned" /\ x.outcome = v
<1>1. Idle \in Invocation /\ [Idle EXCEPT !.pc = "returned", !.outcome = v] \in Invocation
  BY RecordTypes, IdleType DEF Pc
<1> QED
  BY <1>1 DEF Answer, Invocation

\* An answer of a failure, with every receipt as it was.
LEMMA FailsQuietly ==
    ASSUME TypeOK, NEW e \in Epoch, NEW c \in Call, e \in alive, run[e][c].pc # "idle",
           Answer(e, c, "failed"), UNCHANGED <<drive, receipt, effects>>,
           surprises' \in 0 .. MaxSurprises
    PROVE  Moves(e, c)
<1>1. PICK x \in Invocation : Becomes(e, c, x) /\ x.pc = "returned" /\ x.outcome = "failed"
  BY Answers
<1>2. ReceiptMove(e, c, x)
  BY <1>1 DEF ReceiptMove, Rests
<1>3. EffectMove(e, c, x) /\ OutcomeMove(e, c, x)
  BY <1>1 DEF EffectMove, OutcomeMove, effects
<1> QED
  BY <1>1, <1>2, <1>3 DEF Moves, Move

\* A holder goes to record or to finalize, with every receipt as it was.
LEMMA RecordsLater ==
    ASSUME TypeOK, NEW e \in Epoch, NEW c \in Call, e \in alive, run[e][c].pc \in HoldPc,
           NEW v \in {"succeeded", "failed"}, ToRecord(e, c, v),
           v = "succeeded" => \/ run[e][c].pc = "handler"
                              \/ /\ KeyOf[c] \in SandboxTool
                                 /\ receipt[JobKey(c)].status = "succeeded",
           UNCHANGED <<drive, receipt, effects>>, surprises' \in 0 .. MaxSurprises
    PROVE  Moves(e, c)
<1>1. PICK x \in Invocation :
              /\ Becomes(e, c, x) /\ x.pc = "record" /\ x.outcome = v
              /\ x.token = run[e][c].token /\ x.job = run[e][c].job
  BY GoesToRecord
<1>2. Keeps(e, c, x)
  BY <1>1 DEF Keeps, SandboxPc, JobPc, JobRun
<1>3. EffectMove(e, c, x)
  BY <1>1 DEF EffectMove, effects, HoldPc, SandboxPc
<1>4. OutcomeMove(e, c, x)
  BY <1>1 DEF OutcomeMove
<1> QED
  BY <1>1, <1>2, <1>3, <1>4 DEF Moves, Move, ReceiptMove

LEMMA FinalizesLater ==
    ASSUME TypeOK, Sandboxed, NEW e \in Epoch, NEW c \in Call, e \in alive,
           run[e][c].pc \in JobRun,
           NEW v \in {"succeeded", "failed"}, ToFinalize(e, c, v),
           v = "succeeded" => run[e][c].pc = "provider",
           UNCHANGED <<drive, receipt, effects>>, surprises' \in 0 .. MaxSurprises
    PROVE  Moves(e, c)
<1>1. PICK x \in Invocation :
              /\ Becomes(e, c, x) /\ x.pc = "finalize" /\ x.outcome = v
              /\ x.token = run[e][c].token /\ x.job = run[e][c].job
  BY GoesToFinalize
<1>2. Keeps(e, c, x)
  BY <1>1 DEF Keeps, SandboxPc, JobPc, JobRun, HoldPc, Sandboxed
<1>3. EffectMove(e, c, x) /\ OutcomeMove(e, c, x)
  BY <1>1 DEF EffectMove, OutcomeMove, effects, JobRun
<1> QED
  BY <1>1, <1>2, <1>3 DEF Moves, Move, ReceiptMove

-----------------------------------------------------------------------------
(* Each action moves its invocation.                                       *)

LEMMA SurprisesTyped ==
    ASSUME TypeOK, UNCHANGED surprises \/ Surprise PROVE surprises' \in 0 .. MaxSurprises
  BY PlanAssumption DEF TypeOK, Surprise

LEMMA LoadTerminalMoves ==
    ASSUME TypeOK, NEW e \in Epoch, NEW c \in Call, LoadTerminal(e, c) PROVE Moves(e, c)
<1>1. /\ e \in alive /\ run[e][c].pc = "idle"
      /\ Current(e) /\ inflight \in DOMAIN Plan /\ c \in Plan[inflight]
      /\ UNCHANGED <<drive, receipt, begun, jobs, surprises>>
  BY DEF LoadTerminal, At, effects
<1>2. surprises' \in 0 .. MaxSurprises
  BY <1>1, SurprisesTyped
<1>3. CASE Decided(KeyOf[c])
  <2>1. receipt[KeyOf[c]].status \in {"succeeded", "failed"} /\ Answer(e, c, receipt[KeyOf[c]].status)
    BY <1>3 DEF LoadTerminal, Decided
  <2>2. PICK x \in Invocation :
           Becomes(e, c, x) /\ x.pc = "returned" /\ x.outcome = receipt[KeyOf[c]].status
    BY <2>1, Answers
  <2> QED
    BY <1>1, <1>2, <2>2 DEF Moves, Move, ReceiptMove, Rests, EffectMove, OutcomeMove
<1>4. CASE ~Decided(KeyOf[c])
  <2>1. To(e, c, "claim")
    BY <1>4 DEF LoadTerminal
  <2>2. PICK x \in Invocation : Becomes(e, c, x) /\ x.pc = "claim"
    BY <2>1, GoesTo DEF Pc
  <2> QED
    BY <1>1, <1>2, <2>2 DEF Moves, Move, ReceiptMove, Rests, EffectMove, OutcomeMove
<1> QED
  BY <1>3, <1>4

LEMMA ClaimStartedMoves ==
    ASSUME TypeOK, NEW e \in Epoch, NEW c \in Call, ClaimStarted(e, c) PROVE Moves(e, c)
<1>1. e \in alive /\ run[e][c].pc = "claim" /\ UNCHANGED <<drive, begun, jobs, surprises>>
  BY DEF ClaimStarted, At, effects
<1>2. surprises' \in 0 .. MaxSurprises
  BY <1>1, SurprisesTyped
<1>3. KeyOf[c] \in Key
  BY KeyFacts
<1>4. CASE Claims(KeyOf[c], e)
           /\ Becomes(e, c, [run[e][c] EXCEPT !.pc = "attempt", !.token = receipt[KeyOf[c]].token + 1])
  <2> DEFINE x == [run[e][c] EXCEPT !.pc = "attempt", !.token = receipt[KeyOf[c]].token + 1]
  <2>1. receipt[KeyOf[c]].token + 1 \in Nat
    BY <1>3, ReceiptTypes DEF Receipt
  <2>2. x \in Invocation /\ run[e][c] \in Invocation
    BY <2>1, RecordTypes DEF Pc
  <2>3. x.pc = "attempt" /\ x.token = receipt[KeyOf[c]].token + 1
    BY <2>2 DEF Invocation
  <2>4. Becomes(e, c, x)
    BY <1>4
  <2> HIDE DEF x
  <2>5. ReceiptMove(e, c, x)
    BY <1>1, <1>4, <2>3 DEF ReceiptMove, TakesTool
  <2> QED
    BY <1>1, <1>2, <2>2, <2>3, <2>4, <2>5 DEF Moves, Move, EffectMove, OutcomeMove
<1>5. CASE UNCHANGED receipt /\ To(e, c, "contended")
  <2>1. PICK x \in Invocation : Becomes(e, c, x) /\ x.pc = "contended"
    BY <1>5, GoesTo DEF Pc
  <2> QED
    BY <1>1, <1>2, <1>5, <2>1 DEF Moves, Move, ReceiptMove, Rests, EffectMove, OutcomeMove
<1>6. CASE UNCHANGED receipt /\ Answer(e, c, "failed")
  BY <1>1, <1>2, <1>6, FailsQuietly DEF effects
<1> QED
  BY <1>4, <1>5, <1>6 DEF ClaimStarted, Claims

LEMMA LoadContendedMoves ==
    ASSUME TypeOK, NEW e \in Epoch, NEW c \in Call, LoadContended(e, c) PROVE Moves(e, c)
<1>1. /\ e \in alive /\ run[e][c].pc = "contended"
      /\ UNCHANGED <<drive, receipt, begun, jobs, surprises>>
  BY DEF LoadContended, At, effects
<1>2. surprises' \in 0 .. MaxSurprises
  BY <1>1, SurprisesTyped
<1>3. Known(KeyOf[c]) \in {"succeeded", "failed"} /\ Answer(e, c, Known(KeyOf[c]))
  BY KeyFacts, ReceiptTypes DEF LoadContended
<1>4. PICK x \in Invocation : Becomes(e, c, x) /\ x.pc = "returned" /\ x.outcome = Known(KeyOf[c])
  BY <1>3, Answers
<1>5. x.outcome = "succeeded" => receipt'[KeyOf[c]].status = "succeeded"
  BY <1>1, <1>4 DEF Known, Decided
<1> QED
  BY <1>1, <1>2, <1>4, <1>5 DEF Moves, Move, ReceiptMove, Rests, EffectMove, OutcomeMove

LEMMA PreflightMoves ==
    ASSUME TypeOK, NEW e \in Epoch, NEW c \in Call, Preflight(e, c) PROVE Moves(e, c)
<1>1. /\ e \in alive /\ run[e][c].pc \in HoldPc /\ ToRecord(e, c, "failed")
      /\ UNCHANGED <<drive, receipt, effects>> /\ surprises' \in 0 .. MaxSurprises
  BY SurprisesTyped DEF Preflight, At, HoldPc
<1> QED
  BY <1>1, RecordsLater

LEMMA StartAttemptMoves ==
    ASSUME TypeOK, NEW e \in Epoch, NEW c \in Call, StartAttempt(e, c) PROVE Moves(e, c)
<1>1. e \in alive /\ run[e][c].pc = "attempt" /\ UNCHANGED <<drive, receipt, jobs, surprises>>
  BY DEF StartAttempt, At
<1>2. surprises' \in 0 .. MaxSurprises
  BY <1>1, SurprisesTyped
<1>3. CASE Answer(e, c, "failed") /\ UNCHANGED begun
  BY <1>1, <1>2, <1>3, FailsQuietly DEF effects
<1>4. CASE KeyOf[c] \in SandboxTool /\ To(e, c, "inspect") /\ UNCHANGED begun
  <2>1. PICK x \in Invocation :
           /\ Becomes(e, c, x) /\ x.pc = "inspect"
           /\ x.token = run[e][c].token /\ x.job = run[e][c].job
    BY <1>4, GoesTo DEF Pc, SandboxPc
  <2>2. Keeps(e, c, x)
    BY <1>1, <1>4, <2>1 DEF Keeps, HoldPc, SandboxPc, JobPc, JobRun
  <2> QED
    BY <1>1, <1>2, <1>4, <2>1, <2>2 DEF Moves, Move, ReceiptMove, EffectMove, OutcomeMove
<1>5. CASE KeyOf[c] \notin SandboxTool /\ To(e, c, "handler") /\ begun' = begun \cup {KeyOf[c]}
  <2>1. PICK x \in Invocation :
           /\ Becomes(e, c, x) /\ x.pc = "handler"
           /\ x.token = run[e][c].token /\ x.job = run[e][c].job
    BY <1>5, GoesTo DEF Pc
  <2>2. Keeps(e, c, x)
    BY <1>1, <1>5, <2>1 DEF Keeps, HoldPc, SandboxPc, JobPc, JobRun
  <2> QED
    BY <1>1, <1>2, <1>5, <2>1, <2>2 DEF Moves, Move, ReceiptMove, EffectMove, OutcomeMove
<1> QED
  BY <1>3, <1>4, <1>5 DEF StartAttempt

LEMMA HandlerEndsMoves ==
    ASSUME TypeOK, NEW e \in Epoch, NEW c \in Call, HandlerEnds(e, c) PROVE Moves(e, c)
<1>1. /\ e \in alive /\ run[e][c].pc = "handler" /\ run[e][c].pc \in HoldPc
      /\ UNCHANGED <<drive, receipt, effects>> /\ surprises' \in 0 .. MaxSurprises
  BY SurprisesTyped DEF HandlerEnds, At, HoldPc
<1>2. ASSUME NEW v \in {"succeeded", "failed"}, ToRecord(e, c, v) PROVE Moves(e, c)
  BY <1>1, <1>2, RecordsLater
<1>3. CASE Becomes(e, c, [run[e][c] EXCEPT !.pc = "attempt", !.attempt = 2])
  <2> DEFINE x == [run[e][c] EXCEPT !.pc = "attempt", !.attempt = 2]
  <2>1. x \in Invocation /\ run[e][c] \in Invocation
    BY RecordTypes DEF Pc
  <2>2. x.pc = "attempt" /\ x.token = run[e][c].token /\ x.job = run[e][c].job
    BY <2>1 DEF Invocation
  <2>3. Becomes(e, c, x)
    BY <1>3
  <2> HIDE DEF x
  <2>4. Keeps(e, c, x)
    BY <1>1, <2>2 DEF Keeps, HoldPc, SandboxPc, JobPc, JobRun
  <2> QED
    BY <1>1, <2>1, <2>2, <2>3, <2>4 DEF Moves, Move, ReceiptMove, EffectMove, OutcomeMove, effects
<1> QED
  BY <1>2, <1>3 DEF HandlerEnds

LEMMA RecordTerminalMoves ==
    ASSUME TypeOK, NEW e \in Epoch, NEW c \in Call, RecordTerminal(e, c) PROVE Moves(e, c)
<1>1. /\ e \in alive /\ run[e][c].pc = "record" /\ UNCHANGED <<drive, effects>>
      /\ surprises' \in 0 .. MaxSurprises
  BY SurprisesTyped DEF RecordTerminal, At
<1>2. CASE Answer(e, c, "failed") /\ UNCHANGED receipt
  BY <1>1, <1>2, FailsQuietly
<1>3. ASSUME Finishes(KeyOf[c], e, run[e][c].token, run[e][c].outcome),
             NEW v \in {run[e][c].outcome, "failed"}, Answer(e, c, v)
      PROVE  Moves(e, c)
  <2>1. run[e][c] \in Invocation
    BY RecordTypes
  <2>2. run[e][c].outcome \in {"succeeded", "failed"} /\ v \in {"succeeded", "failed"}
    BY <2>1 DEF Invocation
  <2>3. PICK x \in Invocation : Becomes(e, c, x) /\ x.pc = "returned" /\ x.outcome = v
    BY <1>3, <2>2, Answers
  <2>4. receipt'[KeyOf[c]].status = run[e][c].outcome
    BY <1>3, <2>2, FinishMoves, KeyFacts
  <2>5. ReceiptMove(e, c, x)
    BY <1>1, <1>3, <2>3 DEF ReceiptMove, Records
  <2> QED
    BY <1>1, <1>3, <2>3, <2>4, <2>5 DEF Moves, Move, EffectMove, OutcomeMove, effects
<1> QED
  BY <1>2, <1>3 DEF RecordTerminal, Finishes

LEMMA InspectMoves ==
    ASSUME TypeOK, Sandboxed, NEW e \in Epoch, NEW c \in Call, Inspect(e, c) PROVE Moves(e, c)
<1>1. /\ e \in alive /\ run[e][c].pc = "inspect" /\ run[e][c].pc \in HoldPc
      /\ UNCHANGED <<drive, receipt, effects>> /\ surprises' \in 0 .. MaxSurprises
  BY SurprisesTyped DEF Inspect, At, HoldPc, SandboxPc
<1>2. KeyOf[c] \in SandboxTool /\ JobKey(c) \in Key
  BY <1>1, KeyFacts DEF Sandboxed, SandboxPc, JobKey
<1>3. CASE Answer(e, c, "failed")
  BY <1>1, <1>3, FailsQuietly
<1>4. CASE Current(e) /\ Unclaimed(JobKey(c)) /\ To(e, c, "claim_job")
  <2>1. PICK x \in Invocation :
           /\ Becomes(e, c, x) /\ x.pc = "claim_job"
           /\ x.token = run[e][c].token /\ x.job = run[e][c].job
    BY <1>4, GoesTo DEF Pc, SandboxPc
  <2>2. Keeps(e, c, x)
    BY <1>1, <1>2, <2>1 DEF Keeps, HoldPc, SandboxPc, JobPc, JobRun
  <2>3. EffectMove(e, c, x) /\ OutcomeMove(e, c, x)
    BY <1>1, <1>4, <2>1 DEF EffectMove, OutcomeMove, Unclaimed, effects
  <2> QED
    BY <1>1, <2>1, <2>2, <2>3 DEF Moves, Move, ReceiptMove
<1>5. CASE ToRecord(e, c, Known(JobKey(c)))
  <2>1. Known(JobKey(c)) \in {"succeeded", "failed"}
    BY <1>2, ReceiptTypes
  <2>2. Known(JobKey(c)) = "succeeded" => receipt[JobKey(c)].status = "succeeded"
    BY DEF Known, Decided
  <2> QED
    BY <1>1, <1>2, <1>5, <2>1, <2>2, RecordsLater
<1> QED
  BY <1>3, <1>4, <1>5 DEF Inspect, JobKey

LEMMA ClaimJobMoves ==
    ASSUME TypeOK, Sandboxed, NEW e \in Epoch, NEW c \in Call, ClaimJob(e, c) PROVE Moves(e, c)
<1>1. /\ e \in alive /\ run[e][c].pc = "claim_job" /\ run[e][c].pc \in HoldPc
      /\ UNCHANGED <<drive, begun, jobs>> /\ surprises' \in 0 .. MaxSurprises
  BY SurprisesTyped DEF ClaimJob, At, HoldPc, SandboxPc, effects
<1>2. KeyOf[c] \in SandboxTool /\ JobKey(c) \in Key
  BY <1>1, KeyFacts DEF Sandboxed, SandboxPc, JobKey
<1>3. CASE Claims(JobKey(c), e)
           /\ Becomes(e, c, [run[e][c] EXCEPT !.pc = "prepare", !.job = receipt[JobKey(c)].token + 1])
  <2> DEFINE x == [run[e][c] EXCEPT !.pc = "prepare", !.job = receipt[JobKey(c)].token + 1]
  <2>1. receipt[JobKey(c)].token + 1 \in Nat
    BY <1>2, ReceiptTypes DEF Receipt
  <2>2. x \in Invocation /\ run[e][c] \in Invocation
    BY <2>1, RecordTypes DEF Pc, SandboxPc
  <2>3. x.pc = "prepare" /\ x.token = run[e][c].token /\ x.job = receipt[JobKey(c)].token + 1
    BY <2>2 DEF Invocation
  <2>4. Becomes(e, c, x)
    BY <1>3
  <2> HIDE DEF x
  <2>5. ReceiptMove(e, c, x)
    BY <1>1, <1>3, <2>3 DEF ReceiptMove, TakesJob
  <2> QED
    BY <1>1, <2>2, <2>3, <2>4, <2>5 DEF Moves, Move, EffectMove, OutcomeMove
<1>4. ASSUME UNCHANGED receipt, NEW v \in {"failed", Known(JobKey(c))}, ToRecord(e, c, v)
      PROVE  Moves(e, c)
  <2>1. v \in {"succeeded", "failed"}
    BY <1>2, <1>4, ReceiptTypes
  <2>2. v = "succeeded" => receipt[JobKey(c)].status = "succeeded"
    BY <1>4 DEF Known, Decided
  <2> QED
    BY <1>1, <1>2, <1>4, <2>1, <2>2, RecordsLater DEF effects
<1> QED
  BY <1>3, <1>4 DEF ClaimJob, JobKey, Claims

LEMMA StartJobMoves ==
    ASSUME TypeOK, Sandboxed, NEW e \in Epoch, NEW c \in Call, StartJob(e, c) PROVE Moves(e, c)
<1>1. /\ e \in alive /\ run[e][c].pc = "prepare" /\ run[e][c].pc \in JobRun
      /\ UNCHANGED <<drive, receipt, begun>> /\ surprises' \in 0 .. MaxSurprises
  BY SurprisesTyped DEF StartJob, At, JobRun
<1>2. CASE Current(e) /\ To(e, c, "provider") /\ jobs' = [jobs EXCEPT ![JobKey(c)] = @ + 1]
  <2>1. PICK x \in Invocation :
           /\ Becomes(e, c, x) /\ x.pc = "provider"
           /\ x.token = run[e][c].token /\ x.job = run[e][c].job
    BY <1>2, GoesTo DEF Pc, SandboxPc
  <2>2. Keeps(e, c, x)
    BY <1>1, <2>1 DEF Keeps, HoldPc, SandboxPc, JobPc, JobRun, Sandboxed
  <2>3. EffectMove(e, c, x) /\ OutcomeMove(e, c, x)
    BY <1>1, <1>2, <2>1 DEF EffectMove, OutcomeMove
  <2> QED
    BY <1>1, <2>1, <2>2, <2>3 DEF Moves, Move, ReceiptMove
<1>3. CASE Answer(e, c, "failed") /\ UNCHANGED jobs
  BY <1>1, <1>3, FailsQuietly DEF effects
<1>4. CASE ToFinalize(e, c, "failed") /\ UNCHANGED jobs
  BY <1>1, <1>4, FinalizesLater DEF effects
<1> QED
  BY <1>2, <1>3, <1>4 DEF StartJob, JobKey

LEMMA JobEndsMoves ==
    ASSUME TypeOK, Sandboxed, NEW e \in Epoch, NEW c \in Call, JobEnds(e, c) PROVE Moves(e, c)
<1>1. /\ e \in alive /\ run[e][c].pc = "provider" /\ run[e][c].pc \in JobRun
      /\ UNCHANGED <<drive, receipt, effects>> /\ surprises' \in 0 .. MaxSurprises
  BY SurprisesTyped DEF JobEnds, At, JobRun
<1>2. ASSUME NEW v \in {"succeeded", "failed"}, ToFinalize(e, c, v) PROVE Moves(e, c)
  BY <1>1, <1>2, FinalizesLater
<1>3. CASE Answer(e, c, "failed")
  BY <1>1, <1>3, FailsQuietly
<1> QED
  BY <1>2, <1>3 DEF JobEnds

LEMMA FinalizeMoves ==
    ASSUME TypeOK, Sandboxed, NEW e \in Epoch, NEW c \in Call, Finalize(e, c) PROVE Moves(e, c)
<1>1. /\ e \in alive /\ run[e][c].pc = "finalize" /\ run[e][c].pc \in HoldPc
      /\ UNCHANGED <<drive, effects>> /\ surprises' \in 0 .. MaxSurprises
  BY SurprisesTyped DEF Finalize, At, HoldPc, SandboxPc
<1>2. KeyOf[c] \in SandboxTool /\ JobKey(c) \in Key
  BY <1>1, KeyFacts DEF Sandboxed, SandboxPc, JobKey
<1>3. CASE UNCHANGED receipt /\ ToRecord(e, c, "failed")
  BY <1>1, <1>3, RecordsLater
<1>4. CASE Finishes(JobKey(c), e, run[e][c].job, run[e][c].outcome)
           /\ (To(e, c, "record") \/ ToRecord(e, c, "failed"))
  <2>1. run[e][c] \in Invocation /\ run[e][c].outcome \in {"succeeded", "failed"}
    BY RecordTypes DEF Invocation
  <2>2. PICK x \in Invocation :
           /\ Becomes(e, c, x) /\ x.pc = "record" /\ x.token = run[e][c].token
           /\ x.outcome \in {run[e][c].outcome, "failed"}
    BY <1>4, GoesTo, GoesToRecord DEF Pc
  <2>3. receipt'[JobKey(c)].status = run[e][c].outcome
    BY <1>2, <1>4, <2>1, FinishMoves
  <2>4. ReceiptMove(e, c, x)
    BY <1>1, <1>4, <2>2 DEF ReceiptMove, Finalizes
  <2>5. EffectMove(e, c, x) /\ OutcomeMove(e, c, x)
    BY <1>1, <1>2, <2>2, <2>3 DEF EffectMove, OutcomeMove, effects
  <2> QED
    BY <1>1, <2>2, <2>4, <2>5 DEF Moves, Move
<1> QED
  BY <1>3, <1>4 DEF Finalize, JobKey, Finishes

\* A cancelled claim that was written all the same.
LEMMA ClaimLost ==
    ASSUME TypeOK, NEW e \in Epoch, NEW c \in Call, e \in alive,
           \/ run[e][c].pc = "claim" /\ Claims(KeyOf[c], e) /\ Answer(e, c, "failed")
           \/ run[e][c].pc = "claim_job" /\ Claims(JobKey(c), e) /\ ToRecord(e, c, "failed"),
           UNCHANGED <<drive, effects>>, surprises' \in 0 .. MaxSurprises
    PROVE  Moves(e, c)
<1>1. CASE run[e][c].pc = "claim" /\ Claims(KeyOf[c], e) /\ Answer(e, c, "failed")
  <2>1. PICK x \in Invocation : Becomes(e, c, x) /\ x.pc = "returned" /\ x.outcome = "failed"
    BY <1>1, Answers
  <2> QED
    BY <1>1, <2>1 DEF Moves, Move, ReceiptMove, LosesTool, EffectMove, OutcomeMove, effects
<1>2. CASE run[e][c].pc = "claim_job" /\ Claims(JobKey(c), e) /\ ToRecord(e, c, "failed")
  <2>1. PICK x \in Invocation :
              /\ Becomes(e, c, x) /\ x.pc = "record" /\ x.outcome = "failed"
              /\ x.token = run[e][c].token
    BY <1>2, GoesToRecord
  <2> QED
    BY <1>2, <2>1 DEF Moves, Move, ReceiptMove, LosesJob, EffectMove, OutcomeMove, effects
<1> QED
  BY <1>1, <1>2

LEMMA InterruptMoves ==
    ASSUME TypeOK, Sandboxed, NEW e \in Epoch, NEW c \in Call, Interrupt(e, c) PROVE Moves(e, c)
<1>1. /\ e \in alive /\ UNCHANGED <<drive, effects>> /\ surprises' \in 0 .. MaxSurprises
  BY SurprisesTyped DEF Interrupt
<1>2. CASE run[e][c].pc \in {"contended", "claim"} /\ Answer(e, c, "failed") /\ UNCHANGED receipt
  BY <1>1, <1>2, FailsQuietly
<1>3. CASE run[e][c].pc \in HoldPc /\ ToRecord(e, c, "failed") /\ UNCHANGED receipt
  BY <1>1, <1>3, RecordsLater
<1>4. CASE run[e][c].pc = "claim" /\ Claims(KeyOf[c], e) /\ Answer(e, c, "failed")
  BY <1>1, <1>4, ClaimLost
<1>5. CASE run[e][c].pc = "claim_job" /\ Claims(JobKey(c), e) /\ ToRecord(e, c, "failed")
  BY <1>1, <1>5, ClaimLost
<1>6. CASE run[e][c].pc \in JobRun /\ ToFinalize(e, c, "failed") /\ UNCHANGED receipt
  BY <1>1, <1>6, FinalizesLater
<1> QED
  BY <1>2, <1>3, <1>4, <1>5, <1>6 DEF Interrupt, JobKey, Claims, JobRun, HoldPc, SandboxPc

LEMMA InvocationMoves ==
    ASSUME TypeOK, Sandboxed, NEW e \in Epoch, NEW c \in Call,
           InvocationStep(e, c) \/ Interrupt(e, c)
    PROVE  Moves(e, c)
  BY LoadTerminalMoves, ClaimStartedMoves, LoadContendedMoves, PreflightMoves,
     StartAttemptMoves, HandlerEndsMoves, RecordTerminalMoves, InspectMoves,
     ClaimJobMoves, StartJobMoves, JobEndsMoves, FinalizeMoves, InterruptMoves
  DEF InvocationStep

-----------------------------------------------------------------------------
(* The types are kept.                                                     *)

LEMMA MoveTypes ==
    ASSUME TypeOK, Sandboxed, NEW e \in Epoch, NEW c \in Call, NEW x \in Invocation, Move(e, c, x)
    PROVE  TypeOK' /\ Sandboxed'
<1>1. /\ run' \in [Epoch -> [Call -> Invocation]]
      /\ run'[e][c] = x
      /\ \A f \in Epoch, d \in Call : f # e \/ d # c => run'[f][d] = run[f][d]
  BY BecomesType DEF Move
<1>2. KeyOf[c] \in Key /\ KeyOf[c] \in ToolKey
  BY KeyFacts
<1>3. run[e][c].pc \in SandboxPc => JobKey(c) \in Key /\ JobKey(c) \in SandboxKey
  BY KeyFacts DEF Sandboxed, JobKey
<1>4. run[e][c] \in Invocation /\ run[e][c].outcome \in {"succeeded", "failed"}
  BY RecordTypes DEF Invocation
<1>5. /\ receipt' \in [Key -> Receipt]
      /\ \A k \in Key : receipt'[k].live => receipt'[k].status = "claimed"
  <2>1. CASE UNCHANGED receipt
    BY <2>1 DEF TypeOK, Receipt
  <2>2. CASE TakesTool(e, c, x) \/ LosesTool(e, c, x)
    BY <2>2, <1>2, ClaimMoves DEF TakesTool, LosesTool
  <2>3. CASE TakesJob(e, c, x) \/ LosesJob(e, c, x)
    BY <2>3, <1>3, ClaimMoves DEF TakesJob, LosesJob, SandboxPc
  <2>4. CASE Records(e, c, x)
    BY <2>4, <1>2, <1>4, FinishMoves DEF Records
  <2>5. CASE Finalizes(e, c, x)
    BY <2>5, <1>3, <1>4, FinishMoves DEF Finalizes, SandboxPc
  <2> QED
    BY <2>1, <2>2, <2>3, <2>4, <2>5 DEF Move, ReceiptMove, Rests, Keeps
<1>6. begun' \subseteq ToolKey
  BY <1>2 DEF Move, EffectMove, TypeOK
<1>7. jobs' \in [SandboxKey -> Nat]
  BY <1>3 DEF Move, EffectMove, TypeOK, SandboxPc
<1>8. Sandboxed'
  <2>1. x.pc \in SandboxPc => KeyOf[c] \in SandboxTool
    BY DEF Move, ReceiptMove, Rests, Keeps, TakesTool, TakesJob, Records, Finalizes,
           LosesTool, LosesJob, Sandboxed, SandboxPc
  <2> QED
    BY <1>1, <2>1 DEF Sandboxed
<1>9. \A f \in Epoch \ alive', d \in Call : run'[f][d] = Idle
  BY <1>1 DEF Move, drive, TypeOK
<1> QED
  BY <1>1, <1>5, <1>6, <1>7, <1>8, <1>9 DEF TypeOK, Receipt, Move, drive

LEMMA ExpireTypes ==
    ASSUME TypeOK, Sandboxed, NEW k \in Key, ClaimExpires(k)
    PROVE  /\ TypeOK' /\ Sandboxed'
           /\ UNCHANGED <<drive, effects, run>>
           /\ receipt'[k].status = receipt[k].status /\ receipt'[k].token = receipt[k].token
           /\ \A j \in Key \ {k} : receipt'[j] = receipt[j]
           /\ receipt[k].status = "claimed"
<1>1. receipt \in [Key -> Receipt] /\ receipt[k].live /\ receipt[k].status = "claimed"
  BY DEF TypeOK, Receipt, ClaimExpires
<1>2. receipt' = [receipt EXCEPT ![k].live = FALSE] /\ UNCHANGED <<drive, effects, run>>
  BY DEF ClaimExpires
<1>3. /\ receipt' \in [Key -> Receipt]
      /\ receipt'[k].status = receipt[k].status /\ receipt'[k].token = receipt[k].token
      /\ ~receipt'[k].live
      /\ \A j \in Key \ {k} : receipt'[j] = receipt[j]
  BY <1>1, <1>2 DEF Receipt
<1>4. surprises' \in 0 .. MaxSurprises
  BY SurprisesTyped DEF ClaimExpires
<1>5. \A j \in Key : receipt'[j].live => receipt'[j].status = "claimed"
  BY <1>3 DEF TypeOK
<1> QED
  BY <1>1, <1>2, <1>3, <1>4, <1>5 DEF TypeOK, Sandboxed, Receipt, drive, effects

\* A step of the slice around the calls forgets invocations, or leaves them.
SliceStep ==
    \/ \E e \in Epoch : Crash(e) \/ Leave(e) \/ Yield(e) \/ Report(e)
    \/ TakeLease \/ LoseLease

LEMMA Forgets ==
    ASSUME TypeOK, NEW e \in Epoch, run' = [run EXCEPT ![e] = [c \in Call |-> Idle]]
    PROVE  /\ run' \in [Epoch -> [Call -> Invocation]]
           /\ \A c \in Call : run'[e][c] = Idle
           /\ \A f \in Epoch, c \in Call : f # e => run'[f][c] = run[f][c]
  BY IdleType DEF TypeOK

LEMMA SliceTypes ==
    ASSUME TypeOK, Sandboxed, SliceStep
    PROVE  /\ TypeOK' /\ Sandboxed'
           /\ UNCHANGED <<receipt, effects>>
           /\ \A f \in Epoch, d \in Call :
                 /\ run'[f][d] = run[f][d] \/ run'[f][d] = Idle
                 /\ f = lease'.epoch /\ run'[f][d] # Idle
                    => lease.epoch = lease'.epoch /\ inflight = inflight'
<1>0. Idle.pc = "idle" /\ lease.epoch \in 0 .. MaxEpoch /\ MaxEpoch \in Nat
  BY PlanAssumption DEF Idle, TypeOK
<1>1. ASSUME NEW e \in Epoch, Crash(e) \/ Leave(e) \/ Yield(e)
      PROVE  /\ UNCHANGED <<inflight, reported, receipt, effects, surprises>>
             /\ alive' = alive \ {e} /\ run' = [run EXCEPT ![e] = [c \in Call |-> Idle]]
             /\ lease' = lease \/ lease' = [lease EXCEPT !.held = FALSE]
  BY <1>1 DEF Crash, Leave, Yield, Forget
<1>2. CASE \E e \in Epoch : Crash(e) \/ Leave(e) \/ Yield(e)
  <2>1. PICK e \in Epoch : Crash(e) \/ Leave(e) \/ Yield(e)
    BY <1>2
  <2>2. /\ run' \in [Epoch -> [Call -> Invocation]]
        /\ \A c \in Call : run'[e][c] = Idle
        /\ \A f \in Epoch, c \in Call : f # e => run'[f][c] = run[f][c]
    BY <1>1, <2>1, Forgets
  <2>3. lease' \in [epoch : 0 .. MaxEpoch, held : BOOLEAN] /\ lease'.epoch = lease.epoch
    BY <1>1, <2>1 DEF TypeOK
  <2>4. UNCHANGED <<inflight, reported, receipt, effects, surprises>> /\ alive' = alive \ {e}
    BY <1>1, <2>1
  <2>5. \A f \in Epoch \ alive', c \in Call : run'[f][c] = Idle
    BY <2>2, <2>4 DEF TypeOK
  <2>6. TypeOK'
    BY <2>2, <2>3, <2>4, <2>5 DEF TypeOK, effects
  <2> QED
    BY <1>0, <2>2, <2>3, <2>4, <2>6 DEF Sandboxed, SandboxPc
<1>3. CASE \E e \in Epoch : Report(e)
  <2>1. PICK e \in Epoch : Report(e)
    BY <1>3
  <2>2. /\ run' \in [Epoch -> [Call -> Invocation]]
        /\ \A c \in Call : run'[e][c] = Idle
        /\ \A f \in Epoch, c \in Call : f # e => run'[f][c] = run[f][c]
    BY <2>1, Forgets DEF Report
  <2>3. /\ UNCHANGED <<lease, alive, receipt, effects, surprises>>
        /\ inflight' = inflight + 1 /\ inflight \in DOMAIN Plan /\ lease.epoch = e
    BY <2>1 DEF Report, Current
  <2>4. inflight' \in 1 .. (Len(Plan) + 1)
    BY <2>3, PlanAssumption DEF TypeOK
  <2>5. reported' \in [Call -> {"open", "completed", "failed"}]
    <3>1. reported' = [c \in Call |->
                       IF c \notin Plan[inflight] THEN reported[c]
                       ELSE IF run[e][c].outcome = "succeeded" THEN "completed" ELSE "failed"]
      BY <2>1 DEF Report
    <3> QED
      BY <3>1 DEF TypeOK
  <2>6. \A f \in Epoch \ alive', c \in Call : run'[f][c] = Idle
    BY <2>2, <2>3 DEF TypeOK
  <2>7. TypeOK'
    BY <2>2, <2>3, <2>4, <2>5, <2>6 DEF TypeOK, effects
  <2> QED
    BY <1>0, <2>2, <2>3, <2>7 DEF Sandboxed, SandboxPc
<1>4. CASE TakeLease
  <2>1. /\ lease' = [lease EXCEPT !.epoch = @ + 1, !.held = TRUE] /\ lease.epoch < MaxEpoch
        /\ alive' = alive \cup {lease.epoch + 1}
        /\ UNCHANGED <<inflight, reported, receipt, effects, run, surprises>>
    BY <1>4 DEF TakeLease
  <2>2. /\ lease' \in [epoch : 0 .. MaxEpoch, held : BOOLEAN]
        /\ lease'.epoch = lease.epoch + 1 /\ lease'.epoch \notin alive
    <3>1. lease \in [epoch : 0 .. MaxEpoch, held : BOOLEAN] /\ alive \subseteq 1 .. lease.epoch
      BY DEF TypeOK
    <3>2. lease' = [epoch |-> lease.epoch + 1, held |-> TRUE]
      BY <2>1, <3>1
    <3>3. lease.epoch + 1 \in 0 .. MaxEpoch /\ lease.epoch + 1 \notin alive
      BY <1>0, <2>1, <3>1
    <3> QED
      BY <3>2, <3>3
  <2>3. alive' \subseteq 1 .. lease'.epoch
    BY <1>0, <2>1, <2>2 DEF TypeOK
  <2>4. \A c \in Call : lease'.epoch \in Epoch => run[lease'.epoch][c] = Idle
    BY <2>2 DEF TypeOK
  <2>5. TypeOK'
    BY <2>1, <2>2, <2>3 DEF TypeOK, effects
  <2> QED
    BY <2>1, <2>4, <2>5 DEF Sandboxed
<1>5. CASE LoseLease
  <2>1. /\ lease' = [lease EXCEPT !.held = FALSE]
        /\ UNCHANGED <<alive, inflight, reported, receipt, effects, run, surprises>>
    BY <1>5 DEF LoseLease
  <2>2. lease' \in [epoch : 0 .. MaxEpoch, held : BOOLEAN] /\ lease'.epoch = lease.epoch
    BY <2>1 DEF TypeOK
  <2>3. TypeOK'
    BY <2>1, <2>2 DEF TypeOK, effects
  <2> QED
    BY <2>1, <2>2, <2>3 DEF Sandboxed
<1> QED
  BY <1>2, <1>3, <1>4, <1>5 DEF SliceStep

LEMMA InitSandboxed == Init => Sandboxed
  BY DEF Init, Sandboxed, Idle, SandboxPc

LEMMA NextCases ==
    ASSUME Next
    PROVE  \/ \E e \in Epoch, c \in Call : InvocationStep(e, c) \/ Interrupt(e, c)
           \/ \E k \in Key : ClaimExpires(k)
           \/ SliceStep
  BY DEF Next, SliceStep

LEMMA StepTypes ==
    ASSUME TypeOK, Sandboxed, [Next]_vars PROVE TypeOK' /\ Sandboxed'
<1>1. CASE \E e \in Epoch, c \in Call : InvocationStep(e, c) \/ Interrupt(e, c)
  BY <1>1, InvocationMoves, MoveTypes DEF Moves
<1>2. CASE \E k \in Key : ClaimExpires(k)
  BY <1>2, ExpireTypes
<1>3. CASE SliceStep
  BY <1>3, SliceTypes
<1>4. CASE UNCHANGED vars
  BY <1>4 DEF vars, drive, effects, TypeOK, Sandboxed
<1> QED
  BY <1>1, <1>2, <1>3, <1>4, NextCases

\* Every row and every invocation keeps its type, and only sandbox tools enter
\* the sandbox.
THEOREM TypeCorrect == Spec => []TypeOK
<1>1. Init => TypeOK /\ Sandboxed
  BY InitType, InitSandboxed
<1>2. TypeOK /\ Sandboxed /\ [Next]_vars => (TypeOK /\ Sandboxed)'
  BY StepTypes
<1> QED
  BY <1>1, <1>2, PTL DEF Spec

-----------------------------------------------------------------------------
(* Who holds a claim.                                                      *)

\* What an invocation knows of its claims: they are the latest and unexpired
\* while it works, and no later than the latest while it records the end.
Holds(e, c) ==
    LET r == run[e][c]
        k == KeyOf[c]
    IN  /\ r.pc \in HoldPc =>
              receipt[k].status = "claimed" /\ receipt[k].token = r.token /\ receipt[k].live
        /\ r.pc \in HoldPc \cup {"record"} => r.token <= receipt[k].token
        /\ r.pc \in JobRun =>
              /\ receipt[JobKey(c)].status = "claimed" /\ receipt[JobKey(c)].live
              /\ receipt[JobKey(c)].token = r.job
        /\ r.pc \in JobPc => r.job <= receipt[JobKey(c)].token
        /\ r.pc = "handler" => k \notin SandboxTool

\* No two invocations have the same claim.
Apart(e, c, f, d) ==
    LET r == run[e][c]
        q == run[f][d]
    IN  /\ /\ r.pc \in HoldPc \cup {"record"} /\ q.pc \in HoldPc \cup {"record"}
           /\ KeyOf[c] = KeyOf[d]
           => r.token # q.token
        /\ /\ r.pc \in JobPc /\ q.pc \in JobPc /\ JobKey(c) = JobKey(d)
           => r.job # q.job

ClaimsInv ==
    /\ \A e \in Epoch, c \in Call : Holds(e, c)
    /\ \A e, f \in Epoch, c, d \in Call : e # f \/ c # d => Apart(e, c, f, d)

LEMMA InitClaims == Init => ClaimsInv
  BY DEF Init, ClaimsInv, Holds, Apart, Idle, HoldPc, JobRun, JobPc, SandboxPc

\* The fields an invocation compares with receipts are numbers, and its keys
\* are keys.
LEMMA HolderTypes ==
    ASSUME TypeOK, Sandboxed, NEW e \in Epoch, NEW c \in Call
    PROVE  /\ run[e][c].token \in Nat /\ run[e][c].job \in Nat
           /\ KeyOf[c] \in Key /\ KeyOf[c] \notin SandboxKey
           /\ run[e][c].pc \in JobPc \cup {"claim_job"} =>
                 JobKey(c) \in Key /\ JobKey(c) \in SandboxKey /\ KeyOf[c] \in SandboxTool
           /\ \A k \in Key : receipt[k].token \in Nat
  BY RecordTypes, KeyFacts, ReceiptTypes
  DEF Invocation, Sandboxed, JobKey, JobPc, JobRun, SandboxPc, Receipt

LEMMA HoldsThroughClaim ==
    ASSUME TypeOK, Sandboxed, NEW k \in Key, NEW g, Claims(k, g),
           NEW f \in Epoch, NEW d \in Call, Holds(f, d), run'[f][d] = run[f][d]
    PROVE  Holds(f, d)'
<1>1. /\ receipt'[k].token = receipt[k].token + 1
      /\ \A j \in Key \ {k} : receipt'[j] = receipt[j]
      /\ ~receipt[k].live
  BY ClaimMoves
<1>2. /\ run[f][d].token \in Nat /\ run[f][d].job \in Nat
      /\ KeyOf[d] \in Key /\ \A j \in Key : receipt[j].token \in Nat
      /\ run[f][d].pc \in JobPc => JobKey(d) \in Key
  BY HolderTypes
<1>3. JobRun \subseteq JobPc
  BY DEF JobPc
<1> QED
  BY <1>1, <1>2, <1>3 DEF Holds, JobKey

LEMMA HoldsThroughFinish ==
    ASSUME TypeOK, Sandboxed, NEW k \in Key, NEW g, NEW t, NEW v \in {"succeeded", "failed"},
           Finishes(k, g, t, v),
           NEW f \in Epoch, NEW d \in Call, Holds(f, d), run'[f][d] = run[f][d],
           ~(KeyOf[d] = k /\ run[f][d].pc \in HoldPc /\ run[f][d].token = t),
           ~(JobKey(d) = k /\ run[f][d].pc \in JobRun /\ run[f][d].job = t)
    PROVE  Holds(f, d)'
<1>1. /\ receipt'[k].token = receipt[k].token /\ receipt[k].token = t
      /\ \A j \in Key \ {k} : receipt'[j] = receipt[j]
  BY FinishMoves
<1>2. /\ KeyOf[d] \in Key
      /\ run[f][d].pc \in JobPc => JobKey(d) \in Key
  BY HolderTypes
<1>3. JobRun \subseteq JobPc
  BY DEF JobPc
<1> QED
  BY <1>1, <1>2, <1>3 DEF Holds, JobKey

LEMMA MoveClaims ==
    ASSUME TypeOK, Sandboxed, ClaimsInv,
           NEW e \in Epoch, NEW c \in Call, NEW x \in Invocation, Move(e, c, x)
    PROVE  ClaimsInv'
<1>1. /\ run'[e][c] = x
      /\ \A f \in Epoch, d \in Call : f # e \/ d # c => run'[f][d] = run[f][d]
  BY BecomesType DEF Move
<1>2. /\ \A f \in Epoch, d \in Call : Holds(f, d)
      /\ \A f, g \in Epoch, d, b \in Call : f # g \/ d # b => Apart(f, d, g, b)
  BY DEF ClaimsInv
<1>3. /\ KeyOf[c] \in Key /\ KeyOf[c] \notin SandboxKey
      /\ run[e][c].token \in Nat /\ run[e][c].job \in Nat
      /\ run[e][c].pc \in JobPc \cup {"claim_job"} =>
            JobKey(c) \in Key /\ JobKey(c) \in SandboxKey /\ KeyOf[c] \in SandboxTool
      /\ \A k \in Key : receipt[k].token \in Nat
      /\ run[e][c].outcome \in {"succeeded", "failed"}
  BY HolderTypes, RecordTypes DEF Invocation
<1>4. SUFFICES
        /\ Holds(e, c)'
        /\ \A f \in Epoch, d \in Call : f # e \/ d # c =>
              Holds(f, d)' /\ Apart(e, c, f, d)' /\ Apart(f, d, e, c)'
  <2>1. \A f, g \in Epoch, d, b \in Call :
           /\ f # g \/ d # b
           /\ f # e \/ d # c
           /\ g # e \/ b # c
           => Apart(f, d, g, b)'
    BY <1>1, <1>2 DEF Apart, JobKey
  <2> QED
    BY <1>4, <2>1 DEF ClaimsInv
<1> USE DEF JobKey
<1>5. CASE Rests(e, c, x)
  BY <1>1, <1>2, <1>5 DEF Rests, Holds, Apart, HoldPc, JobRun, JobPc, SandboxPc
<1>6. CASE Keeps(e, c, x)
  <2>1. Holds(e, c)'
    BY <1>1, <1>2, <1>6 DEF Keeps, Holds, HoldPc, JobRun, JobPc, SandboxPc
  <2>2. ASSUME NEW f \in Epoch, NEW d \in Call, f # e \/ d # c
        PROVE  Holds(f, d)' /\ Apart(e, c, f, d)' /\ Apart(f, d, e, c)'
    <3>1. Holds(f, d)'
      BY <1>1, <1>2, <1>6, <2>2 DEF Keeps, Holds
    <3>2. Apart(e, c, f, d) /\ Apart(f, d, e, c) /\ run'[f][d] = run[f][d]
      BY <1>1, <1>2, <2>2
    <3>3. Apart(e, c, f, d)' /\ Apart(f, d, e, c)'
      BY <1>1, <1>6, <3>2 DEF Keeps, Apart, JobPc
    <3> QED
      BY <3>1, <3>3
  <2> QED
    BY <2>1, <2>2
<1>7. CASE TakesTool(e, c, x)
  <2>1. /\ Claims(KeyOf[c], e) /\ x.pc = "attempt" /\ x.token = receipt[KeyOf[c]].token + 1
    BY <1>7 DEF TakesTool
  <2>2. /\ receipt'[KeyOf[c]].status = "claimed" /\ receipt'[KeyOf[c]].live
        /\ receipt'[KeyOf[c]].token = x.token /\ x.token \in Nat
    BY <1>3, <2>1, ClaimMoves
  <2>3. Holds(e, c)'
    BY <1>1, <2>1, <2>2 DEF Holds, HoldPc, JobRun, JobPc, SandboxPc
  <2>4. ASSUME NEW f \in Epoch, NEW d \in Call, f # e \/ d # c
        PROVE  Holds(f, d)' /\ Apart(e, c, f, d)' /\ Apart(f, d, e, c)'
    <3>1. Holds(f, d) /\ run'[f][d] = run[f][d]
      BY <1>1, <1>2, <2>4
    <3>2. Holds(f, d)'
      BY <1>3, <2>1, <3>1, HoldsThroughClaim
    <3>3. Apart(e, c, f, d)' /\ Apart(f, d, e, c)'
      BY <1>1, <1>3, <2>1, <3>1, HolderTypes DEF Holds, Apart, HoldPc, JobRun, JobPc, SandboxPc
    <3> QED
      BY <3>2, <3>3
  <2> QED
    BY <2>3, <2>4
<1>8. CASE TakesJob(e, c, x)
  <2>1. /\ Claims(JobKey(c), e) /\ x.pc = "prepare" /\ x.job = receipt[JobKey(c)].token + 1
        /\ x.token = run[e][c].token /\ run[e][c].pc = "claim_job"
    BY <1>8 DEF TakesJob
  <2>2. /\ JobKey(c) \in Key /\ JobKey(c) \in SandboxKey /\ KeyOf[c] # JobKey(c)
    BY <1>3, <2>1
  <2>3. /\ receipt'[JobKey(c)].status = "claimed" /\ receipt'[JobKey(c)].live
        /\ receipt'[JobKey(c)].token = x.job /\ x.job \in Nat
        /\ receipt'[KeyOf[c]] = receipt[KeyOf[c]]
    BY <1>3, <2>1, <2>2, ClaimMoves
  <2>4. Holds(e, c)'
    BY <1>1, <1>2, <2>1, <2>3 DEF Holds, HoldPc, JobRun, JobPc, SandboxPc
  <2>5. ASSUME NEW f \in Epoch, NEW d \in Call, f # e \/ d # c
        PROVE  Holds(f, d)' /\ Apart(e, c, f, d)' /\ Apart(f, d, e, c)'
    <3>1. Holds(f, d) /\ run'[f][d] = run[f][d] /\ Apart(e, c, f, d) /\ Apart(f, d, e, c)
      BY <1>1, <1>2, <2>5
    <3>2. Holds(f, d)'
      BY <2>1, <2>2, <3>1, HoldsThroughClaim
    <3>3. run[f][d].pc \in JobPc /\ JobKey(d) = JobKey(c) => run[f][d].job # x.job
      BY <1>3, <2>1, <2>2, <3>1, HolderTypes DEF Holds
    <3>4. Apart(e, c, f, d)' /\ Apart(f, d, e, c)'
      BY <1>1, <2>1, <3>1, <3>3 DEF Apart, HoldPc, SandboxPc
    <3> QED
      BY <3>2, <3>4
  <2> QED
    BY <2>4, <2>5
<1>9. CASE Records(e, c, x)
  <2>1. /\ Finishes(KeyOf[c], e, run[e][c].token, run[e][c].outcome)
        /\ run[e][c].pc = "record" /\ x.pc = "returned"
    BY <1>9 DEF Records
  <2>2. Holds(e, c)'
    BY <1>1, <2>1 DEF Holds, HoldPc, JobRun, JobPc, SandboxPc
  <2>3. ASSUME NEW f \in Epoch, NEW d \in Call, f # e \/ d # c
        PROVE  Holds(f, d)' /\ Apart(e, c, f, d)' /\ Apart(f, d, e, c)'
    <3>1. Holds(f, d) /\ run'[f][d] = run[f][d] /\ Apart(e, c, f, d)
      BY <1>1, <1>2, <2>3
    <3>2. ~(KeyOf[d] = KeyOf[c] /\ run[f][d].pc \in HoldPc /\ run[f][d].token = run[e][c].token)
      BY <2>1, <3>1 DEF Apart
    <3>3. ~(JobKey(d) = KeyOf[c] /\ run[f][d].pc \in JobRun /\ run[f][d].job = run[e][c].token)
      <4>1. run[f][d].pc \in JobRun => JobKey(d) \in SandboxKey
        BY HolderTypes DEF JobPc
      <4> QED
        BY <1>3, <4>1
    <3>4. Holds(f, d)'
      BY <1>3, <2>1, <3>1, <3>2, <3>3, HoldsThroughFinish
    <3>5. Apart(e, c, f, d)' /\ Apart(f, d, e, c)'
      BY <1>1, <2>1 DEF Apart, HoldPc, JobRun, JobPc, SandboxPc
    <3> QED
      BY <3>4, <3>5
  <2> QED
    BY <2>2, <2>3
<1>10. CASE Finalizes(e, c, x)
  <2>1. /\ Finishes(JobKey(c), e, run[e][c].job, run[e][c].outcome)
        /\ run[e][c].pc = "finalize" /\ x.pc = "record" /\ x.token = run[e][c].token
    BY <1>10 DEF Finalizes
  <2>2. /\ JobKey(c) \in Key /\ JobKey(c) \in SandboxKey /\ KeyOf[c] # JobKey(c)
    BY <1>3, <2>1 DEF JobPc
  <2>3. receipt'[KeyOf[c]] = receipt[KeyOf[c]]
    BY <1>3, <2>1, <2>2, FinishMoves
  <2>4. Holds(e, c)'
    BY <1>1, <1>2, <2>1, <2>3 DEF Holds, HoldPc, JobRun, JobPc, SandboxPc
  <2>5. ASSUME NEW f \in Epoch, NEW d \in Call, f # e \/ d # c
        PROVE  Holds(f, d)' /\ Apart(e, c, f, d)' /\ Apart(f, d, e, c)'
    <3>1. /\ Holds(f, d) /\ run'[f][d] = run[f][d] /\ Apart(e, c, f, d) /\ Apart(f, d, e, c)
      BY <1>1, <1>2, <2>5
    <3>2. ~(JobKey(d) = JobKey(c) /\ run[f][d].pc \in JobRun /\ run[f][d].job = run[e][c].job)
      BY <2>1, <3>1 DEF Apart, JobPc
    <3>3. KeyOf[d] # JobKey(c)
      BY <2>2, HolderTypes
    <3>4. Holds(f, d)'
      BY <1>3, <2>1, <2>2, <3>1, <3>2, <3>3, HoldsThroughFinish
    <3>5. Apart(e, c, f, d)' /\ Apart(f, d, e, c)'
      BY <1>1, <2>1, <3>1 DEF Apart, HoldPc, JobRun, JobPc, SandboxPc
    <3> QED
      BY <3>4, <3>5
  <2> QED
    BY <2>4, <2>5
<1>11. CASE LosesTool(e, c, x)
  <2>1. Claims(KeyOf[c], e) /\ x.pc = "returned"
    BY <1>11 DEF LosesTool
  <2>2. Holds(e, c)' /\ \A f \in Epoch, d \in Call : Apart(e, c, f, d)' /\ Apart(f, d, e, c)'
    BY <1>1, <2>1 DEF Holds, Apart, HoldPc, JobRun, JobPc, SandboxPc
  <2>3. \A f \in Epoch, d \in Call : f # e \/ d # c => Holds(f, d)'
    BY <1>1, <1>2, <1>3, <2>1, HoldsThroughClaim
  <2> QED
    BY <2>2, <2>3
<1>12. CASE LosesJob(e, c, x)
  <2>1. /\ Claims(JobKey(c), e) /\ x.pc = "record" /\ x.token = run[e][c].token
        /\ run[e][c].pc = "claim_job"
    BY <1>12 DEF LosesJob
  <2>2. /\ JobKey(c) \in Key /\ JobKey(c) \in SandboxKey /\ KeyOf[c] # JobKey(c)
    BY <1>3, <2>1
  <2>3. receipt'[KeyOf[c]] = receipt[KeyOf[c]]
    BY <1>3, <2>1, <2>2, ClaimMoves
  <2>4. Holds(e, c)'
    BY <1>1, <1>2, <2>1, <2>3 DEF Holds, HoldPc, JobRun, JobPc, SandboxPc
  <2>5. ASSUME NEW f \in Epoch, NEW d \in Call, f # e \/ d # c
        PROVE  Holds(f, d)' /\ Apart(e, c, f, d)' /\ Apart(f, d, e, c)'
    <3>1. /\ Holds(f, d) /\ run'[f][d] = run[f][d] /\ Apart(e, c, f, d) /\ Apart(f, d, e, c)
      BY <1>1, <1>2, <2>5
    <3>2. Holds(f, d)'
      BY <2>1, <2>2, <3>1, HoldsThroughClaim
    <3>3. Apart(e, c, f, d)' /\ Apart(f, d, e, c)'
      BY <1>1, <2>1, <3>1 DEF Apart, HoldPc, JobRun, JobPc, SandboxPc
    <3> QED
      BY <3>2, <3>3
  <2> QED
    BY <2>4, <2>5
<1> QED
  BY <1>5, <1>6, <1>7, <1>8, <1>9, <1>10, <1>11, <1>12 DEF Move, ReceiptMove

LEMMA ExpireClaims ==
    ASSUME TypeOK, Sandboxed, ClaimsInv, NEW k \in Key, ClaimExpires(k) PROVE ClaimsInv'
<1>1. /\ UNCHANGED run
      /\ receipt'[k].token = receipt[k].token
      /\ \A j \in Key \ {k} : receipt'[j] = receipt[j]
  BY ExpireTypes
<1>2. ASSUME NEW e \in Epoch, NEW c \in Call PROVE Holds(e, c)'
  <2>1. Holds(e, c) /\ KeyOf[c] \in Key /\ (run[e][c].pc \in JobPc => JobKey(c) \in Key)
    BY HolderTypes DEF ClaimsInv
  <2>2. run[e][c].pc \in HoldPc \cup JobRun => e \in alive
    BY DEF TypeOK, Idle, HoldPc, SandboxPc, JobRun
  <2>3. ~Working(e, c, k)
    BY DEF ClaimExpires
  <2>4. ~(run[e][c].pc \in HoldPc /\ KeyOf[c] = k)
    BY <2>1, <2>2, <2>3 DEF Holds, Working, HoldsTool, HoldPc
  <2>5. ~(run[e][c].pc \in JobRun /\ JobKey(c) = k)
    <3>1. run[e][c].pc \in JobRun => KeyOf[c] \in SandboxTool
      BY HolderTypes DEF JobPc
    <3> QED
      BY <2>1, <2>2, <2>3, <3>1 DEF Holds, Working, HoldsJob, JobRun, JobKey
  <2> QED
    BY <1>1, <2>1, <2>4, <2>5 DEF Holds, JobKey, JobPc
<1> QED
  BY <1>1, <1>2 DEF ClaimsInv, Apart, JobKey

LEMMA SliceClaims ==
    ASSUME TypeOK, Sandboxed, ClaimsInv, SliceStep PROVE ClaimsInv'
<1>1. /\ UNCHANGED receipt
      /\ \A f \in Epoch, d \in Call : run'[f][d] = run[f][d] \/ run'[f][d] = Idle
  BY SliceTypes
<1>2. Idle.pc \notin HoldPc \cup {"record"} \cup JobPc
  BY DEF Idle, HoldPc, SandboxPc, JobPc, JobRun
<1>3. ASSUME NEW e \in Epoch, NEW c \in Call PROVE Holds(e, c)'
  <2>1. Holds(e, c) /\ (run'[e][c] = run[e][c] \/ run'[e][c] = Idle)
    BY <1>1 DEF ClaimsInv
  <2> QED
    BY <1>1, <1>2, <2>1 DEF Holds, JobKey, JobPc, HoldPc, Idle
<1>4. ASSUME NEW e \in Epoch, NEW f \in Epoch, NEW c \in Call, NEW d \in Call, e # f \/ c # d
      PROVE  Apart(e, c, f, d)'
  <2>1. /\ Apart(e, c, f, d)
        /\ run'[e][c] = run[e][c] \/ run'[e][c] = Idle
        /\ run'[f][d] = run[f][d] \/ run'[f][d] = Idle
    BY <1>1, <1>4 DEF ClaimsInv
  <2> QED
    BY <1>2, <2>1 DEF Apart, JobKey
<1> QED
  BY <1>3, <1>4 DEF ClaimsInv

LEMMA StepClaims ==
    ASSUME TypeOK, Sandboxed, ClaimsInv, [Next]_vars PROVE ClaimsInv'
<1>1. CASE \E e \in Epoch, c \in Call : InvocationStep(e, c) \/ Interrupt(e, c)
  BY <1>1, InvocationMoves, MoveClaims DEF Moves
<1>2. CASE \E k \in Key : ClaimExpires(k)
  BY <1>2, ExpireClaims
<1>3. CASE SliceStep
  BY <1>3, SliceClaims
<1>4. CASE UNCHANGED vars
  BY <1>4 DEF vars, ClaimsInv, Holds, Apart, JobKey
<1> QED
  BY <1>1, <1>2, <1>3, <1>4, NextCases

LEMMA ClaimsImply == TypeOK /\ Sandboxed /\ ClaimsInv => HandlerHoldsClaim
<1> SUFFICES ASSUME TypeOK, Sandboxed, ClaimsInv, NEW e \in alive, NEW c \in Call
             PROVE  /\ run[e][c].pc \in {"handler"} \cup SandboxPc =>
                          receipt[KeyOf[c]] =
                              [status |-> "claimed", token |-> run[e][c].token, live |-> TRUE]
                    /\ run[e][c].pc = "provider" =>
                          receipt[SandboxKeyOf[KeyOf[c]]] =
                              [status |-> "claimed", token |-> run[e][c].job, live |-> TRUE]
  BY DEF HandlerHoldsClaim
<1>1. e \in Epoch
  BY PlanAssumption DEF TypeOK, Epoch
<1>2. /\ Holds(e, c) /\ KeyOf[c] \in Key
      /\ run[e][c].pc \in JobPc => JobKey(c) \in Key
  BY <1>1, HolderTypes DEF ClaimsInv
<1>3. \A k \in Key : receipt[k] \in Receipt
  BY ReceiptTypes
<1>4. run[e][c].pc \in {"handler"} \cup SandboxPc =>
         receipt[KeyOf[c]] = [status |-> "claimed", token |-> run[e][c].token, live |-> TRUE]
  BY <1>2, <1>3 DEF Holds, HoldPc, Receipt
<1>5. run[e][c].pc = "provider" =>
         receipt[JobKey(c)] = [status |-> "claimed", token |-> run[e][c].job, live |-> TRUE]
  BY <1>2, <1>3 DEF Holds, JobPc, JobRun, Receipt
<1> QED
  BY <1>4, <1>5 DEF JobKey

\* A handler runs only under the latest, unexpired claim of its undecided
\* receipt, for any number of leases, calls and surprises.
THEOREM HoldersHaveClaims == Spec => []HandlerHoldsClaim
<1>1. Init => TypeOK /\ Sandboxed /\ ClaimsInv
  BY InitType, InitSandboxed, InitClaims
<1>2. TypeOK /\ Sandboxed /\ ClaimsInv /\ [Next]_vars => (TypeOK /\ Sandboxed /\ ClaimsInv)'
  BY StepTypes, StepClaims
<1> QED
  BY <1>1, <1>2, ClaimsImply, PTL DEF Spec

-----------------------------------------------------------------------------
(* A sandbox job runs once.                                                *)

\* The process of the last lease works on the operation in flight; between its
\* inspection and its claim nobody else claims the job; and a job about to run
\* never ran.
OnceInv ==
    /\ \A e \in Epoch, c \in Call :
          /\ e = lease.epoch /\ run[e][c].pc # "idle"
             => inflight \in DOMAIN Plan /\ c \in Plan[inflight]
          /\ e = lease.epoch /\ run[e][c].pc = "claim_job"
             => receipt[JobKey(c)].status = "none"
          /\ run[e][c].pc = "prepare" => jobs[JobKey(c)] = 0
    /\ \A s \in SandboxKey : jobs[s] <= 1 /\ (receipt[s].status = "none" => jobs[s] = 0)

LEMMA InitOnce == Init => OnceInv
  BY KeyFacts DEF Init, OnceInv, Idle

LEMMA MoveOnce ==
    ASSUME TypeOK, Sandboxed, ClaimsInv, OnceInv,
           NEW e \in Epoch, NEW c \in Call, NEW x \in Invocation, Move(e, c, x)
    PROVE  OnceInv'
<1>1. /\ run'[e][c] = x
      /\ \A f \in Epoch, d \in Call : f # e \/ d # c => run'[f][d] = run[f][d]
      /\ UNCHANGED <<lease, inflight>>
  BY BecomesType DEF Move, drive
<1>2. /\ KeyOf[c] \in Key /\ KeyOf[c] \notin SandboxKey
      /\ run[e][c].pc \in JobPc \cup {"claim_job"} =>
            JobKey(c) \in Key /\ JobKey(c) \in SandboxKey /\ KeyOf[c] \in SandboxTool
      /\ run[e][c].outcome \in {"succeeded", "failed"}
      /\ \A s \in SandboxKey : s \in Key /\ jobs[s] \in Nat
  BY HolderTypes, RecordTypes, KeyFacts DEF Invocation, TypeOK
\* A sandbox receipt leaves "none" only by a claim of its job.
<1>3. \A s \in SandboxKey :
         /\ receipt'[s].status = "none" => receipt[s].status = "none"
         /\ receipt[s].status = "none" /\ receipt'[s].status # "none" =>
               run[e][c].pc = "claim_job" /\ s = JobKey(c) /\ Current(e)
  <2>1. CASE UNCHANGED receipt
    BY <2>1
  <2>2. CASE TakesTool(e, c, x) \/ LosesTool(e, c, x)
    BY <2>2, <1>2, ClaimMoves DEF TakesTool, LosesTool
  <2>3. CASE TakesJob(e, c, x) \/ LosesJob(e, c, x)
    BY <2>3, <1>2, ClaimMoves DEF TakesJob, LosesJob
  <2>4. CASE Records(e, c, x)
    BY <2>4, <1>2, FinishMoves DEF Records
  <2>5. CASE Finalizes(e, c, x)
    <3>1. /\ JobKey(c) \in Key
          /\ Finishes(JobKey(c), e, run[e][c].job, run[e][c].outcome)
      BY <2>5, <1>2 DEF Finalizes, JobPc
    <3> QED
      BY <3>1, <1>2, FinishMoves
  <2> QED
    BY <2>1, <2>2, <2>3, <2>4, <2>5 DEF Move, ReceiptMove, Rests, Keeps
<1>4. \A s \in SandboxKey :
         jobs'[s] # jobs[s] =>
            run[e][c].pc = "prepare" /\ x.pc = "provider" /\ s = JobKey(c) /\ jobs'[s] = jobs[s] + 1
  BY DEF Move, EffectMove, TypeOK
<1>5. \A s \in SandboxKey : jobs'[s] <= 1 /\ (receipt'[s].status = "none" => jobs'[s] = 0)
  <2>1. ASSUME NEW s \in SandboxKey, jobs'[s] # jobs[s]
        PROVE  jobs'[s] <= 1 /\ receipt[s].status # "none"
    <3>1. Holds(e, c) /\ run[e][c].pc = "prepare" /\ s = JobKey(c) /\ jobs'[s] = jobs[s] + 1
      BY <1>4, <2>1 DEF ClaimsInv
    <3> QED
      BY <3>1 DEF OnceInv, Holds, JobRun
  <2> QED
    BY <1>3, <2>1 DEF OnceInv
<1>6. ASSUME NEW f \in Epoch, NEW d \in Call, f # e \/ d # c
      PROVE  /\ f = lease.epoch /\ run[f][d].pc = "claim_job"
                => receipt'[JobKey(d)].status = "none"
             /\ run[f][d].pc = "prepare" => jobs'[JobKey(d)] = 0
  <2>1. ASSUME f = lease.epoch, run[f][d].pc = "claim_job"
        PROVE  receipt'[JobKey(d)].status = "none"
    <3>1. JobKey(d) \in SandboxKey /\ KeyOf[d] \in SandboxTool /\ receipt[JobKey(d)].status = "none"
      BY <2>1, HolderTypes DEF OnceInv
    <3>2. SUFFICES ASSUME run[e][c].pc = "claim_job", JobKey(d) = JobKey(c), Current(e)
                   PROVE  FALSE
      BY <1>3, <3>1
    <3>3. e = f /\ KeyOf[c] \in SandboxTool
      BY <1>2, <2>1, <3>2 DEF Current
    <3>4. inflight \in DOMAIN Plan /\ c \in Plan[inflight] /\ d \in Plan[inflight]
      BY <2>1, <3>2, <3>3 DEF OnceInv
    <3> QED
      BY <1>6, <3>1, <3>2, <3>3, <3>4, PlanAssumption DEF JobKey
  <2>2. ASSUME run[f][d].pc = "prepare" PROVE jobs'[JobKey(d)] = 0
    <3>1. JobKey(d) \in SandboxKey /\ jobs[JobKey(d)] = 0
      BY <2>2, HolderTypes DEF OnceInv, JobPc, JobRun
    <3>2. SUFFICES ASSUME run[e][c].pc = "prepare", JobKey(d) = JobKey(c) PROVE FALSE
      BY <1>4, <3>1
    <3>3. Holds(e, c) /\ Holds(f, d) /\ Apart(e, c, f, d)
      BY <1>6 DEF ClaimsInv
    <3> QED
      BY <2>2, <3>2, <3>3 DEF Holds, Apart, JobRun, JobPc
  <2> QED
    BY <2>1, <2>2
<1>7. /\ e = lease.epoch => inflight \in DOMAIN Plan /\ c \in Plan[inflight]
  <2>1. run[e][c].pc = "idle" => inflight \in DOMAIN Plan /\ c \in Plan[inflight]
    BY DEF Move, EffectMove
  <2> QED
    BY <2>1 DEF OnceInv
<1>8. x.pc = "claim_job" => receipt'[JobKey(c)].status = "none"
  <2>1. x.pc = "claim_job" => receipt[JobKey(c)].status = "none" /\ UNCHANGED receipt
    BY DEF Move, EffectMove, ReceiptMove, Rests, Keeps, TakesTool, TakesJob, Records,
           Finalizes, LosesTool, LosesJob
  <2> QED
    BY <2>1
<1>9. x.pc = "prepare" => jobs'[JobKey(c)] = 0
  <2>1. ASSUME x.pc = "prepare" PROVE jobs'[JobKey(c)] = 0
    <3>1. CASE TakesJob(e, c, x)
      <4>1. run[e][c].pc = "claim_job" /\ Claims(JobKey(c), e)
        BY <3>1 DEF TakesJob
      <4>2. JobKey(c) \in SandboxKey /\ e = lease.epoch
        BY <1>2, <4>1 DEF Claims, CanClaim, Current
      <4>3. jobs[JobKey(c)] = 0
        BY <4>1, <4>2 DEF OnceInv
      <4> QED
        BY <1>4, <2>1, <4>2, <4>3
    <3> QED
      BY <2>1, <3>1
      DEF Move, ReceiptMove, Rests, Keeps, TakesTool, Records, Finalizes, LosesTool, LosesJob
  <2> QED
    BY <2>1
<1>10. \A f \in Epoch, d \in Call :
          /\ f = lease'.epoch /\ run'[f][d].pc # "idle"
             => inflight' \in DOMAIN Plan /\ d \in Plan[inflight']
          /\ f = lease'.epoch /\ run'[f][d].pc = "claim_job"
             => receipt'[JobKey(d)].status = "none"
          /\ run'[f][d].pc = "prepare" => jobs'[JobKey(d)] = 0
  BY <1>1, <1>6, <1>7, <1>8, <1>9 DEF OnceInv
<1> QED
  BY <1>5, <1>10 DEF OnceInv, JobKey

LEMMA ExpireOnce ==
    ASSUME TypeOK, Sandboxed, OnceInv, NEW k \in Key, ClaimExpires(k) PROVE OnceInv'
<1>1. /\ UNCHANGED <<drive, effects, run>>
      /\ receipt'[k].status = receipt[k].status
      /\ \A j \in Key \ {k} : receipt'[j] = receipt[j]
  BY ExpireTypes
<1>2. \A j \in Key : receipt'[j].status = receipt[j].status
  BY <1>1
<1>3. \A e \in Epoch, c \in Call : run[e][c].pc = "claim_job" => JobKey(c) \in Key
  BY HolderTypes
<1> QED
  BY <1>1, <1>2, <1>3, KeyFacts DEF OnceInv, JobKey, drive, effects

LEMMA SliceOnce ==
    ASSUME TypeOK, Sandboxed, OnceInv, SliceStep PROVE OnceInv'
<1>1. /\ UNCHANGED <<receipt, effects>>
      /\ \A f \in Epoch, d \in Call :
            /\ run'[f][d] = run[f][d] \/ run'[f][d] = Idle
            /\ f = lease'.epoch /\ run'[f][d] # Idle
               => lease.epoch = lease'.epoch /\ inflight = inflight'
      /\ Idle.pc = "idle"
  BY SliceTypes DEF Idle
<1>2. UNCHANGED <<receipt, jobs>>
  BY <1>1 DEF effects
<1>3. ASSUME NEW e \in Epoch, NEW c \in Call
      PROVE  /\ e = lease'.epoch /\ run'[e][c].pc # "idle"
                => inflight' \in DOMAIN Plan /\ c \in Plan[inflight']
             /\ e = lease'.epoch /\ run'[e][c].pc = "claim_job"
                => receipt'[JobKey(c)].status = "none"
             /\ run'[e][c].pc = "prepare" => jobs'[JobKey(c)] = 0
  <2>1. CASE run'[e][c] = Idle
    BY <1>1, <2>1
  <2>2. CASE run'[e][c] # Idle
    <3>1. /\ run'[e][c] = run[e][c]
          /\ e = lease'.epoch => lease.epoch = lease'.epoch /\ inflight = inflight'
      BY <1>1, <2>2
    <3> QED
      BY <1>2, <3>1 DEF OnceInv
  <2> QED
    BY <2>1, <2>2
<1> QED
  BY <1>2, <1>3 DEF OnceInv, JobKey

LEMMA StepOnce ==
    ASSUME TypeOK, Sandboxed, ClaimsInv, OnceInv, [Next]_vars PROVE OnceInv'
<1>1. CASE \E e \in Epoch, c \in Call : InvocationStep(e, c) \/ Interrupt(e, c)
  BY <1>1, InvocationMoves, MoveOnce DEF Moves
<1>2. CASE \E k \in Key : ClaimExpires(k)
  BY <1>2, ExpireOnce
<1>3. CASE SliceStep
  BY <1>3, SliceOnce
<1>4. CASE UNCHANGED vars
  BY <1>4 DEF vars, drive, effects, OnceInv, JobKey
<1> QED
  BY <1>1, <1>2, <1>3, <1>4, NextCases

\* A sandbox job runs at most once, through crashes, takeovers and expired
\* claims, for any number of leases, calls and surprises.
THEOREM JobsRunOnce == Spec => []SandboxOnce
<1>1. Init => TypeOK /\ Sandboxed /\ ClaimsInv /\ OnceInv
  BY InitType, InitSandboxed, InitClaims, InitOnce
<1>2. TypeOK /\ Sandboxed /\ ClaimsInv /\ OnceInv /\ [Next]_vars
      => (TypeOK /\ Sandboxed /\ ClaimsInv /\ OnceInv)'
  BY StepTypes, StepClaims, StepOnce
<1>3. OnceInv => SandboxOnce
  BY DEF OnceInv, SandboxOnce
<1> QED
  BY <1>1, <1>2, <1>3, PTL DEF Spec

-----------------------------------------------------------------------------
(* The receipts implement OperationReceipts.                               *)

\* What a success rests on, from the effect to the receipt; and the operations
\* not yet reported.
Rested(e, c) ==
    LET r == run[e][c]
        good == r.outcome = "succeeded"
        k == KeyOf[c]
    IN  /\ r.pc = "handler" => k \in begun
        /\ r.pc = "provider" => jobs[JobKey(c)] > 0
        /\ r.pc = "finalize" /\ good => jobs[JobKey(c)] > 0
        /\ r.pc = "record" /\ good => IF k \in SandboxTool
                                      THEN receipt[JobKey(c)].status = "succeeded"
                                      ELSE k \in begun
        /\ r.pc = "returned" /\ good => receipt[k].status = "succeeded"

OutcomeInv ==
    /\ \A e \in Epoch, c \in Call : Rested(e, c)
    /\ \A i \in DOMAIN Plan : i >= inflight => \A c \in Plan[i] : reported[c] = "open"

LEMMA PlanFacts ==
    /\ \A i \in DOMAIN Plan : Plan[i] \subseteq Call /\ i \in Nat
    /\ \A i, j \in DOMAIN Plan : i # j => Plan[i] \cap Plan[j] = {}
  BY PlanAssumption

LEMMA InitOutcome == Init => OutcomeInv
  BY PlanFacts DEF Init, OutcomeInv, Rested, Idle

\* A decision stands.
LEMMA MoveDecisions ==
    ASSUME TypeOK, Sandboxed, NEW e \in Epoch, NEW c \in Call, NEW x \in Invocation, Move(e, c, x)
    PROVE  \A k \in Key : receipt[k].status \in {"succeeded", "failed"} =>
              receipt'[k].status = receipt[k].status
<1>1. /\ KeyOf[c] \in Key
      /\ run[e][c].pc \in JobPc \cup {"claim_job"} => JobKey(c) \in Key
      /\ run[e][c].outcome \in {"succeeded", "failed"}
  BY HolderTypes, RecordTypes DEF Invocation
<1>2. CASE UNCHANGED receipt
  BY <1>2
<1>3. CASE TakesTool(e, c, x) \/ LosesTool(e, c, x)
  BY <1>3, <1>1, ClaimMoves DEF TakesTool, LosesTool
<1>4. CASE TakesJob(e, c, x) \/ LosesJob(e, c, x)
  BY <1>4, <1>1, ClaimMoves DEF TakesJob, LosesJob
<1>5. CASE Records(e, c, x)
  BY <1>5, <1>1, FinishMoves DEF Records
<1>6. CASE Finalizes(e, c, x)
  <2>1. JobKey(c) \in Key /\ Finishes(JobKey(c), e, run[e][c].job, run[e][c].outcome)
    BY <1>1, <1>6 DEF Finalizes, JobPc
  <2> QED
    BY <1>1, <2>1, FinishMoves
<1> QED
  BY <1>2, <1>3, <1>4, <1>5, <1>6 DEF Move, ReceiptMove, Rests, Keeps

LEMMA MoveOutcome ==
    ASSUME TypeOK, Sandboxed, ClaimsInv, OutcomeInv,
           NEW e \in Epoch, NEW c \in Call, NEW x \in Invocation, Move(e, c, x)
    PROVE  OutcomeInv'
<1>1. /\ run'[e][c] = x
      /\ \A f \in Epoch, d \in Call : f # e \/ d # c => run'[f][d] = run[f][d]
      /\ UNCHANGED <<inflight, reported>>
  BY BecomesType DEF Move, drive
<1>2. begun \subseteq begun'
  BY DEF Move, EffectMove
<1>3. \A s \in SandboxKey : jobs[s] \in Nat /\ (jobs[s] > 0 => jobs'[s] > 0)
  <2>1. jobs \in [SandboxKey -> Nat]
    BY DEF TypeOK
  <2>2. UNCHANGED jobs \/ jobs' = [jobs EXCEPT ![JobKey(c)] = @ + 1]
    BY DEF Move, EffectMove
  <2>3. CASE UNCHANGED jobs
    BY <2>1, <2>3
  <2>4. CASE jobs' = [jobs EXCEPT ![JobKey(c)] = @ + 1]
    BY <2>1, <2>4
  <2> QED
    BY <2>2, <2>3, <2>4
<1>4. \A k \in Key : receipt[k].status = "succeeded" => receipt'[k].status = "succeeded"
  BY MoveDecisions
<1>5. ASSUME NEW f \in Epoch, NEW d \in Call, f # e \/ d # c PROVE Rested(f, d)'
  <2>1. Rested(f, d) /\ run'[f][d] = run[f][d]
    BY <1>1, <1>5 DEF OutcomeInv
  <2>2. /\ KeyOf[d] \in Key
        /\ run[f][d].pc \in {"provider", "finalize"} => JobKey(d) \in SandboxKey
        /\ KeyOf[d] \in SandboxTool => JobKey(d) \in Key
    BY HolderTypes, KeyFacts DEF JobPc, JobRun, JobKey
  <2> QED
    BY <1>2, <1>3, <1>4, <2>1, <2>2 DEF Rested, JobKey
<1>6. Rested(e, c)'
  <2>1. Rested(e, c) /\ Holds(e, c)
    BY DEF OutcomeInv, ClaimsInv
  <2>2. x.pc = "handler" => KeyOf[c] \in begun'
    BY DEF Move, EffectMove
  <2>3. x.pc = "provider" => jobs'[JobKey(c)] > 0
    <3>1. SUFFICES ASSUME x.pc = "provider" PROVE jobs'[JobKey(c)] > 0
      OBVIOUS
    <3>2. run[e][c].pc = "prepare" /\ jobs' = [jobs EXCEPT ![JobKey(c)] = @ + 1]
      BY <3>1 DEF Move, EffectMove
    <3>3. JobKey(c) \in SandboxKey
      BY <3>2, HolderTypes DEF JobPc, JobRun
    <3> QED
      BY <3>2, <3>3 DEF TypeOK
  <2>4. x.pc = "finalize" /\ x.outcome = "succeeded" => jobs'[JobKey(c)] > 0
    <3>1. SUFFICES ASSUME x.pc = "finalize", x.outcome = "succeeded" PROVE jobs'[JobKey(c)] > 0
      OBVIOUS
    <3>2. run[e][c].pc = "provider"
      BY <3>1 DEF Move, OutcomeMove
    <3>3. JobKey(c) \in SandboxKey /\ jobs[JobKey(c)] > 0
      BY <2>1, <3>2, HolderTypes DEF JobPc, JobRun, Rested
    <3> QED
      BY <1>3, <3>3
  <2>5. x.pc = "record" /\ x.outcome = "succeeded" =>
           IF KeyOf[c] \in SandboxTool THEN receipt'[JobKey(c)].status = "succeeded"
                                       ELSE KeyOf[c] \in begun'
    BY <1>2, <2>1 DEF Move, OutcomeMove, Rested, Holds
  <2>6. x.pc = "returned" /\ x.outcome = "succeeded" => receipt'[KeyOf[c]].status = "succeeded"
    BY DEF Move, OutcomeMove
  <2> QED
    BY <1>1, <2>2, <2>3, <2>4, <2>5, <2>6 DEF Rested, JobKey
<1> QED
  BY <1>1, <1>5, <1>6 DEF OutcomeInv

LEMMA ExpireOutcome ==
    ASSUME TypeOK, Sandboxed, OutcomeInv, NEW k \in Key, ClaimExpires(k) PROVE OutcomeInv'
<1>1. /\ UNCHANGED <<drive, effects, run>>
      /\ receipt'[k].status = receipt[k].status
      /\ \A j \in Key \ {k} : receipt'[j] = receipt[j]
  BY ExpireTypes
<1>2. \A j \in Key : receipt'[j].status = receipt[j].status
  BY <1>1
<1>3. \A c \in Call : KeyOf[c] \in Key /\ (KeyOf[c] \in SandboxTool => JobKey(c) \in Key)
  BY KeyFacts DEF JobKey
<1> QED
  BY <1>1, <1>2, <1>3 DEF OutcomeInv, Rested, JobKey, drive, effects

LEMMA SliceOutcome ==
    ASSUME TypeOK, Sandboxed, OutcomeInv, SliceStep PROVE OutcomeInv'
<1>1. /\ UNCHANGED <<receipt, effects>>
      /\ \A f \in Epoch, d \in Call : run'[f][d] = run[f][d] \/ run'[f][d] = Idle
      /\ Idle.pc = "idle"
  BY SliceTypes DEF Idle
<1>2. \A e \in Epoch, c \in Call : Rested(e, c)'
  BY <1>1 DEF OutcomeInv, Rested, JobKey, effects
<1>3. ASSUME NEW i \in DOMAIN Plan, i >= inflight', NEW c \in Plan[i] PROVE reported'[c] = "open"
  <2>1. CASE UNCHANGED <<inflight, reported>>
    BY <1>3, <2>1 DEF OutcomeInv
  <2>2. CASE \E e \in Epoch : Report(e)
    <3>0. PICK e \in Epoch : Report(e)
      BY <2>2
    <3>1. /\ reported' = [d \in Call |->
                       IF d \notin Plan[inflight] THEN reported[d]
                       ELSE IF run[e][d].outcome = "succeeded" THEN "completed" ELSE "failed"]
          /\ inflight' = inflight + 1 /\ inflight \in DOMAIN Plan
      BY <3>0 DEF Report
    <3>2. c \in Call /\ i # inflight /\ i >= inflight
      BY <1>3, <3>1, PlanFacts DEF TypeOK
    <3>3. c \notin Plan[inflight]
      BY <1>3, <3>1, <3>2, PlanFacts
    <3> QED
      BY <1>3, <3>1, <3>2, <3>3 DEF OutcomeInv
  <2> QED
    BY <2>1, <2>2 DEF SliceStep, Crash, Leave, Yield, TakeLease, LoseLease
<1> QED
  BY <1>2, <1>3 DEF OutcomeInv

LEMMA StepOutcome ==
    ASSUME TypeOK, Sandboxed, ClaimsInv, OutcomeInv, [Next]_vars PROVE OutcomeInv'
<1>1. CASE \E e \in Epoch, c \in Call : InvocationStep(e, c) \/ Interrupt(e, c)
  BY <1>1, InvocationMoves, MoveOutcome DEF Moves
<1>2. CASE \E k \in Key : ClaimExpires(k)
  BY <1>2, ExpireOutcome
<1>3. CASE SliceStep
  BY <1>3, SliceOutcome
<1>4. CASE UNCHANGED vars
  BY <1>4 DEF vars, drive, effects, OutcomeInv, Rested, JobKey
<1> QED
  BY <1>1, <1>2, <1>3, <1>4, NextCases

\* The abstract state.
Decision == [k \in Key |-> IF Decided(k) THEN receipt[k].status ELSE "open"]
Happened == begun \cup {s \in SandboxKey : jobs[s] > 0}

LEMMA InitRefines == Init => Receipts!Init
  BY KeyFacts DEF Init, Receipts!Init, Decided

LEMMA SameDecisions ==
    ASSUME \A k \in Key : /\ Decided(k) <=> Decided(k)'
                          /\ Decided(k) => receipt'[k].status = receipt[k].status
    PROVE  UNCHANGED Decision
  BY DEF Decision

LEMMA SameHappened == ASSUME UNCHANGED effects PROVE UNCHANGED Happened
  BY DEF effects, Happened

LEMMA DecisionMade ==
    ASSUME TypeOK, NEW k \in Key, NEW e, NEW t, NEW v \in {"succeeded", "failed"},
           Finishes(k, e, t, v)
    PROVE  Decision[k] = "open" /\ Decision' = [Decision EXCEPT ![k] = v]
<1>1. /\ receipt'[k].status = v /\ receipt[k].status = "claimed"
      /\ \A j \in Key \ {k} : receipt'[j] = receipt[j]
  BY FinishMoves
<1> QED
  BY <1>1 DEF Decision, Decided

LEMMA MoveRefines ==
    ASSUME TypeOK, Sandboxed, ClaimsInv, OutcomeInv,
           NEW e \in Epoch, NEW c \in Call, NEW x \in Invocation, Move(e, c, x)
    PROVE  Receipts!Next \/ UNCHANGED <<Decision, Happened, reported>>
<1>1. /\ KeyOf[c] \in Key /\ KeyOf[c] \in ToolKey
      /\ run[e][c].pc \in JobPc \cup {"claim_job"} =>
            JobKey(c) \in Key /\ JobKey(c) \in SandboxKey
      /\ JobKey(c) \in SandboxKey => JobKey(c) \notin SandboxTool
      /\ run[e][c].outcome \in {"succeeded", "failed"}
      /\ UNCHANGED reported
      /\ Holds(e, c) /\ Rested(e, c)
  BY HolderTypes, RecordTypes, KeyFacts, PlanAssumption
  DEF Invocation, Move, drive, ClaimsInv, OutcomeInv
<1>2. CASE UNCHANGED receipt
  <2>1. UNCHANGED Decision
    BY <1>2 DEF Decision, Decided
  <2>2. CASE UNCHANGED effects
    BY <1>1, <2>1, <2>2, SameHappened
  <2>3. CASE run[e][c].pc = "attempt" /\ x.pc = "handler" /\ begun' = begun \cup {KeyOf[c]}
             /\ UNCHANGED jobs
    <3>1. Decision[KeyOf[c]] = "open"
      BY <1>1, <2>3 DEF Holds, HoldPc, Decision, Decided
    <3>2. Happened' = Happened \cup {KeyOf[c]}
      BY <2>3 DEF Happened
    <3>3. Receipts!Happen(KeyOf[c])
      BY <1>1, <2>1, <3>1, <3>2 DEF Receipts!Happen, Decision, Happened
    <3> QED
      BY <1>1, <3>3 DEF Receipts!Next
  <2>4. CASE run[e][c].pc = "prepare" /\ jobs' = [jobs EXCEPT ![JobKey(c)] = @ + 1]
             /\ UNCHANGED begun
    <3>1. JobKey(c) \in SandboxKey /\ JobKey(c) \in Key
      BY <1>1, <2>4 DEF JobPc, JobRun
    <3>2. Decision[JobKey(c)] = "open"
      BY <1>1, <2>4, <3>1 DEF Holds, JobRun, Decision, Decided
    <3>3. \A s \in SandboxKey : jobs[s] \in Nat
             /\ jobs'[s] = IF s = JobKey(c) THEN jobs[s] + 1 ELSE jobs[s]
      BY <2>4 DEF TypeOK
    <3>4. {s \in SandboxKey : jobs'[s] > 0} = {s \in SandboxKey : jobs[s] > 0} \cup {JobKey(c)}
      BY <3>1, <3>3
    <3>5. Happened' = Happened \cup {JobKey(c)}
      BY <2>4, <3>4 DEF Happened
    <3>6. Receipts!Happen(JobKey(c))
      BY <1>1, <2>1, <3>2, <3>5 DEF Receipts!Happen, Decision, Happened
    <3> QED
      BY <3>1, <3>6 DEF Receipts!Next
  <2> QED
    BY <2>2, <2>3, <2>4 DEF Move, EffectMove, effects
<1>3. CASE TakesTool(e, c, x) \/ LosesTool(e, c, x) \/ TakesJob(e, c, x) \/ LosesJob(e, c, x)
  <2>1. PICK k \in Key : Claims(k, e)
    BY <1>1, <1>3 DEF TakesTool, LosesTool, TakesJob, LosesJob
  <2>2. UNCHANGED Decision
    <3>1. /\ receipt'[k].status = "claimed" /\ receipt[k].status \in {"none", "claimed"}
          /\ \A j \in Key \ {k} : receipt'[j] = receipt[j]
      BY <2>1, ClaimMoves
    <3> QED
      BY <3>1, SameDecisions DEF Decided
  <2>3. UNCHANGED effects
    BY <1>3 DEF Move, EffectMove, TakesTool, LosesTool, TakesJob, LosesJob, effects
  <2> QED
    BY <1>1, <2>2, <2>3, SameHappened
<1>4. CASE Records(e, c, x)
  <2>1. /\ Finishes(KeyOf[c], e, run[e][c].token, run[e][c].outcome) /\ run[e][c].pc = "record"
        /\ UNCHANGED effects
    BY <1>4 DEF Records, Move, EffectMove, effects
  <2>2. /\ Decision[KeyOf[c]] = "open"
        /\ Decision' = [Decision EXCEPT ![KeyOf[c]] = run[e][c].outcome]
    BY <1>1, <2>1, DecisionMade
  <2>3. run[e][c].outcome = "succeeded" =>
           IF KeyOf[c] \in SandboxTool THEN Decision[JobKey(c)] = "succeeded"
                                       ELSE KeyOf[c] \in Happened
    <3>1. KeyOf[c] \in SandboxTool => JobKey(c) \in Key
      BY KeyFacts DEF JobKey
    <3> QED
      BY <1>1, <2>1, <3>1 DEF Rested, Decision, Decided, Happened
  <2>4. PICK v \in {"succeeded", "failed"} : v = run[e][c].outcome
    BY <1>1
  <2>5. Receipts!Decide(KeyOf[c], v)
    BY <1>1, <2>1, <2>2, <2>3, <2>4, SameHappened
    DEF Receipts!Decide, Receipts!Confirmed, Decision, Happened, JobKey, SandboxTool
  <2> QED
    BY <1>1, <2>5 DEF Receipts!Next
<1>5. CASE Finalizes(e, c, x)
  <2>1. /\ Finishes(JobKey(c), e, run[e][c].job, run[e][c].outcome) /\ run[e][c].pc = "finalize"
        /\ UNCHANGED effects
    BY <1>5 DEF Finalizes, Move, EffectMove, effects
  <2>2. JobKey(c) \in Key /\ JobKey(c) \in SandboxKey /\ JobKey(c) \notin SandboxTool
    BY <1>1, <2>1 DEF JobPc
  <2>3. /\ Decision[JobKey(c)] = "open"
        /\ Decision' = [Decision EXCEPT ![JobKey(c)] = run[e][c].outcome]
    BY <1>1, <2>1, <2>2, DecisionMade
  <2>4. run[e][c].outcome = "succeeded" => JobKey(c) \in Happened
    BY <1>1, <2>1, <2>2 DEF Rested, Happened
  <2>5. PICK v \in {"succeeded", "failed"} : v = run[e][c].outcome
    BY <1>1
  <2>6. Receipts!Decide(JobKey(c), v)
    BY <1>1, <2>1, <2>2, <2>3, <2>4, <2>5, SameHappened
    DEF Receipts!Decide, Receipts!Confirmed, Decision, Happened, SandboxTool
  <2> QED
    BY <1>1, <2>2, <2>6 DEF Receipts!Next
<1> QED
  BY <1>2, <1>3, <1>4, <1>5 DEF Move, ReceiptMove, Rests, Keeps

LEMMA ExpireRefines ==
    ASSUME TypeOK, Sandboxed, NEW k \in Key, ClaimExpires(k)
    PROVE  UNCHANGED <<Decision, Happened, reported>>
<1>1. /\ UNCHANGED <<drive, effects, run>>
      /\ receipt'[k].status = receipt[k].status
      /\ \A j \in Key \ {k} : receipt'[j] = receipt[j]
  BY ExpireTypes
<1>2. \A j \in Key : receipt'[j].status = receipt[j].status
  BY <1>1
<1>3. UNCHANGED Decision
  BY <1>2, SameDecisions DEF Decided
<1> QED
  BY <1>1, <1>3, SameHappened DEF drive

LEMMA SliceRefines ==
    ASSUME TypeOK, Sandboxed, OutcomeInv, SliceStep
    PROVE  Receipts!Next \/ UNCHANGED <<Decision, Happened, reported>>
<1>1. UNCHANGED Decision /\ UNCHANGED Happened
  BY SliceTypes, SameHappened DEF Decision, Decided
<1>2. CASE UNCHANGED reported
  BY <1>1, <1>2
<1>3. CASE \E e \in Epoch : Report(e)
  <2>1. PICK e \in Epoch : Report(e)
    BY <1>3
  <2> DEFINE C == Plan[inflight]
             good == {c \in C : run[e][c].outcome = "succeeded"}
  <2>2. /\ inflight \in DOMAIN Plan /\ \A c \in C : run[e][c].pc = "returned"
        /\ reported' = [c \in Call |->
                          IF c \notin C THEN reported[c]
                          ELSE IF run[e][c].outcome = "succeeded" THEN "completed" ELSE "failed"]
    BY <2>1 DEF Report
  <2>3. C \subseteq Call /\ inflight >= inflight
    BY <2>2, PlanFacts
  <2>4. \A c \in C : reported[c] = "open"
    BY <2>2, <2>3 DEF OutcomeInv
  <2>5. \A c \in good : Decision[KeyOf[c]] = "succeeded"
    <3>1. ASSUME NEW c \in good PROVE receipt[KeyOf[c]].status = "succeeded" /\ KeyOf[c] \in Key
      BY <2>2, <2>3, KeyFacts DEF OutcomeInv, Rested
    <3> QED
      BY <3>1 DEF Decision, Decided
  <2>6. reported' = [c \in Call |-> IF c \in good THEN "completed"
                                    ELSE IF c \in C THEN "failed" ELSE reported[c]]
    BY <2>2
  <2>7. Receipts!Report(C, good)
    BY <1>1, <2>4, <2>5, <2>6 DEF Receipts!Report, Decision, Happened
  <2>8. C \in SUBSET Call /\ good \in SUBSET C
    BY <2>3
  <2> QED
    BY <2>7, <2>8 DEF Receipts!Next
<1> QED
  BY <1>2, <1>3 DEF SliceStep, Crash, Leave, Yield, TakeLease, LoseLease

LEMMA StepRefines ==
    ASSUME TypeOK, Sandboxed, ClaimsInv, OutcomeInv, [Next]_vars
    PROVE  Receipts!Next \/ UNCHANGED <<Decision, Happened, reported>>
<1>1. CASE \E e \in Epoch, c \in Call : InvocationStep(e, c) \/ Interrupt(e, c)
  BY <1>1, InvocationMoves, MoveRefines DEF Moves
<1>2. CASE \E k \in Key : ClaimExpires(k)
  BY <1>2, ExpireRefines
<1>3. CASE SliceStep
  BY <1>3, SliceRefines
<1>4. CASE UNCHANGED vars
  BY <1>4, SameHappened DEF vars, drive, Decision, Decided
<1> QED
  BY <1>1, <1>2, <1>3, <1>4, NextCases

\* The receipts keep what OperationReceipts promises: one decision, successes
\* only for effects that happened, completed calls only for successes, for any
\* number of leases, calls and surprises.
THEOREM ReceiptsAreKept == Spec => ImplementsReceipts
<1>1. Init => TypeOK /\ Sandboxed /\ ClaimsInv /\ OutcomeInv
  BY InitType, InitSandboxed, InitClaims, InitOutcome
<1>2. TypeOK /\ Sandboxed /\ ClaimsInv /\ OutcomeInv /\ [Next]_vars
      => (TypeOK /\ Sandboxed /\ ClaimsInv /\ OutcomeInv)'
  BY StepTypes, StepClaims, StepOutcome
<1>3. Init => Receipts!Init
  BY InitRefines
<1>4. TypeOK /\ Sandboxed /\ ClaimsInv /\ OutcomeInv /\ [Next]_vars
      => [Receipts!Next]_<<Decision, Happened, reported>>
  BY StepRefines
<1> QED
  BY <1>1, <1>2, <1>3, <1>4, PTL DEF Spec, ImplementsReceipts, Receipts!Spec, Decision, Happened

-----------------------------------------------------------------------------
(* What a completed call rests on, end to end.                             *)

\* A call that the Mission's ledger reports as completed has had its effect:
\* its handler began, or its sandbox job ran, once, and both are recorded.
CompletedHasEffect ==
    \A c \in Call : reported[c] = "completed" =>
        /\ receipt[KeyOf[c]].status = "succeeded"
        /\ IF KeyOf[c] \in SandboxTool
           THEN receipt[JobKey(c)].status = "succeeded" /\ jobs[JobKey(c)] = 1
           ELSE KeyOf[c] \in begun

\* The same of the abstract receipts, where it is inductive.
Sound ==
    /\ \A c \in Call : reported[c] = "completed" => Decision[KeyOf[c]] = "succeeded"
    /\ \A k \in Key : Decision[k] = "succeeded" =>
          IF k \in SandboxTool THEN Decision[SandboxKeyOf[k]] = "succeeded" ELSE k \in Happened

LEMMA InitSound == Receipts!Init => Sound
  BY KeyFacts DEF Receipts!Init, Sound, Decision

LEMMA NextSound ==
    ASSUME Sound, Receipts!Next \/ UNCHANGED <<Decision, Happened, reported>>
    PROVE  Sound'
<1>1. Decision = [x \in Key |-> Decision[x]]
  BY DEF Decision
<1>2. CASE UNCHANGED <<Decision, Happened, reported>>
  BY <1>2 DEF Sound
<1>3. ASSUME NEW k \in Key, Receipts!Happen(k) PROVE Sound'
  <2>1. Decision' = Decision /\ Happened \subseteq Happened' /\ reported' = reported
    BY <1>3 DEF Receipts!Happen, Decision, Happened
  <2> QED BY <2>1 DEF Sound
<1>4. ASSUME NEW k \in Key, NEW v \in {"succeeded", "failed"}, Receipts!Decide(k, v)
      PROVE  Sound'
  <2>1. /\ Decision[k] = "open" /\ Decision' = [Decision EXCEPT ![k] = v]
        /\ Happened' = Happened /\ reported' = reported
        /\ v = "succeeded" => IF k \in SandboxTool THEN Decision[SandboxKeyOf[k]] = "succeeded"
                                                   ELSE k \in Happened
    BY <1>4 DEF Receipts!Decide, Receipts!Confirmed, Decision, Happened, SandboxTool
  <2>2. \A j \in Key : Decision[j] = "succeeded" => Decision'[j] = "succeeded"
    BY <1>1, <2>1
  <2>3. ASSUME NEW j \in Key, Decision'[j] = "succeeded"
        PROVE  Decision[j] = "succeeded" \/ (j = k /\ v = "succeeded")
    BY <1>1, <2>1, <2>3
  <2> QED BY <2>1, <2>2, <2>3, KeyFacts DEF Sound
<1>5. ASSUME NEW C \in SUBSET Call, NEW completed \in SUBSET C, Receipts!Report(C, completed)
      PROVE  Sound'
  <2>1. /\ Decision' = Decision /\ Happened' = Happened
        /\ \A c \in completed : Decision[KeyOf[c]] = "succeeded"
        /\ \A c \in Call : reported'[c] = "completed" =>
              c \in completed \/ reported[c] = "completed"
    BY <1>5 DEF Receipts!Report, Decision, Happened
  <2> QED BY <2>1 DEF Sound
<1> QED
  BY <1>2, <1>3, <1>4, <1>5 DEF Receipts!Next

\* A completed call has had its effect, for any number of leases, calls and
\* surprises: a consequence of the promise and of the single run of a job.
THEOREM CompletedCallsHappened == Spec => []CompletedHasEffect
<1>1. Init => TypeOK /\ Sandboxed /\ ClaimsInv /\ OutcomeInv /\ OnceInv /\ Sound
  BY InitType, InitSandboxed, InitClaims, InitOutcome, InitOnce, InitRefines, InitSound
<1>2. TypeOK /\ Sandboxed /\ ClaimsInv /\ OutcomeInv /\ OnceInv /\ Sound /\ [Next]_vars
      => (TypeOK /\ Sandboxed /\ ClaimsInv /\ OutcomeInv /\ OnceInv /\ Sound)'
  BY StepTypes, StepClaims, StepOutcome, StepOnce, StepRefines, NextSound
<1>3. TypeOK /\ OnceInv /\ Sound => CompletedHasEffect
  <2> SUFFICES ASSUME TypeOK, OnceInv, Sound, NEW c \in Call, reported[c] = "completed"
               PROVE  /\ receipt[KeyOf[c]].status = "succeeded"
                      /\ IF KeyOf[c] \in SandboxTool
                         THEN receipt[JobKey(c)].status = "succeeded" /\ jobs[JobKey(c)] = 1
                         ELSE KeyOf[c] \in begun
    BY DEF CompletedHasEffect
  <2>1. KeyOf[c] \in ToolKey /\ KeyOf[c] \in Key /\ KeyOf[c] \notin SandboxKey
    BY KeyFacts
  <2>2. \A k \in Key : Decision[k] = "succeeded" => receipt[k].status = "succeeded"
    BY DEF Decision, Decided
  <2>3. Decision[KeyOf[c]] = "succeeded"
    BY DEF Sound
  <2>4. CASE KeyOf[c] \in SandboxTool
    <3>1. JobKey(c) \in SandboxKey /\ JobKey(c) \in Key /\ JobKey(c) \notin SandboxTool
      BY <2>4, KeyFacts, PlanAssumption DEF JobKey
    <3>2. Decision[JobKey(c)] = "succeeded"
      BY <2>1, <2>3, <2>4 DEF Sound, JobKey
    <3>3. JobKey(c) \in Happened
      BY <3>1, <3>2 DEF Sound
    <3>4. jobs[JobKey(c)] \in Nat /\ jobs[JobKey(c)] > 0 /\ jobs[JobKey(c)] <= 1
      <4>1. begun \subseteq ToolKey /\ JobKey(c) \notin ToolKey /\ jobs[JobKey(c)] \in Nat
        BY <3>1, KeyFacts DEF TypeOK
      <4>2. jobs[JobKey(c)] <= 1
        BY <3>1 DEF OnceInv
      <4> QED BY <3>3, <4>1, <4>2 DEF Happened
    <3> QED BY <2>1, <2>2, <2>3, <2>4, <3>1, <3>2, <3>4
  <2>5. CASE KeyOf[c] \notin SandboxTool
    <3>1. KeyOf[c] \in Happened
      BY <2>1, <2>3, <2>5 DEF Sound
    <3> QED BY <2>1, <2>2, <2>3, <2>5, <3>1 DEF Happened
  <2> QED BY <2>4, <2>5
<1> QED
  BY <1>1, <1>2, <1>3, PTL DEF Spec
=============================================================================
