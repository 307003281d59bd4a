------------------------- MODULE ReviewCommit_proofs -------------------------
(***************************************************************************)
(* Proofs about ReviewCommit: its types, the hold of an applying commit on *)
(* its candidate, the truth of every receipt, the survival of the user's   *)
(* edits, and the implementation of Materialization.                       *)
(***************************************************************************)
EXTENDS ReviewCommit, TLAPS

-----------------------------------------------------------------------------
(* The inductive invariant, one named part for each reason.                *)

\* Only a retired or finished candidate has lost its preview row.
OpenIsKept == item.status \in {"pending", "accepted"} => item.kept

\* A commit and its item are committed by the same command.
CommittedTogether == commit.status = "committed" => item.status = "committed"

\* What can be found in a target of each kind, as long as nothing is deleted.
TargetShape ==
    /\ kind = "asset" => target.content \in {"absent", "own"}
    /\ kind = "source" => target.content \in {"absent", "other", "own"}
    /\ kind = "create" => target.content \in {"absent", "other", "own", "edited"}
    /\ target.merged => kind = "source"
    /\ HasBase /\ target.content = "absent" => "delete" \in world
    /\ target.stamped > 0 => Replays \/ "delete" \in world

\* A call that is about to report success has a receipt for a write.
ReceiptIsTrue ==
    \A c \in Caller : call[c].pc = "finishing" =>
        Written \/ (kind = "update" /\ "delete" \in world)

\* No two calls work under one attempt.
OneEach ==
    \A c, d \in Caller :
        /\ call[c].pc \in Underway /\ call[d].pc \in Underway
        /\ call[c].attempt = call[d].attempt
        => c = d

\* Without slow calls, the attempt somebody works under is not taken over.
LeaseOutlastsCall ==
    \A c \in Caller :
        call[c].pc \in Underway /\ Current(c) => commit.live \/ "slow" \in world

\* In a calm world a written candidate keeps its commit until the receipt...
CalmKeepsCommit ==
    world = {} /\ Written => commit.status \in {"applying", "committed"}

\* ... because the attempt that fails has found nothing written.
CalmFailsUnwritten ==
    \A c \in Caller :
        world = {} /\ call[c].pc \in Failing /\ Current(c) => ~Written

Inv ==
    /\ TypeOK
    /\ ApplyingIsAccepted
    /\ OpenIsKept
    /\ CommittedTogether
    /\ TargetShape
    /\ ReceiptIsTrue
    /\ OneEach
    /\ LeaseOutlastsCall
    /\ CalmKeepsCommit
    /\ CalmFailsUnwritten

-----------------------------------------------------------------------------
(* Types.                                                                  *)

LEMMA IdleType == Idle \in CallState
  BY DEF Idle, CallState, Step

\* What a step makes of the calls: it moves one of them...
LEMMA Moved ==
    ASSUME TypeOK, NEW c \in Caller
    PROVE  /\ Return(c) \in [Caller -> CallState]
           /\ \A d \in Caller : Return(c)[d] = IF d = c THEN Idle ELSE call[d]
           /\ \A pc \in Step :
                 /\ Goto(c, pc) \in [Caller -> CallState]
                 /\ \A d \in Caller :
                       /\ Goto(c, pc)[d].pc = IF d = c THEN pc ELSE call[d].pc
                       /\ Goto(c, pc)[d].attempt = call[d].attempt
<1>1. call \in [Caller -> CallState]
  BY DEF TypeOK
<1>2. ASSUME NEW pc \in Step
      PROVE  /\ Goto(c, pc) \in [Caller -> CallState]
             /\ \A d \in Caller :
                    /\ Goto(c, pc)[d].pc = IF d = c THEN pc ELSE call[d].pc
                    /\ Goto(c, pc)[d].attempt = call[d].attempt
  BY <1>1 DEF Goto, CallState
<1> QED BY <1>1, <1>2, IdleType DEF Return

\* ... or outdates the run snapshots of them all.
LEMMA OutdatedCalls ==
    ASSUME NEW f \in [Caller -> CallState]
    PROVE  /\ Outdated(f) \in [Caller -> CallState]
           /\ \A d \in Caller : /\ Outdated(f)[d].pc = f[d].pc
                                /\ Outdated(f)[d].attempt = f[d].attempt
  BY DEF Outdated, CallState

LEMMA InitType == ASSUME Init PROVE TypeOK
<1> USE ReviewAssumption DEF Init
<1>1. kind \in AllKinds /\ world \in SUBSET AllSurprises /\ edits \in Nat
  OBVIOUS
<1>2. item \in [status : ItemStatus, expired : BOOLEAN, kept : BOOLEAN,
                stored : BOOLEAN]
  BY DEF ItemStatus
<1>3. /\ commit \in [status : CommitStatus, attempt : Nat, live : BOOLEAN]
      /\ target \in [content : Content, stamped : Nat, merged : BOOLEAN]
  BY DEF CommitStatus, Content
<1>4. /\ call \in [Caller -> CallState]
      /\ \A c \in Caller : call[c].attempt <= commit.attempt
  BY IdleType DEF Idle
<1> QED BY <1>1, <1>2, <1>3, <1>4 DEF TypeOK

\* A step of one call leaves the others where they are, and takes its own no
\* further than the commit's count of attempts.
LEMMA StepCalls ==
    ASSUME TypeOK, NEW c \in Caller, CommitStep(c)
    PROVE  /\ call' \in [Caller -> CallState]
           /\ \A d \in Caller : d # c => /\ call'[d].pc = call[d].pc
                                         /\ call'[d].attempt = call[d].attempt
           /\ call'[c].attempt <= commit'.attempt
           /\ commit.attempt <= commit'.attempt
<1>1. /\ call \in [Caller -> CallState]
      /\ commit \in [status : CommitStatus, attempt : Nat, live : BOOLEAN]
      /\ commit.attempt \in Nat
      /\ call[c].attempt \in Nat /\ call[c].attempt <= commit.attempt
  BY DEF TypeOK, CallState
<1>2. ASSUME NEW f \in [Caller -> CallState],
             \A d \in Caller : d # c => /\ f[d].pc = call[d].pc
                                        /\ f[d].attempt = call[d].attempt,
             f[c].attempt <= commit'.attempt,
             commit.attempt <= commit'.attempt,
             call' = f \/ call' = Outdated(f)
      PROVE  /\ call' \in [Caller -> CallState]
             /\ \A d \in Caller : d # c => /\ call'[d].pc = call[d].pc
                                           /\ call'[d].attempt = call[d].attempt
             /\ call'[c].attempt <= commit'.attempt
             /\ commit.attempt <= commit'.attempt
  BY <1>2, OutdatedCalls
<1>3. CASE commit'.attempt = commit.attempt /\
           \E f : /\ call' = f \/ call' = Outdated(f)
                  /\ f = Return(c) \/ \E pc \in Step : f = Goto(c, pc)
  <2>1. PICK f : /\ call' = f \/ call' = Outdated(f)
                 /\ f = Return(c) \/ \E pc \in Step : f = Goto(c, pc)
    BY <1>3
  <2>2. /\ f \in [Caller -> CallState]
        /\ \A d \in Caller : d # c => /\ f[d].pc = call[d].pc
                                      /\ f[d].attempt = call[d].attempt
        /\ f[c].attempt <= commit.attempt
    BY <1>1, <2>1, Moved DEF Idle
  <2>3. commit.attempt <= commit.attempt
    BY <1>1
  <2> QED BY <1>2, <1>3, <2>1, <2>2, <2>3
<1> USE DEF Step, Underway, Failing
<1>4. CASE ReadItem(c)
  <2> DEFINE r == [pc |-> "reading", attempt |-> 0, fresh |-> TRUE]
  <2>1. r \in CallState /\ r.attempt = 0
    BY DEF CallState
  <2>2. call' = [call EXCEPT ![c] = r] /\ commit' = commit
    BY <1>4 DEF ReadItem
  <2> HIDE DEF r
  <2> QED BY <1>1, <2>1, <2>2
<1>5. CASE StartCommit(c)
  <2> DEFINE r == [pc |-> "writing", fresh |-> FALSE,
                   attempt |-> commit.attempt + 1]
             f == [call EXCEPT ![c] = r]
  <2>1. r \in CallState /\ r.attempt = commit.attempt + 1
    BY <1>1 DEF CallState
  <2>2. call' = Outdated(f) /\ commit'.attempt = commit.attempt + 1
    BY <1>5 DEF StartCommit
  <2> HIDE DEF r
  <2>3. /\ f \in [Caller -> CallState] /\ f[c].attempt = commit.attempt + 1
        /\ \A d \in Caller : d # c => f[d] = call[d]
    BY <1>1, <2>1
  <2> HIDE DEF f
  <2> QED BY <1>1, <1>2, <2>2, <2>3
<1>6. CASE ReadCommit(c) \/ CheckPreview(c) \/ CheckTarget(c)
  BY <1>3, <1>6 DEF ReadCommit, CheckPreview, CheckTarget
<1>7. CASE RecordCommit(c) \/ FindCommit(c)
  BY <1>1, <1>3, <1>7 DEF RecordCommit, FindCommit
<1>8. CASE TakeReceipt(c) \/ WriteTarget(c) \/ RefuseWrite(c) \/ RefuseAttempt(c)
  BY <1>3, <1>8 DEF TakeReceipt, WriteTarget, RefuseWrite, RefuseAttempt
<1>9. CASE FinishCommitted(c) \/ FinishFailed(c)
  BY <1>1, <1>3, <1>9 DEF FinishCommitted, FinishFailed
<1>10. CASE Supersede(c) \/ ClearPreview(c) \/ Abandon(c)
  BY <1>3, <1>10 DEF Supersede, ClearPreview, Abandon
<1> QED BY <1>4, <1>5, <1>6, <1>7, <1>8, <1>9, <1>10 DEF CommitStep

CommitTypes == commit \in [status : CommitStatus, attempt : Nat, live : BOOLEAN]

LEMMA StepCommit ==
    ASSUME TypeOK, NEW c \in Caller, CommitStep(c)
    PROVE  CommitTypes'
<1>1. CommitTypes
  BY DEF TypeOK, CommitTypes
<1> USE <1>1 DEF CommitTypes, CommitStatus
<1>2. CASE commit' = commit
  BY <1>2
<1>3. CASE RecordCommit(c)
  BY <1>3 DEF RecordCommit
<1>4. CASE StartCommit(c)
  <2>1. commit.attempt + 1 \in Nat
    OBVIOUS
  <2> QED BY <1>4, <2>1 DEF StartCommit
<1>5. CASE FinishCommitted(c)
  BY <1>5 DEF FinishCommitted
<1>6. CASE FinishFailed(c)
  BY <1>6 DEF FinishFailed
<1> QED BY <1>2, <1>3, <1>4, <1>5, <1>6
        DEF CommitStep, ReadItem, ReadCommit, CheckPreview, CheckTarget,
            FindCommit, TakeReceipt, WriteTarget, RefuseWrite, RefuseAttempt,
            Supersede, ClearPreview, Abandon

LEMMA StepType ==
    ASSUME TypeOK, NEW c \in Caller, CommitStep(c)
    PROVE  TypeOK'
<1>0. CommitTypes'
  BY StepCommit
<1>1. /\ call' \in [Caller -> CallState]
      /\ \A d \in Caller : call'[d].attempt <= commit'.attempt
  <2>1. commit'.attempt \in Nat
    BY <1>0 DEF CommitTypes
  <2>2. \A d \in Caller : /\ call[d].attempt \in Nat
                          /\ call[d].attempt <= commit.attempt
                          /\ commit.attempt \in Nat
    BY DEF TypeOK, CallState
  <2> QED BY <2>1, <2>2, StepCalls
<1>2. CASE UNCHANGED <<kind, world, item, commit, target, edits>>
  BY <1>1, <1>2 DEF TypeOK
<1>3. CASE RecordCommit(c) \/ StartCommit(c) \/ FinishFailed(c)
  BY <1>0, <1>1, <1>3
     DEF TypeOK, CommitTypes, RecordCommit, StartCommit, FinishFailed
<1>4. CASE WriteTarget(c)
  <2>1. target \in [content : Content, stamped : Nat, merged : BOOLEAN]
    BY DEF TypeOK
  <2>2. [target EXCEPT !.merged = TRUE]
            \in [content : Content, stamped : Nat, merged : BOOLEAN]
    BY <2>1
  <2>3. [content |-> "own", stamped |-> target.stamped + 1,
         merged |-> target.merged]
            \in [content : Content, stamped : Nat, merged : BOOLEAN]
    BY <2>1 DEF Content
  <2> QED BY <1>1, <1>4, <2>2, <2>3 DEF TypeOK, WriteTarget
<1>5. CASE FinishCommitted(c)
  BY <1>1, <1>5 DEF TypeOK, FinishCommitted, CommitStatus, ItemStatus
<1>6. CASE Supersede(c) \/ ClearPreview(c)
  BY <1>1, <1>6 DEF TypeOK, Supersede, ClearPreview, ItemStatus
<1> QED BY <1>2, <1>3, <1>4, <1>5, <1>6
        DEF CommitStep, ReadItem, ReadCommit, CheckPreview, CheckTarget,
            FindCommit, TakeReceipt, RefuseWrite, RefuseAttempt, Abandon

\* The steps of the user, the Mission and the clock.
Surrounding ==
    \/ \E to \in ItemStatus \ {"committed"} : Decide(to)
    \/ Replace \/ MissionMoves
    \/ \E to \in Content : EditTarget(to)
    \/ DeleteTarget \/ PreviewExpires \/ LeaseExpires
    \/ RetirePreview \/ CleanFiles

\* They move no call.
LEMMA SurroundingCalls ==
    ASSUME TypeOK, Surrounding
    PROVE  /\ call' \in [Caller -> CallState]
           /\ \A d \in Caller : /\ call'[d].pc = call[d].pc
                                /\ call'[d].attempt = call[d].attempt
<1>1. call \in [Caller -> CallState] /\ (call' = call \/ call' = Outdated(call))
  BY DEF TypeOK, Surrounding, Decide, Replace, MissionMoves, EditTarget,
         DeleteTarget, PreviewExpires, LeaseExpires, RetirePreview, CleanFiles
<1> QED BY <1>1, OutdatedCalls

LEMMA SurroundingType == ASSUME TypeOK, Surrounding PROVE TypeOK'
<1>1. call' \in [Caller -> CallState]
  BY SurroundingCalls
<1>2. /\ commit'.attempt = commit.attempt
      /\ commit' \in [status : CommitStatus, attempt : Nat, live : BOOLEAN]
  BY DEF TypeOK, Surrounding, Decide, Replace, MissionMoves, EditTarget,
         DeleteTarget, PreviewExpires, LeaseExpires, RetirePreview, CleanFiles
<1>3. \A d \in Caller : call'[d].attempt <= commit'.attempt
  BY <1>2, SurroundingCalls DEF TypeOK
<1>4. CASE \E to \in ItemStatus \ {"committed"} : Decide(to)
  BY <1>1, <1>2, <1>3, <1>4 DEF TypeOK, Decide
<1>5. CASE Replace \/ RetirePreview
  BY <1>1, <1>2, <1>3, <1>5 DEF TypeOK, Replace, RetirePreview, ItemStatus
<1>6. CASE PreviewExpires \/ CleanFiles \/ MissionMoves \/ LeaseExpires
  BY <1>1, <1>2, <1>3, <1>6
     DEF TypeOK, PreviewExpires, CleanFiles, MissionMoves, LeaseExpires
<1>7. CASE DeleteTarget \/ \E to \in Content : EditTarget(to)
  BY <1>1, <1>2, <1>3, <1>7 DEF TypeOK, EditTarget, DeleteTarget, Content
<1> QED BY <1>4, <1>5, <1>6, <1>7 DEF Surrounding

LEMMA NextSplit ==
    ASSUME [Next]_vars
    PROVE  (\E c \in Caller : CommitStep(c)) \/ Surrounding \/ UNCHANGED vars
  BY DEF Next, Surrounding

LEMMA NextType == ASSUME TypeOK, [Next]_vars PROVE TypeOK'
<1>1. CASE UNCHANGED vars
  BY <1>1 DEF TypeOK, vars
<1> QED BY <1>1, NextSplit, StepType, SurroundingType

\* Every variable keeps its type, and no call works under an attempt the
\* commit has not counted.
THEOREM ReviewTypeCorrect == Spec => []TypeOK
  BY InitType, NextType, PTL DEF Spec

-----------------------------------------------------------------------------
(* What one step does to the calls, the commit and the target.             *)

\* Where a call gets to, and from where.
LEMMA StepPc ==
    ASSUME TypeOK, NEW c \in Caller, CommitStep(c)
    PROVE  /\ call'[c].pc = "finishing" =>
                  TakeReceipt(c) \/ WriteTarget(c)
           /\ call'[c].pc \in Failing => RefuseWrite(c) \/ RefuseAttempt(c)
           /\ call'[c].pc \in Underway => \/ StartCommit(c)
                                          \/ /\ call[c].pc = "writing"
                                             /\ call'[c].attempt = call[c].attempt
                                             /\ commit' = commit
<1>1. call \in [Caller -> CallState]
  BY DEF TypeOK
<1>2. ASSUME NEW pc \in Step, call' = Goto(c, pc) \/ call' = Outdated(Goto(c, pc))
      PROVE  call'[c].pc = pc /\ call'[c].attempt = call[c].attempt
  BY <1>2, Moved, OutdatedCalls
<1>3. ASSUME call' = Return(c) \/ call' = Outdated(Return(c))
      PROVE  call'[c].pc = "idle"
  BY <1>3, Moved, OutdatedCalls DEF Idle
<1> USE DEF Step, Underway, Failing
<1>4. CASE ReadItem(c)
  <2>1. call'[c].pc = "reading"
    BY <1>1, <1>4 DEF ReadItem
  <2> QED BY <2>1
<1>5. CASE StartCommit(c)
  <2> DEFINE r == [pc |-> "writing", fresh |-> FALSE,
                   attempt |-> commit.attempt + 1]
             f == [call EXCEPT ![c] = r]
  <2>1. r \in CallState /\ r.pc = "writing"
    BY DEF TypeOK, CallState
  <2>2. call' = Outdated(f)
    BY <1>5 DEF StartCommit
  <2> HIDE DEF r
  <2>3. f \in [Caller -> CallState] /\ f[c].pc = "writing"
    BY <1>1, <2>1
  <2> HIDE DEF f
  <2> QED BY <1>5, <2>2, <2>3, OutdatedCalls
<1>6. CASE ReadCommit(c) \/ CheckPreview(c) \/ CheckTarget(c) \/ FindCommit(c)
  <2>1. \/ call' = Return(c)
        \/ \E pc \in {"creating", "checking", "superseding", "targeting",
                      "starting"} : call' = Goto(c, pc)
    BY <1>6 DEF ReadCommit, CheckPreview, CheckTarget, FindCommit
  <2> QED BY <1>2, <1>3, <2>1
<1>7. CASE RecordCommit(c)
  BY <1>2, <1>7 DEF RecordCommit
<1>8. CASE TakeReceipt(c) \/ WriteTarget(c)
  BY <1>2, <1>8 DEF TakeReceipt, WriteTarget
<1>9. CASE RefuseWrite(c) \/ RefuseAttempt(c)
  <2>1. \E pc \in Failing : call' = Goto(c, pc)
    BY <1>9 DEF RefuseWrite, RefuseAttempt
  <2>2. call[c].pc = "writing" /\ commit' = commit
    BY <1>9 DEF RefuseWrite, RefuseAttempt
  <2> QED BY <1>2, <1>9, <2>1, <2>2
<1>10. CASE FinishCommitted(c) \/ FinishFailed(c)
  <2>1. \/ call' = Outdated(Return(c))
        \/ \E pc \in {"clearing", "superseding"} : call' = Outdated(Goto(c, pc))
    BY <1>10 DEF FinishCommitted, FinishFailed
  <2> QED BY <1>2, <1>3, <2>1
<1>11. CASE Supersede(c) \/ ClearPreview(c) \/ Abandon(c)
  BY <1>3, <1>11 DEF Supersede, ClearPreview, Abandon
<1> QED BY <1>4, <1>5, <1>6, <1>7, <1>8, <1>9, <1>10, <1>11 DEF CommitStep

\* What the target keeps through every step.
LEMMA TargetKeeps ==
    ASSUME TypeOK, [Next]_vars
    PROVE  /\ kind' = kind /\ world' = world
           /\ Written => Written'
           /\ \/ target' = target
              \/ \E c \in Caller : WriteTarget(c)
              \/ \E to \in Content : EditTarget(to)
              \/ DeleteTarget
<1>1. target \in [content : Content, stamped : Nat, merged : BOOLEAN]
  BY DEF TypeOK
<1>2. CASE UNCHANGED vars
  BY <1>2 DEF vars, Written
<1>3. CASE \E c \in Caller : CommitStep(c)
  <2> PICK c \in Caller : CommitStep(c)
    BY <1>3
  <2>1. CASE WriteTarget(c)
    <3>1. CASE target' = [target EXCEPT !.merged = TRUE]
      BY <1>1, <2>1, <3>1 DEF WriteTarget, Written
    <3>2. CASE target' = [content |-> "own", stamped |-> target.stamped + 1,
                          merged |-> target.merged]
      BY <1>1, <2>1, <3>2 DEF WriteTarget, Written
    <3> QED BY <2>1, <3>1, <3>2 DEF WriteTarget
  <2>2. CASE UNCHANGED <<kind, world, target>>
    BY <2>2 DEF Written
  <2> QED BY <2>1, <2>2
          DEF CommitStep, ReadItem, ReadCommit, CheckPreview, CheckTarget,
              RecordCommit, FindCommit, StartCommit, TakeReceipt, RefuseWrite,
              RefuseAttempt, FinishCommitted, FinishFailed, Supersede,
              ClearPreview, Abandon
<1>4. CASE Surrounding
  <2>1. CASE DeleteTarget \/ \E to \in Content : EditTarget(to)
    BY <1>1, <2>1 DEF DeleteTarget, EditTarget, Written
  <2>2. CASE UNCHANGED <<kind, world, target>>
    BY <2>2 DEF Written
  <2> QED BY <1>4, <2>1, <2>2
          DEF Surrounding, Decide, Replace, MissionMoves, PreviewExpires,
              LeaseExpires, RetirePreview, CleanFiles
<1> QED BY <1>2, <1>3, <1>4, NextSplit

\* What the commit keeps: it changes by four commands and by its clock.
LEMMA CommitKeeps ==
    ASSUME [Next]_vars
    PROVE  \/ commit' = commit
           \/ \E c \in Caller : \/ RecordCommit(c) \/ StartCommit(c)
                                \/ FinishCommitted(c) \/ FinishFailed(c)
           \/ LeaseExpires
  BY DEF Next, vars, CommitStep, ReadItem, ReadCommit, CheckPreview, CheckTarget,
         FindCommit, TakeReceipt, WriteTarget, RefuseWrite, RefuseAttempt,
         Supersede, ClearPreview, Abandon, Decide, Replace, MissionMoves,
         EditTarget, DeleteTarget, PreviewExpires, RetirePreview, CleanFiles

-----------------------------------------------------------------------------
(* The invariant holds initially and is kept, part by part.                *)

LEMMA InitInv == ASSUME Init PROVE Inv
<1>1. TypeOK
  BY InitType
<1>2. commit.status = "none" /\ item.status = "pending" /\ item.kept
  BY DEF Init
<1>3. \A c \in Caller : call[c].pc = "idle"
  BY DEF Init, Idle
<1>4. target.stamped = 0 /\ ~target.merged
  BY DEF Init
<1>5. TargetShape
  BY <1>4 DEF Init, TargetShape, HasBase
<1> QED
  BY <1>1, <1>2, <1>3, <1>4, <1>5
     DEF Inv, ApplyingIsAccepted, OpenIsKept, CommittedTogether, ReceiptIsTrue,
         OneEach, LeaseOutlastsCall, CalmKeepsCommit, CalmFailsUnwritten,
         Written, Underway, Failing

\* An applying commit holds its candidate: a decision, a replacement, a failed
\* call and the cleanup all stop at it, and only an accepted candidate, whose
\* row is kept, gets an attempt.
LEMMA HoldKept ==
    ASSUME TypeOK, ApplyingIsAccepted, OpenIsKept, CommittedTogether, [Next]_vars
    PROVE  ApplyingIsAccepted' /\ OpenIsKept' /\ CommittedTogether'
<1> USE DEF ApplyingIsAccepted, OpenIsKept, CommittedTogether
<1>1. /\ item \in [status : ItemStatus, expired : BOOLEAN, kept : BOOLEAN,
                   stored : BOOLEAN]
      /\ commit \in [status : CommitStatus, attempt : Nat, live : BOOLEAN]
  BY DEF TypeOK
<1>2. CASE UNCHANGED <<item, commit>>
  BY <1>2
<1>3. ASSUME NEW c \in Caller, RecordCommit(c) \/ StartCommit(c)
      PROVE  ApplyingIsAccepted' /\ OpenIsKept' /\ CommittedTogether'
  BY <1>1, <1>3 DEF RecordCommit, StartCommit
<1>4. ASSUME NEW c \in Caller, FinishCommitted(c) \/ FinishFailed(c)
      PROVE  ApplyingIsAccepted' /\ OpenIsKept' /\ CommittedTogether'
  BY <1>1, <1>4 DEF FinishCommitted, FinishFailed
<1>5. ASSUME NEW c \in Caller, Supersede(c) \/ ClearPreview(c)
      PROVE  ApplyingIsAccepted' /\ OpenIsKept' /\ CommittedTogether'
  BY <1>1, <1>5 DEF Supersede, ClearPreview
<1>6. ASSUME NEW to \in ItemStatus \ {"committed"}, Decide(to)
      PROVE  ApplyingIsAccepted' /\ OpenIsKept' /\ CommittedTogether'
  BY <1>1, <1>6 DEF Decide
<1>7. CASE Replace
  BY <1>1, <1>7 DEF Replace, HoldsPreview
<1>8. CASE RetirePreview
  BY <1>1, <1>8 DEF RetirePreview, HoldsPreview
<1>9. CASE PreviewExpires \/ CleanFiles \/ LeaseExpires
  BY <1>1, <1>9 DEF PreviewExpires, CleanFiles, LeaseExpires
<1> QED BY <1>2, <1>3, <1>4, <1>5, <1>6, <1>7, <1>8, <1>9
        DEF Next, vars, CommitStep, ReadItem, ReadCommit, CheckPreview,
            CheckTarget, FindCommit, TakeReceipt, WriteTarget, RefuseWrite,
            RefuseAttempt, Abandon, MissionMoves, EditTarget, DeleteTarget

\* What can be found in a target.
LEMMA ShapeKept ==
    ASSUME TypeOK, TargetShape, [Next]_vars
    PROVE  TargetShape'
<1> USE DEF TargetShape, HasBase, Replays
<1>1. /\ target \in [content : Content, stamped : Nat, merged : BOOLEAN]
      /\ kind' = kind /\ world' = world /\ kind \in AllKinds
  BY TargetKeeps DEF TypeOK
<1>2. CASE target' = target
  BY <1>1, <1>2
<1>3. ASSUME NEW c \in Caller, WriteTarget(c)
      PROVE  TargetShape'
  <2>1. CASE target' = [target EXCEPT !.merged = TRUE] /\ kind = "source"
    BY <1>1, <2>1
  <2>2. CASE target' = [content |-> "own", stamped |-> target.stamped + 1,
                        merged |-> target.merged]
    BY <1>1, <2>2 DEF AllKinds
  <2> QED BY <1>3, <2>1, <2>2 DEF WriteTarget
<1>4. ASSUME NEW to \in Content, EditTarget(to)
      PROVE  TargetShape'
  BY <1>1, <1>4 DEF EditTarget, Content, AllKinds
<1>5. CASE DeleteTarget
  BY <1>1, <1>5 DEF DeleteTarget
<1> QED BY <1>2, <1>3, <1>4, <1>5, TargetKeeps

\* A receipt is made by a write or of what a write has left.
LEMMA ReceiptKept ==
    ASSUME TypeOK, TargetShape, ReceiptIsTrue, [Next]_vars
    PROVE  ReceiptIsTrue'
<1>1. /\ kind' = kind /\ world' = world
      /\ Written => Written'
  BY TargetKeeps
<1>2. ASSUME NEW c \in Caller, CommitStep(c)
      PROVE  ReceiptIsTrue'
  <2>1. CASE TakeReceipt(c)
    <3>1. Written \/ (kind = "update" /\ "delete" \in world)
      BY <2>1 DEF TakeReceipt, HasReceipt, Replays, Vanished, TargetShape,
                  HasBase, Written
    <3> QED BY <1>1, <3>1 DEF ReceiptIsTrue
  <2>2. CASE WriteTarget(c)
    <3>1. Written'
      BY <2>2 DEF WriteTarget, Written, TypeOK
    <3> QED BY <3>1 DEF ReceiptIsTrue
  <2>3. CASE call'[c].pc # "finishing"
    BY <1>1, <1>2, <2>3, StepCalls DEF ReceiptIsTrue
  <2> QED BY <1>2, <2>1, <2>2, <2>3, StepPc
<1>3. CASE Surrounding
  BY <1>1, <1>3, SurroundingCalls DEF ReceiptIsTrue
<1>4. CASE UNCHANGED vars
  BY <1>1, <1>4 DEF ReceiptIsTrue, vars
<1> QED BY <1>2, <1>3, <1>4, NextSplit

\* A started attempt is new, and nothing else starts one.
LEMMA OneEachKept ==
    ASSUME TypeOK, OneEach, [Next]_vars
    PROVE  OneEach'
<1>1. ASSUME NEW c \in Caller, CommitStep(c)
      PROVE  OneEach'
  <2>1. \A d \in Caller : d # c => /\ call'[d].pc = call[d].pc
                                   /\ call'[d].attempt = call[d].attempt
    BY <1>1, StepCalls
  <2>2. CASE StartCommit(c)
    <3>1. call'[c].attempt = commit.attempt + 1
      <4> DEFINE r == [pc |-> "writing", fresh |-> FALSE,
                       attempt |-> commit.attempt + 1]
                 f == [call EXCEPT ![c] = r]
      <4>1. r \in CallState /\ r.attempt = commit.attempt + 1
        BY DEF TypeOK, CallState, Step, Underway
      <4>2. call' = Outdated(f) /\ call \in [Caller -> CallState]
        BY <2>2 DEF StartCommit, TypeOK
      <4> HIDE DEF r
      <4>3. f \in [Caller -> CallState] /\ f[c].attempt = commit.attempt + 1
        BY <4>1, <4>2
      <4> HIDE DEF f
      <4> QED BY <4>2, <4>3, OutdatedCalls
    <3>2. \A d \in Caller : /\ call[d].attempt \in Nat /\ commit.attempt \in Nat
                            /\ call[d].attempt <= commit.attempt
      BY DEF TypeOK, CallState
    <3>3. \A d \in Caller : d # c => call'[d].attempt # call'[c].attempt
      BY <2>1, <3>1, <3>2
    <3> QED BY <2>1, <3>3 DEF OneEach
  <2>3. CASE call'[c].pc \notin Underway
    BY <2>1, <2>3 DEF OneEach
  <2>4. CASE call[c].pc = "writing" /\ call'[c].attempt = call[c].attempt
    BY <2>1, <2>4 DEF OneEach, Underway
  <2> QED BY <1>1, <2>2, <2>3, <2>4, StepPc
<1>2. CASE Surrounding
  BY <1>2, SurroundingCalls DEF OneEach
<1>3. CASE UNCHANGED vars
  BY <1>3 DEF OneEach, vars
<1> QED BY <1>1, <1>2, <1>3, NextSplit

\* Only WriteTarget makes a candidate written.
LEMMA OnlyWriteWrites ==
    ASSUME TypeOK, [Next]_vars, \A c \in Caller : ~WriteTarget(c)
    PROVE  target'.stamped = target.stamped /\ target'.merged = target.merged
<1>1. target \in [content : Content, stamped : Nat, merged : BOOLEAN]
  BY DEF TypeOK
<1> QED BY <1>1, TargetKeeps DEF EditTarget, DeleteTarget

LEMMA WriteWrites ==
    ASSUME TypeOK, NEW c \in Caller, WriteTarget(c)
    PROVE  Written'
  BY DEF WriteTarget, Written, TypeOK

\* A lease that runs out under a call is a surprise.
LEMMA LeaseKept ==
    ASSUME TypeOK, LeaseOutlastsCall, [Next]_vars
    PROVE  LeaseOutlastsCall'
<1>1. world' = world
  BY TargetKeeps
<1>2. commit \in [status : CommitStatus, attempt : Nat, live : BOOLEAN]
  BY DEF TypeOK
<1>3. ASSUME NEW c \in Caller, CommitStep(c)
      PROVE  LeaseOutlastsCall'
  <2>1. CASE StartCommit(c)
    BY <1>2, <2>1 DEF StartCommit, LeaseOutlastsCall
  <2>2. CASE RecordCommit(c) \/ FinishCommitted(c) \/ FinishFailed(c)
    BY <1>2, <2>2
       DEF RecordCommit, FinishCommitted, FinishFailed, LeaseOutlastsCall, Current
  <2>3. CASE commit' = commit /\ ~StartCommit(c)
    <3>1. call'[c].pc \in Underway =>
              call[c].pc \in Underway /\ call'[c].attempt = call[c].attempt
      BY <1>3, <2>3, StepPc DEF Underway
    <3>2. \A d \in Caller : d # c => /\ call'[d].pc = call[d].pc
                                     /\ call'[d].attempt = call[d].attempt
      BY <1>3, StepCalls
    <3> QED BY <1>1, <2>3, <3>1, <3>2 DEF LeaseOutlastsCall, Current
  <2> QED BY <1>3, <2>1, <2>2, <2>3
          DEF CommitStep, ReadItem, ReadCommit, CheckPreview, CheckTarget,
              FindCommit, TakeReceipt, WriteTarget, RefuseWrite, RefuseAttempt,
              Supersede, ClearPreview, Abandon
<1>4. CASE LeaseExpires
  BY <1>1, <1>2, <1>4 DEF LeaseExpires, LeaseOutlastsCall, Current
<1>5. CASE Surrounding /\ ~LeaseExpires
  <2>1. commit' = commit
    BY <1>5 DEF Surrounding, Decide, Replace, MissionMoves, EditTarget,
                DeleteTarget, PreviewExpires, RetirePreview, CleanFiles
  <2> QED BY <1>1, <1>5, <2>1, SurroundingCalls DEF LeaseOutlastsCall, Current
<1>6. CASE UNCHANGED vars
  BY <1>6 DEF LeaseOutlastsCall, Current, vars
<1> QED BY <1>3, <1>4, <1>5, <1>6, NextSplit

\* In a calm world nothing makes a commit fail that has written.
LEMMA CalmKept ==
    ASSUME TypeOK, ApplyingIsAccepted, CalmKeepsCommit, CalmFailsUnwritten,
           [Next]_vars
    PROVE  CalmKeepsCommit'
<1>1. commit \in [status : CommitStatus, attempt : Nat, live : BOOLEAN]
  BY DEF TypeOK
<1>2. SUFFICES ASSUME world = {}, Written'
               PROVE  commit'.status \in {"applying", "committed"}
  BY TargetKeeps DEF CalmKeepsCommit
<1>3. CASE \E c \in Caller : WriteTarget(c)
  BY <1>3 DEF WriteTarget, Authorized
<1>4. CASE \A c \in Caller : ~WriteTarget(c)
  <2>1. Written /\ commit.status \in {"applying", "committed"}
    BY <1>2, <1>4, OnlyWriteWrites DEF Written, CalmKeepsCommit
  <2>2. CASE commit' = commit
    BY <2>1, <2>2
  <2>3. ASSUME NEW c \in Caller,
               RecordCommit(c) \/ StartCommit(c) \/ FinishCommitted(c)
        PROVE  commit'.status \in {"applying", "committed"}
    <3>1. ~RecordCommit(c)
      BY <2>1 DEF RecordCommit
    <3>2. CASE StartCommit(c)
      BY <3>2 DEF StartCommit
    <3>3. CASE FinishCommitted(c)
      BY <1>1, <3>3 DEF FinishCommitted
    <3> QED BY <2>3, <3>1, <3>2, <3>3
  <2>4. ASSUME NEW c \in Caller, FinishFailed(c)
        PROVE  FALSE
    BY <1>2, <2>1, <2>4 DEF FinishFailed, CalmFailsUnwritten
  <2>5. CASE LeaseExpires
    BY <1>1, <2>1, <2>5 DEF LeaseExpires
  <2> QED BY <2>2, <2>3, <2>4, <2>5, CommitKeeps
<1> QED BY <1>3, <1>4

\* The call that reports a failure had the authority to find a record, and
\* found none; and no other call writes under its attempt.
LEMMA CalmFailsKept ==
    ASSUME TypeOK, ApplyingIsAccepted, TargetShape, OneEach, LeaseOutlastsCall,
           CalmFailsUnwritten, [Next]_vars
    PROVE  CalmFailsUnwritten'
<1>1. SUFFICES ASSUME NEW d \in Caller, world = {}, call'[d].pc \in Failing,
                      commit'.status = "applying",
                      commit'.attempt = call'[d].attempt
               PROVE  ~Written'
  BY TargetKeeps DEF CalmFailsUnwritten, Current
<1>2. /\ commit \in [status : CommitStatus, attempt : Nat, live : BOOLEAN]
      /\ call[d].attempt \in Nat /\ call[d].attempt <= commit.attempt
  BY DEF TypeOK, CallState
<1>3. ASSUME call[d].pc \in Failing, call'[d].attempt = call[d].attempt,
             commit'.attempt = commit.attempt, commit'.status = commit.status
      PROVE  ~Written'
  <2>1. ~Written /\ call[d].attempt = commit.attempt
    BY <1>1, <1>3 DEF CalmFailsUnwritten, Current
  <2>2. ASSUME NEW c \in Caller, WriteTarget(c)
        PROVE  FALSE
    <3>1. call[c].pc = "writing" /\ call[c].attempt = call[d].attempt
      BY <2>1, <2>2 DEF WriteTarget, Authorized
    <3>2. c = d
      BY <1>3, <3>1 DEF OneEach, Underway
    <3> QED BY <1>3, <3>1, <3>2 DEF Failing
  <2> QED BY <2>1, <2>2, OnlyWriteWrites DEF Written
<1>4. ASSUME NEW c \in Caller, CommitStep(c)
      PROVE  ~Written'
  <2>1. CASE RecordCommit(c) \/ FinishCommitted(c) \/ FinishFailed(c)
    BY <1>1, <1>2, <2>1 DEF RecordCommit, FinishCommitted, FinishFailed
  <2>2. CASE StartCommit(c) /\ d # c
    <3>1. call'[d].attempt = call[d].attempt /\ commit'.attempt = commit.attempt + 1
      BY <1>4, <2>2, StepCalls DEF StartCommit
    <3> QED BY <1>1, <1>2, <3>1
  <2>3. CASE commit' = commit /\ d # c
    <3>1. call'[d].pc = call[d].pc /\ call'[d].attempt = call[d].attempt
      BY <1>4, <2>3, StepCalls
    <3> QED BY <1>1, <1>3, <2>3, <3>1
  <2>4. CASE d = c
    <3>1. RefuseWrite(c) /\ call'[c].attempt = call[c].attempt
      <4>1. RefuseWrite(c) \/ RefuseAttempt(c)
        BY <1>1, <1>4, <2>4, StepPc
      <4>2. RefuseWrite(c)
        BY <1>1, <4>1 DEF RefuseAttempt
      <4>3. ~StartCommit(c)
        BY <4>2 DEF RefuseWrite, StartCommit
      <4> QED BY <1>1, <1>4, <2>4, <4>2, <4>3, StepPc DEF Underway, Failing
    <3>2. /\ call[c].pc = "writing" /\ commit' = commit /\ target' = target
          /\ ~HasReceipt(c) /\ ~(Authorized(c) /\ Writable)
      BY <3>1 DEF RefuseWrite
    <3>3. Authorized(c)
      BY <1>1, <2>4, <3>1, <3>2
         DEF Authorized, Current, LeaseOutlastsCall, ApplyingIsAccepted, Underway
    <3>4. ~Replays /\ ~Writable
      BY <3>2, <3>3 DEF HasReceipt
    <3>5. target.stamped \in Nat /\ ~(target.stamped > 0)
      BY <1>1, <3>4 DEF TargetShape, TypeOK
    <3>6. ~target.merged
      BY <3>4, <3>5 DEF TargetShape, Writable
    <3> QED BY <3>2, <3>5, <3>6 DEF Written
  <2> QED BY <1>4, <2>1, <2>2, <2>3, <2>4
          DEF CommitStep, ReadItem, ReadCommit, CheckPreview, CheckTarget,
              FindCommit, TakeReceipt, WriteTarget, RefuseWrite, RefuseAttempt,
              Supersede, ClearPreview, Abandon
<1>5. CASE Surrounding
  <2>1. commit'.attempt = commit.attempt /\ commit'.status = commit.status
    BY <1>2, <1>5
       DEF Surrounding, Decide, Replace, MissionMoves, EditTarget, DeleteTarget,
           PreviewExpires, LeaseExpires, RetirePreview, CleanFiles
  <2> QED BY <1>1, <1>3, <1>5, <2>1, SurroundingCalls
<1>6. CASE UNCHANGED vars
  BY <1>1, <1>3, <1>6 DEF vars
<1> QED BY <1>4, <1>5, <1>6, NextSplit

LEMMA NextInv == ASSUME Inv, [Next]_vars PROVE Inv'
  BY NextType, HoldKept, ShapeKept, ReceiptKept, OneEachKept, LeaseKept,
     CalmKept, CalmFailsKept DEF Inv

LEMMA Invariant == Spec => []Inv
  BY InitInv, NextInv, PTL DEF Spec

-----------------------------------------------------------------------------
(* The theorems.                                                           *)

\* While an attempt may write, its candidate is accepted and its preview row
\* is kept.
THEOREM ApplyingHoldsCandidate == Spec => []ApplyingIsAccepted
  BY Invariant, PTL DEF Inv

\* One record of the target's domain carries the id of the commit, whatever
\* the number of calls and attempts.
THEOREM WriteHappensOnce == Spec => []OneWrite
<1>1. Init => OneWrite
  BY DEF Init, OneWrite
<1>2. ASSUME Inv, OneWrite, [Next]_vars
      PROVE  OneWrite'
  <2>1. target \in [content : Content, stamped : Nat, merged : BOOLEAN]
    BY <1>2 DEF Inv, TypeOK
  <2>2. ASSUME NEW c \in Caller, WriteTarget(c)
        PROVE  OneWrite'
    <3>1. target.stamped = 0
      BY <2>2 DEF WriteTarget, Writable
    <3>2. \/ target'.stamped = target.stamped
          \/ target'.stamped = target.stamped + 1
      BY <2>1, <2>2 DEF WriteTarget
    <3> QED BY <3>1, <3>2 DEF OneWrite
  <2> QED BY <1>2, <2>2, OnlyWriteWrites DEF Inv, OneWrite
<1> QED BY <1>1, <1>2, Invariant, PTL DEF Spec

\* An item reported as saved has been written, but for an update of a deleted
\* file.
THEOREM SavedIsWritten == Spec => []CommittedIsWritten
<1>1. Init => CommittedIsWritten
  BY DEF Init, CommittedIsWritten
<1>2. ASSUME Inv, CommittedIsWritten, [Next]_vars
      PROVE  CommittedIsWritten'
  <2>1. kind' = kind /\ world' = world /\ (Written => Written')
    BY <1>2, TargetKeeps DEF Inv
  <2>2. ASSUME NEW c \in Caller, FinishCommitted(c)
        PROVE  CommittedIsWritten'
    <3>1. Written \/ (kind = "update" /\ "delete" \in world)
      BY <1>2, <2>2 DEF FinishCommitted, Inv, ReceiptIsTrue
    <3> QED BY <2>1, <3>1 DEF CommittedIsWritten
  <2>3. CASE \A c \in Caller : ~FinishCommitted(c)
    <3>1. item'.status = "committed" => item.status = "committed"
      BY <1>2, <2>3
         DEF Next, vars, CommitStep, ReadItem, ReadCommit, CheckPreview,
             CheckTarget, RecordCommit, FindCommit, StartCommit, TakeReceipt,
             WriteTarget, RefuseWrite, RefuseAttempt, FinishFailed, Supersede,
             ClearPreview, Abandon, Decide, Replace, MissionMoves, EditTarget,
             DeleteTarget, PreviewExpires, LeaseExpires, RetirePreview,
             CleanFiles, Inv, TypeOK
    <3> QED BY <1>2, <2>1, <3>1 DEF CommittedIsWritten
  <2> QED BY <2>2, <2>3
<1> QED BY <1>1, <1>2, Invariant, PTL DEF Spec

\* A candidate that is not accepted (any more) is not written by a late call.
THEOREM WithdrawnStaysUnwritten == Spec => WithdrawnIsNotWritten
<1>1. ASSUME TypeOK, [Next]_vars
      PROVE  [item.status # "accepted" =>
                  UNCHANGED <<target.stamped, target.merged>>]_vars
  <2>1. ASSUME NEW c \in Caller, WriteTarget(c)
        PROVE  item.status = "accepted"
    BY <2>1 DEF WriteTarget, Authorized
  <2> QED BY <1>1, <2>1, OnlyWriteWrites
<1> QED BY <1>1, ReviewTypeCorrect, PTL DEF Spec, WithdrawnIsNotWritten

\* What the user has put in the target is not replaced.
THEOREM NoEditIsLost == Spec => UserEditSurvives
<1>1. ASSUME Inv, [Next]_vars
      PROVE  [target.content \in {"edited", "other"} =>
                  target'.content # "own"]_vars
  <2>1. /\ target \in [content : Content, stamped : Nat, merged : BOOLEAN]
        /\ TargetShape /\ kind \in AllKinds
    BY <1>1 DEF Inv, TypeOK
  <2>2. SUFFICES ASSUME target.content \in {"edited", "other"}
                 PROVE  target'.content # "own"
    OBVIOUS
  <2>3. CASE target' = target
    BY <2>2, <2>3
  <2>4. ASSUME NEW c \in Caller, WriteTarget(c)
        PROVE  target'.content # "own"
    <3>1. kind = "source" /\ target.content # "absent"
      BY <2>1, <2>2, <2>4 DEF WriteTarget, Writable, TargetShape, AllKinds
    <3> QED BY <2>1, <2>2, <2>4, <3>1 DEF WriteTarget
  <2>5. ASSUME NEW to \in Content, EditTarget(to)
        PROVE  target'.content # "own"
    BY <2>1, <2>5 DEF EditTarget
  <2>6. CASE DeleteTarget
    BY <2>1, <2>6 DEF DeleteTarget
  <2> QED BY <1>1, <2>3, <2>4, <2>5, <2>6, TargetKeeps DEF Inv
<1> QED BY <1>1, Invariant, PTL DEF Spec, UserEditSurvives

\* Taking an open candidate back finds it unwritten in a calm world: were it
\* written, an applying commit would hold it, or it would be committed.
LEMMA TakenBackUnwritten ==
    ASSUME Inv, world = {}, item.status \in {"pending", "accepted"},
           commit.status # "applying"
    PROVE  ~Written
  BY DEF Inv, CalmKeepsCommit, CommittedTogether

\* Every step in a calm world is a step of the promise or leaves it alone.
LEMMA CalmStep ==
    ASSUME Inv, [Next]_vars, world = {}
    PROVE  \/ Outcome' = Outcome
           \/ Outcome = "proposed" /\ Outcome' = "written"
           \/ Outcome = "written" /\ Outcome' = "saved"
           \/ Outcome = "proposed" /\ Outcome' = "withdrawn"
<1> USE DEF Outcome
<1>1. /\ TypeOK
      /\ Written => Written'
      /\ item \in [status : ItemStatus, expired : BOOLEAN, kept : BOOLEAN,
                   stored : BOOLEAN]
  BY TargetKeeps DEF Inv, TypeOK
<1>2. CASE item'.status = item.status /\ (Written' <=> Written)
  BY <1>2
<1>3. ASSUME NEW c \in Caller, WriteTarget(c)
      PROVE  Outcome' = Outcome \/ (Outcome = "proposed" /\ Outcome' = "written")
  <2>1. item' = item /\ item.status = "accepted"
    BY <1>3 DEF WriteTarget, Authorized
  <2>2. Written'
    BY <1>1, <1>3, WriteWrites
  <2> QED BY <2>1, <2>2
<1>4. ASSUME NEW c \in Caller, FinishCommitted(c)
      PROVE  Outcome = "written" /\ Outcome' = "saved"
  <2>1. item.status = "accepted" /\ item'.status = "committed"
    BY <1>1, <1>4 DEF FinishCommitted
  <2>2. Written
    BY <1>4 DEF FinishCommitted, Inv, ReceiptIsTrue
  <2> QED BY <2>1, <2>2
<1>5. ASSUME item.status \in {"pending", "accepted"}, commit.status # "applying",
             item'.status \in {"rejected", "needs_more_evidence", "superseded"}
      PROVE  Outcome = "proposed" /\ Outcome' = "withdrawn"
  BY <1>5, TakenBackUnwritten
<1>6. ASSUME NEW c \in Caller, Supersede(c)
      PROVE  Outcome = "proposed" /\ Outcome' = "withdrawn"
  BY <1>1, <1>5, <1>6 DEF Supersede
<1>7. ASSUME NEW to \in ItemStatus \ {"committed"}, Decide(to)
      PROVE  \/ Outcome' = Outcome
             \/ Outcome = "proposed" /\ Outcome' = "withdrawn"
  <2>1. item'.status = to /\ target' = target
    BY <1>1, <1>7 DEF Decide
  <2>2. CASE item.status = "pending" /\ to = "accepted"
    BY <2>1, <2>2 DEF Written
  <2>3. CASE item.status \in {"pending", "accepted"} /\ to # "accepted"
    <3>1. commit.status # "applying"
      BY <1>7, <2>3 DEF Decide, Inv, ApplyingIsAccepted
    <3>2. to \in {"rejected", "needs_more_evidence", "superseded"}
      BY <1>7, <2>3 DEF Decide, ItemStatus
    <3> QED BY <1>5, <2>1, <2>3, <3>1, <3>2
  <2>4. CASE item.status \in {"rejected", "needs_more_evidence"}
    BY <1>7, <2>1, <2>4 DEF Decide
  <2> QED BY <1>7, <2>2, <2>3, <2>4 DEF Decide
<1>8. CASE Replace
  <2>1. item'.status = "superseded" /\ item.status \in ItemStatus
    BY <1>1, <1>8 DEF Replace
  <2>2. CASE item.status \in {"pending", "accepted"}
    BY <1>5, <1>8, <2>1, <2>2
       DEF Replace, HoldsPreview, Inv, ApplyingIsAccepted
  <2>3. CASE item.status \in {"rejected", "needs_more_evidence"}
    BY <2>1, <2>3
  <2> QED BY <1>8, <2>1, <2>2, <2>3 DEF Replace, ItemStatus
<1>9. CASE RetirePreview
  <2>1. CASE item.status \in {"pending", "accepted"}
    BY <1>1, <1>5, <1>9, <2>1 DEF RetirePreview, HoldsPreview
  <2>2. CASE item.status \notin {"pending", "accepted"}
    BY <1>1, <1>2, <1>9, <2>2 DEF RetirePreview, Written
  <2> QED BY <2>1, <2>2
<1>10. CASE /\ item'.status = item.status
            /\ \A c \in Caller : ~WriteTarget(c)
  <2>1. target'.stamped = target.stamped /\ target'.merged = target.merged
    BY <1>1, <1>10, OnlyWriteWrites
  <2>2. Written' <=> Written
    BY <2>1 DEF Written
  <2> QED BY <1>2, <1>10, <2>2
<1>11. \/ \E c \in Caller : WriteTarget(c) \/ FinishCommitted(c) \/ Supersede(c)
       \/ \E to \in ItemStatus \ {"committed"} : Decide(to)
       \/ Replace \/ RetirePreview
       \/ item'.status = item.status
  BY <1>1 DEF Next, vars, CommitStep, ReadItem, ReadCommit, CheckPreview,
              CheckTarget, RecordCommit, FindCommit, StartCommit, TakeReceipt,
              RefuseWrite, RefuseAttempt, FinishFailed, ClearPreview, Abandon,
              MissionMoves, EditTarget, DeleteTarget, PreviewExpires,
              LeaseExpires, CleanFiles
<1> QED BY <1>3, <1>4, <1>6, <1>7, <1>8, <1>9, <1>10, <1>11

\* Through crashes, lost responses, retries and the user's edits, a candidate
\* is written and then saved, or withdrawn unwritten.
THEOREM ReviewKeepsPromise == Spec => ImplementsMaterialization
<1> DEFINE mapped == IF world = {} THEN Outcome ELSE "proposed"
<1>1. Init => Promise!Init
  BY DEF Init, Promise!Init, Outcome, Written
<1>2. ASSUME Inv, [Next]_vars
      PROVE  [Promise!Next]_mapped
  <2>1. world' = world
    BY <1>2, TargetKeeps DEF Inv
  <2>2. CASE world = {}
    BY <1>2, <2>1, <2>2, CalmStep
       DEF Promise!Next, Promise!Write, Promise!Save, Promise!Withdraw
  <2>3. CASE world # {}
    BY <2>1, <2>3
  <2> QED BY <2>2, <2>3
<1> QED BY <1>1, <1>2, Invariant, PTL DEF Spec, ImplementsMaterialization, Promise!Spec
=============================================================================
