---------------------------- MODULE ReviewCommit -----------------------------
(***************************************************************************)
(* The path of one reviewed candidate from its preview to the workspace:   *)
(* the review item and its MissionCommit in DataService, the target that   *)
(* the commit writes (a Prism file, a library source or an asset), the     *)
(* user who decides and edits, the preview cleanup, and any number of      *)
(* concurrent or retried calls of commit_one.                              *)
(*                                                                         *)
(* Every call is a chain of separate requests: each step here is one of    *)
(* them, and a call can be lost between any two (Abandon).  DataService    *)
(* serializes the requests on the Mission row, so one request is one step. *)
(* A Mission's other items meet this one only through the state version.   *)
(***************************************************************************)
EXTENDS Naturals

CONSTANTS
    Caller,       \* concurrent executions of commit_one
    Kinds,        \* kinds of materialization to consider
    Surprises,    \* what else may go wrong, see world
    MaxAttempts,  \* bound on attempts to materialize
    MaxEdits      \* bound on the user's edits of the target

AllKinds == {"update", "create", "insert", "source", "asset"}
AllSurprises == {"slow", "refuse", "delete"}

ASSUME ReviewAssumption ==
    /\ Kinds \subseteq AllKinds
    /\ Surprises \subseteq AllSurprises
    /\ MaxAttempts \in Nat
    /\ MaxEdits \in Nat

VARIABLES
    kind,    \* the item's operation, fixed
    world,   \* surprises of this behaviour, fixed: "slow" calls outlive their
             \* lease, services "refuse" attempts, targets are "delete"d
    item,    \* status, and its preview: expired, row kept, object stored
    commit,  \* MissionCommit: status, attempt (its token), lease live
    target,  \* content, records stamped with the commit, merged unstamped
    call,    \* [Caller -> pc, attempt, run snapshot still fresh]
    edits    \* edits made by the user

vars == <<kind, world, item, commit, target, call, edits>>

ItemStatus == {"pending", "accepted", "rejected", "needs_more_evidence",
               "committed", "superseded"}
CommitStatus == {"none", "pending", "applying", "failed", "committed"}
Content == {"absent", "base", "retyped", "edited", "other", "own"}
Failing == {"failing", "invalidating"}
Underway == {"writing", "finishing"} \cup Failing
Step == {"idle", "reading", "checking", "targeting", "creating", "starting",
         "superseding", "clearing"} \cup Underway

CallState == [pc : Step, attempt : Nat, fresh : BOOLEAN]

Written == target.stamped > 0 \/ target.merged

\* Mutant of HoldsPreview: an applying commit no longer holds the preview.
HoldsUnlessApplying == commit.status \in {"pending", "failed"}

HoldsPreview == commit.status \in {"pending", "applying", "failed"}

\* Kinds whose item has a target_ref, and so a base revision and a base hash.
HasBase == kind \in {"update", "insert"}

Idle == [pc |-> "idle", attempt |-> 0, fresh |-> FALSE]

\* Every command that touches the Mission moves its state_version on.
Outdated(calls) == [c \in Caller |-> [calls[c] EXCEPT !.fresh = FALSE]]

Goto(c, pc) == [call EXCEPT ![c].pc = pc]
Return(c) == [call EXCEPT ![c] = Idle]

Init ==
    /\ kind \in Kinds
    /\ world \in SUBSET Surprises
    /\ item = [status |-> "pending", expired |-> FALSE, kept |-> TRUE,
               stored |-> kind = "asset"]
    /\ commit = [status |-> "none", attempt |-> 0, live |-> FALSE]
    /\ target = [content |-> IF HasBase THEN "base" ELSE "absent",
                 stamped |-> 0, merged |-> FALSE]
    /\ call = [c \in Caller |-> Idle]
    /\ edits = 0

-----------------------------------------------------------------------------
(* Before the attempt.                                                     *)

\* _require_run and _require_review_item.  An item that is not accepted ends
\* the call at once.
ReadItem(c) ==
    /\ call[c].pc = "idle"
    /\ item.status = "accepted"
    /\ call' = [call EXCEPT ![c] = [pc |-> "reading", attempt |-> 0,
                                    fresh |-> TRUE]]
    /\ UNCHANGED <<kind, world, item, commit, target, edits>>

\* The commit found decides the way on: a committed one is the answer, an
\* applying one is recovered, and spares the item every check of its preview
\* and its base.
ReadCommit(c) ==
    /\ call[c].pc = "reading"
    /\ call' = CASE commit.status = "committed" -> Return(c)
                 [] commit.status = "applying" -> Goto(c, "creating")
                 [] OTHER -> Goto(c, "checking")
    /\ UNCHANGED <<kind, world, item, commit, target, edits>>

\* _verified_preview: an expired preview makes the item uncommittable; a
\* missing object only fails the call.
CheckPreview(c) ==
    /\ call[c].pc = "checking"
    /\ call' = CASE item.expired -> Goto(c, "superseding")
                 [] ~item.expired /\ kind = "asset" /\ ~item.stored -> Return(c)
                 [] OTHER -> Goto(c, "targeting")
    /\ UNCHANGED <<kind, world, item, commit, target, edits>>

\* read_target and _validate_base_precondition, on revision and hash.
CheckTarget(c) ==
    /\ call[c].pc = "targeting"
    /\ call' = CASE ~HasBase \/ target.content = "base" -> Goto(c, "creating")
                 [] HasBase /\ target.content = "absent" -> Return(c)
                 [] OTHER -> Goto(c, "superseding")
    /\ UNCHANGED <<kind, world, item, commit, target, edits>>

\* record_commit, when the item has no commit yet: the state version read at
\* the start must still be the Mission's.
RecordCommit(c) ==
    /\ call[c].pc = "creating"
    /\ commit.status = "none"
    /\ call[c].fresh
    /\ item.status = "accepted"
    /\ commit' = [commit EXCEPT !.status = "pending"]
    /\ call' = Outdated(Goto(c, "starting"))
    /\ UNCHANGED <<kind, world, item, target, edits>>

\* record_commit returns the commit the item already has.
FindCommit(c) ==
    /\ call[c].pc = "creating"
    /\ commit.status # "none"
    /\ call' = IF commit.status = "committed" THEN Return(c)
               ELSE Goto(c, "starting")
    /\ UNCHANGED <<kind, world, item, commit, target, edits>>

\* start_commit: a new attempt takes over from one whose lease has expired.
StartCommit(c) ==
    /\ call[c].pc = "starting"
    /\ \/ commit.status \in {"pending", "failed"}
       \/ commit.status = "applying" /\ ~commit.live
    /\ item.status = "accepted"
    /\ commit.attempt < MaxAttempts
    /\ commit' = [status |-> "applying", attempt |-> commit.attempt + 1,
                  live |-> TRUE]
    /\ call' = Outdated([call EXCEPT ![c] = [pc |-> "writing", fresh |-> FALSE,
                                             attempt |-> commit.attempt + 1]])
    /\ UNCHANGED <<kind, world, item, target, edits>>

-----------------------------------------------------------------------------
(* The write, in the database transaction of the target's domain.          *)

\* Mutant of Authorized: the write is not fenced.
Unfenced(c) == call[c].attempt > 0

\* assert_active_mission_write.
Authorized(c) ==
    /\ item.status = "accepted"
    /\ commit.status = "applying"
    /\ commit.attempt = call[c].attempt
    /\ commit.live

\* The target finds the record this commit has already written: a version of
\* the same, undeleted file; the library source, deleted or not; the asset.
Replays ==
    /\ target.stamped > 0
    /\ CASE kind \in {"update", "insert"} -> target.content # "absent"
         [] kind = "create" -> target.content \in {"own", "edited"}
         [] kind = "asset" -> target.content = "own"
         [] OTHER -> TRUE

\* Mutant of Writable: the content found is not compared with the base.
WritableWhateverFound ==
    /\ target.stamped = 0
    /\ HasBase => target.content # "absent"
    /\ kind = "create" => target.content = "absent"
    /\ kind = "asset" => item.stored /\ ~item.expired

\* Mutant of Writable: the target is not asked for the commit's own record.
WritableAgain ==
    CASE kind = "update" -> target.content \in {"base", "retyped"}
      [] kind = "insert" -> target.content = "base"
      [] kind = "create" -> target.content = "absent"
      [] kind = "asset" -> item.stored /\ ~item.expired
      [] OTHER -> TRUE

\* The target is as the candidate expects it.  An update compares hashes
\* only, an insertion compares the revision too.
Writable ==
    /\ target.stamped = 0
    /\ CASE kind = "update" -> target.content \in {"base", "retyped"}
         [] kind = "insert" -> target.content = "base"
         [] kind = "create" -> target.content = "absent"
         [] kind = "asset" -> item.stored /\ ~item.expired
         [] OTHER -> TRUE

\* Mutant of Vanished: an insertion also answers for a deleted file.
VanishedToo == HasBase /\ target.content = "absent"

\* append_file_content answers "not_found" for a file that is gone, and
\* _write_prism, which looks for two other reasons, makes a receipt of it.
Vanished == kind = "update" /\ target.content = "absent"

\* A refusal that also makes the item uncommittable: hash_mismatch,
\* already_exists, or an asset preview that has expired.
Unusable(c) ==
    \/ /\ Authorized(c)
       /\ target.stamped = 0
       /\ \/ kind = "update" /\ target.content = "edited"
          \/ kind = "create" /\ target.content = "other"
    \/ kind = "asset" /\ item.stored /\ item.expired

\* An asset found by its review item is a receipt without any authority.
HasReceipt(c) ==
    \/ Replays /\ (kind = "asset" \/ Authorized(c))
    \/ Vanished /\ Authorized(c)

\* The receipt of what is already there: nothing is written.
TakeReceipt(c) ==
    /\ call[c].pc = "writing"
    /\ HasReceipt(c)
    /\ call' = Goto(c, "finishing")
    /\ UNCHANGED <<kind, world, item, commit, target, edits>>

\* An import that finds the source in the library is merged into it, and the
\* merged record does not get the commit's id.
WriteTarget(c) ==
    /\ call[c].pc = "writing"
    /\ Authorized(c)
    /\ Writable
    /\ target' = IF kind = "source" /\ target.content # "absent"
                 THEN [target EXCEPT !.merged = TRUE]
                 ELSE [content |-> "own", stamped |-> target.stamped + 1,
                       merged |-> target.merged]
    /\ call' = Goto(c, "finishing")
    /\ UNCHANGED <<kind, world, item, commit, edits>>

\* Any other answer of the target is an error, and the call reports it.
RefuseWrite(c) ==
    /\ call[c].pc = "writing"
    /\ ~HasReceipt(c)
    /\ ~(Authorized(c) /\ Writable)
    /\ call' = Goto(c, IF Unusable(c) THEN "invalidating" ELSE "failing")
    /\ UNCHANGED <<kind, world, item, commit, target, edits>>

\* require_active_member refuses an actor who is no longer a member, or the
\* check or the write is answered with an HTTP error: only an error without a
\* status counts as an unknown outcome.
RefuseAttempt(c) ==
    /\ call[c].pc = "writing"
    /\ "refuse" \in world
    /\ call' = Goto(c, "failing")
    /\ UNCHANGED <<kind, world, item, commit, target, edits>>

-----------------------------------------------------------------------------
(* After the write.                                                        *)

\* finish_commit compares the token of the attempt, not the lease.
Current(c) == commit.status = "applying" /\ commit.attempt = call[c].attempt

FinishCommitted(c) ==
    /\ call[c].pc = "finishing"
    /\ Current(c)
    /\ item.status = "accepted"
    /\ commit' = [commit EXCEPT !.status = "committed", !.live = FALSE]
    /\ item' = [item EXCEPT !.status = "committed"]
    /\ call' = Outdated(IF kind = "asset" THEN Goto(c, "clearing") ELSE Return(c))
    /\ UNCHANGED <<kind, world, target, edits>>

FinishFailed(c) ==
    /\ call[c].pc \in Failing
    /\ Current(c)
    /\ commit' = [commit EXCEPT !.status = "failed", !.live = FALSE]
    /\ call' = Outdated(IF call[c].pc = "invalidating"
                        THEN Goto(c, "superseding") ELSE Return(c))
    /\ UNCHANGED <<kind, world, item, target, edits>>

\* _supersede_uncommittable; an applying commit refuses it.
Supersede(c) ==
    /\ call[c].pc = "superseding"
    /\ item.status = "accepted"
    /\ commit.status # "applying"
    /\ item' = [item EXCEPT !.status = "superseded"]
    /\ call' = Outdated(Return(c))
    /\ UNCHANGED <<kind, world, commit, target, edits>>

\* The saved item's preview object is deleted.
ClearPreview(c) ==
    /\ call[c].pc = "clearing"
    /\ item' = [item EXCEPT !.stored = FALSE]
    /\ call' = Return(c)
    /\ UNCHANGED <<kind, world, commit, target, edits>>

\* A call ends at any step: a command refused by the guards above, a process
\* that dies, or a response that never arrives.
Abandon(c) ==
    /\ call[c].pc # "idle"
    /\ call' = Return(c)
    /\ UNCHANGED <<kind, world, item, commit, target, edits>>

-----------------------------------------------------------------------------
(* The user, the Mission and the clock.                                    *)

\* Mutant of Decide: an applying commit does not stop the user.
DecideAnyway(to) ==
    /\ \/ item.status = "pending" /\ to # "pending"
       \/ /\ item.status \in {"accepted", "rejected", "needs_more_evidence"}
          /\ to = "superseded"
    /\ item' = [item EXCEPT !.status = to]
    /\ call' = Outdated(call)
    /\ UNCHANGED <<kind, world, commit, target, edits>>

\* apply_review_decisions.
Decide(to) ==
    /\ \/ item.status = "pending" /\ to # "pending"
       \/ /\ item.status \in {"accepted", "rejected", "needs_more_evidence"}
          /\ to = "superseded"
    /\ ~(item.status = "accepted" /\ commit.status = "applying")
    /\ item' = [item EXCEPT !.status = to]
    /\ call' = Outdated(call)
    /\ UNCHANGED <<kind, world, commit, target, edits>>

\* A newer candidate for the same output or destination.
Replace ==
    /\ item.status \notin {"committed", "superseded"}
    /\ ~(item.status = "accepted" /\ HoldsPreview)
    /\ item' = [item EXCEPT !.status = "superseded"]
    /\ call' = Outdated(call)
    /\ UNCHANGED <<kind, world, commit, target, edits>>

\* Any other command of the Mission.
MissionMoves ==
    /\ \E c \in Caller : call[c].fresh
    /\ call' = Outdated(call)
    /\ UNCHANGED <<kind, world, item, commit, target, edits>>

\* The user saves the file, saves its old text again as a new revision, goes
\* back to the base revision, or adds a file or a source of his own where the
\* candidate would go.
EditTarget(to) ==
    /\ edits < MaxEdits
    /\ \/ to = "edited" /\ target.content \in {"base", "retyped", "own"}
          /\ kind \in {"update", "insert", "create"}
       \/ to = "retyped" /\ target.content \in {"edited", "own"} /\ HasBase
       \/ to = "base" /\ target.content \in {"retyped", "edited", "own"} /\ HasBase
       \/ to = "other" /\ target.content = "absent"
          /\ kind \in {"create", "source"}
    /\ target' = [target EXCEPT !.content = to]
    /\ edits' = edits + 1
    /\ UNCHANGED <<kind, world, item, commit, call>>

\* Files, sources and assets are deleted softly: the stamped record remains.
DeleteTarget ==
    /\ "delete" \in world
    /\ target.content # "absent"
    /\ target' = [target EXCEPT !.content = "absent"]
    /\ UNCHANGED <<kind, world, item, commit, call, edits>>

PreviewExpires ==
    /\ ~item.expired
    /\ item' = [item EXCEPT !.expired = TRUE]
    /\ UNCHANGED <<kind, world, commit, target, call, edits>>

\* A lease outlives the call that works under it, unless calls are slow.
LeaseExpires ==
    /\ commit.live
    /\ \/ "slow" \in world
       \/ \A c \in Caller : call[c].pc \in Underway =>
                                call[c].attempt # commit.attempt
    /\ commit' = [commit EXCEPT !.live = FALSE]
    /\ UNCHANGED <<kind, world, item, target, call, edits>>

\* cleanup_expired_previews, the projection of one item.
RetirePreview ==
    /\ item.expired /\ item.kept
    /\ ~HoldsPreview
    /\ item' = [item EXCEPT
                    !.kept = FALSE,
                    !.status = IF @ \in {"pending", "accepted"}
                               THEN "superseded" ELSE @]
    /\ call' = Outdated(call)
    /\ UNCHANGED <<kind, world, commit, target, edits>>

\* The task's pass over the files, once a batch came back empty: the rows that
\* are still expired are those a commit holds.
CleanFiles ==
    /\ item.expired /\ item.stored
    /\ item.kept => HoldsPreview
    /\ item' = [item EXCEPT !.stored = FALSE]
    /\ UNCHANGED <<kind, world, commit, target, call, edits>>

CommitStep(c) ==
    \/ ReadItem(c) \/ ReadCommit(c) \/ CheckPreview(c) \/ CheckTarget(c)
    \/ RecordCommit(c) \/ FindCommit(c) \/ StartCommit(c)
    \/ TakeReceipt(c) \/ WriteTarget(c) \/ RefuseWrite(c) \/ RefuseAttempt(c)
    \/ FinishCommitted(c) \/ FinishFailed(c) \/ Supersede(c) \/ ClearPreview(c)
    \/ Abandon(c)

Next ==
    \/ \E c \in Caller : CommitStep(c)
    \/ \E to \in ItemStatus \ {"committed"} : Decide(to)
    \/ Replace \/ MissionMoves
    \/ \E to \in Content : EditTarget(to)
    \/ DeleteTarget \/ PreviewExpires \/ LeaseExpires
    \/ RetirePreview \/ CleanFiles

Spec == Init /\ [][Next]_vars

-----------------------------------------------------------------------------
(* Properties.                                                             *)

\* Types of the variables; the record of an attempt never runs ahead of the
\* commit's attempt count.
TypeOK ==
    /\ kind \in AllKinds
    /\ world \in SUBSET AllSurprises
    /\ item \in [status : ItemStatus, expired : BOOLEAN, kept : BOOLEAN,
                 stored : BOOLEAN]
    /\ commit \in [status : CommitStatus, attempt : Nat, live : BOOLEAN]
    /\ target \in [content : Content, stamped : Nat, merged : BOOLEAN]
    /\ call \in [Caller -> CallState]
    /\ edits \in Nat
    /\ \A c \in Caller : call[c].attempt <= commit.attempt

\* However often a commit is retried, taken over or answered late, one record
\* of the target's domain carries its id (the lookups of a replay read at
\* most one row).
OneWrite == target.stamped <= 1

\* While an attempt may write, nobody has taken the candidate away: it is
\* accepted, and its preview row is there for a recovery to read.
ApplyingIsAccepted ==
    commit.status = "applying" => item.status = "accepted" /\ item.kept

\* An item reported as saved has been written: the receipt of a slow, lost or
\* repeated attempt is never taken for a write that did not happen.  The
\* exception is an update whose file is deleted under it, see Vanished.
CommittedIsWritten ==
    item.status = "committed" =>
        Written \/ (kind = "update" /\ "delete" \in world)

\* A candidate that was taken back is not written afterwards by a call that
\* began before, whatever was in flight.
WithdrawnIsNotWritten ==
    [][item.status # "accepted" =>
           UNCHANGED <<target.stamped, target.merged>>]_vars

\* Reviewed content never replaces what the user has put in the target since.
UserEditSurvives ==
    [][target.content \in {"edited", "other"} => target'.content # "own"]_vars

Outcome ==
    CASE item.status = "committed" -> "saved"
      [] item.status \in {"rejected", "needs_more_evidence", "superseded"}
            -> "withdrawn"
      [] OTHER -> IF Written THEN "written" ELSE "proposed"

\* When calls keep within their lease, no attempt is refused and nothing is
\* deleted, a candidate is written and saved, or withdrawn unwritten, through
\* crashes, lost responses and retries.  A world with a surprise is mapped to
\* the initial state: nothing is claimed of it.
Promise == INSTANCE Materialization
    WITH outcome <- IF world = {} THEN Outcome ELSE "proposed"
ImplementsMaterialization == Promise!Spec
=============================================================================
