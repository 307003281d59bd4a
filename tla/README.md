# Wenjin: models, model checks and proofs

This directory models the execution core of Wenjin, the part that decides who
may run a Mission, when, and what may be written meanwhile. Paths are relative
to the repository; `backend/src` is abbreviated `…`.

## 1. Inventory

**Missions** (`…/mission_runtime`, `…/dataservice/domains/mission`,
`…/task/tasks/mission.py`). A Mission is one row of `mission_runs`, a ledger of
`mission_items`, and review items and commits. It is driven in *slices*: a
Celery task takes a lease on the row, recovers what an earlier slice left,
applies the user's commands, asks the model for a decision, calls a tool, a
subagent batch, a quality check or a review port, writes the result, and goes on
until it finishes, waits, or yields after 180 s.

| part | state | operations |
| --- | --- | --- |
| dispatch | `dispatch_owner/epoch/expires_at`, `next_wakeup_at` | reserve by hint (`claim_dispatch_for_run`), reserve by the reconciler (`claim_runnable_batch_skip_locked`), publish, release, expire (900 s) |
| lease | `lease_owner/epoch/expires_at`, `state_version` | claim, heartbeat (every 30 s, 240 s long), release, expire |
| slice | the in-memory `_SliceState` | the loop `_drive_claimed`, `_handle_decision`, operations, failures |
| commands | `last_command_seq`, `last_applied_command_seq`, `pending_command_control` | append once, apply a page (90) under the lease |
| outside writers | the same row, no lease | admission, `resume_run`, `pause_run` for an expired reservation, review decisions, `finish_commit` |
| item ledger | `mission_items`, snapshot | append, model-call pairs, terminal settlement |
| operation receipts | `mission_items` of kind operation | claim with a token and an expiry, finish, look up (`claim_operation`, `finish_operation`, `get_operation`) |
| review and commit | `mission_review_items`, `mission_commits`, previews | create, decide, record, start (attempt token and lease), apply, finish, supersede, clean up |

**Chat turns** (`…/runtime/chat_turns`, `…/task/tasks/chat_turn_dispatch.py`).
A Redis hash per run, written without compare-and-set under locks that lapse
after 5 s; dispatch intents published at least once; an execution lease;
cancellation; finalisation.

**Credits** (`…/dataservice/domains/thread_turn_billing`, `…/domains/credit`).
Holds on a user's balance: authorize, complete, release, roll back, expire;
reservations of Missions: create, settle, release, expire, reactivate.

**Tools and the sandbox** (`…/tools/orchestrator`, `…/tools/mission`,
`…/sandbox/runtime.py`). `ToolOrchestrator.invoke` replays a receipt or claims
it, runs the handler with its attempts and records the outcome; a sandbox tool
makes `SandboxRuntime.execute` do the same again for its job. A slice that
yields or dies leaves its claims to the next.

**Subagents** (`…/subagent_runtime`). A Redis sorted set of capacity leases
(limit 4, 240 s), and the loop of one subagent.

**The Mission panel** (`…/gateway/routers/missions.py`, `frontend/lib/api/missions.ts`,
`useMissionWorkspace.ts`). The browser fetches a summary, then follows a stream of
hints by a cursor over `(updated_at, mission_id)`, and fetches the Mission it
shows again; it switches between Missions, and the stream may break.

**The rest** is listed in `PROJECT.json` with the reason it is left out:
provider, tool, sandbox and HTTP I/O, single-row storage domains, the other
parts of the frontend.

How they interact. The gateway and the services write the row through
DataService transactions and then publish a *hint*. Hints and the beat-driven
reconciler both reserve a dispatch generation and send one Celery message that
names it. The worker that receives it claims the lease, which consumes exactly
that generation. Everything else is an optimistic write on `state_version`,
additionally fenced by lease owner, epoch and expiry when a driver makes it.

What is hard. Celery repeats (`acks_late`), delays and loses messages; workers
die between any two transactions; two workers may believe they drive one
Mission; users, billing and review write the row in the middle of a model or
tool call that lasts minutes; a call's outcome may be unknown; all Missions of a
workspace compete for one writable Sandbox.

What makes each part correct.

* dispatch and lease: one slot per workspace; one lease per generation; only the
  lease holder writes as a driver; no Mission is lost; the oldest goes first;
* commands: consumed exactly once, in order, none jumped over, no cancel lost;
* slice: drives running Missions only; ends with no open call; rests in the end;
* operations: one terminal receipt per operation, a success only for an effect
  that happened, no sandbox job twice, every call reported in the end;
* review and commit: one materialisation per accepted item, fenced by attempt;
* chat turns: one active run per thread, one terminal status, an end event only
  after it; a request is asked, charged and answered once; every turn ends;
* credits: the user's row is the sum of its holds and charges; holds are covered;
  what is settled stays settled; every hold returns;
* the panel: no change is skipped, no response takes it back, and when nothing is
  going on it shows what is stored;
* subagents: at most the limit hold a live capacity lease.

## 2. Modules

| module | what it is |
| --- | --- |
| `MissionLease` | dispatch, lease, slice, commands and outside writers on the rows |
| `WorkspaceSlot` | what the fences promise: an abstract slot with terms |
| `WorkspaceTurns` | the order in which due Missions of one workspace get the slot |
| `MCMissionLease`, `MCWorkspaceTurns` | instances for TLC |
| `ReviewCommit` | one reviewed candidate: decisions, attempts, the target write, cleanup |
| `Materialization` | what saving a candidate promises |
| `MissionLease_proofs` | its types; slot, generation and recoverability theorems |
| `WorkspaceTurns_proofs` | its types and the bound on overtaking |
| `MissionDrive_proofs` | who is driven, who drives a term, what ends and what becomes of commands; the fences implement `WorkspaceSlot` |
| `ReviewCommit_proofs` | every property of `ReviewCommit`, with the refinement |
| `ChatTurns`, `MCChatTurns` | a chat turn from the API call to its end, with its billing |
| `TurnBilling` | what the billing of a chat turn promises |
| `ChatTurns_proofs` | its types, one turn per thread, statuses and streams, one question and one answer, the refinement |
| `Credits` | the balance of a user under Missions, chat turns and adjustments |
| `Credits_proofs` | its types, the sums of the books, cover and end of holds, finality of settlements, funded starts |
| `ToolOperations`, `MCToolOperations` | tool calls and sandbox jobs of one Mission over several slices |
| `OperationReceipts` | what operation receipts promise |
| `MissionEvents` | the event stream of a workspace and the Mission panel that follows it |
| `MissionEvents_proofs` | its types, no skipped change, no step back, a current panel |
| `ToolOperations_proofs` | its types, claims, single jobs, the refinement and what a completed call rests on |

Modules share no variables. Where two meet, one treats the other's part as its
environment, and the meeting point is named: `MissionLease` decides who may
drive, so `ToolOperations` only has "the lease" and `Credits` only "a driver
that may write"; `ReviewCommit` sees the Mission as a state version and a
membership; `ChatTurns` keeps for each turn a billing row without amounts, which
`Credits` refines to amounts without the workers.

### MissionLease

`runs[m]` is a `MissionRunRecord`; `driver[w]` the delivery a worker handles and
its `_SliceState`; `publishing` generations that were reserved and not sent yet;
`queue` the messages Celery holds until acknowledged; `hints` calls of
`_publish_wakeup` under way. An action is one DataService transaction, or one
local step of a slice between two. The program counter of a driver:

| pc | where the slice is |
| --- | --- |
| `claiming`, `releasing` | `run_slice`, before `claim_lease` / `release_dispatch` |
| `driving` | top of the loop: ledger, commands, planning → running |
| `ready` | past the command boundary |
| `deciding` | a model call is open |
| `decided`, `failing` | the call is closed: boundary and `_handle_decision`, or `_record_loop_failure` |
| `opening` | a port is asked before an operation is recorded |
| `executing` | an operation is in flight |
| `yielding` | `_checkpoint_and_yield` |

Abstractions, and what they do not hide:

* *Time.* An expiry instant is a flag that turns FALSE by its own action;
  `next_wakeup_at` is none, later or due; the order of due instants is the
  relation `due_before`. When a revived lease restores an older instant, its
  place in the order is approximated; `WorkspaceTurns` does not depend on it.
* *Versions.* `state_version` is compared for equality only, so a driver is
  `fresh` or not. The lease and dispatch writes touch the version as well.
* *Identity.* `dispatch_owner` is a new uuid or task id per generation, so the
  epoch alone identifies one.
* *now().* DataService compares with `func.now()`, the start of the transaction.
  With `SlowCommits` a write may still succeed after the instant has passed.
  This over-approximates: any such write may be late, by any amount.
* *Heartbeat* is an action only when it changes something in the model: it
  revives the flag or refreshes the version.
* *created* is a row that is not visible yet: `create_run` and
  `apply_initial_admission` are one unit of work in `admit`.
* *claim_runnable_rows* evaluates the earlier-runnable condition and then tries
  the advisory lock of the workspace; the model takes both as one step.
* *Checkpoint and release* of a yield are one action: the checkpoint only adds a
  snapshot, and a crash between them equals one before it.
* *Inline delivery* (a call of `run_slice` without a generation) is not used by
  the Celery task and is not modelled.
* *Operations* are `inflight` or not; a decision, a verdict and a tool result are
  nondeterministic; the model budget stands for the resource ledger.

### WorkspaceSlot and the refinement

`WorkspaceSlot` knows a holder per workspace, whether it has begun a term, the
number of its term, and the term of the last write. `ImplementsSlot` maps the
rows to it: `holder` is the Mission with an active lease or generation, `term`
is `lease_epoch`, and `written` is `writer_epoch`, the one auxiliary field of the
rows, which records the epoch of the driver that wrote last. So the refinement
says that a superseded worker never writes, and that a term starts only with
the slot in hand.

### WorkspaceTurns

The fences are replaced by one slot that is free, reserved or leased; the
order of due instants is again a relation, `due_before`, over the Missions in line
(`due`). Every write of `next_wakeup_at` in the code
is an action here. This leaves 40 000 states for three Missions without bounds
on yields, crashes or generations, so fairness between peers can be checked.

### ReviewCommit and Materialization

`ReviewCommit` follows one review item. `item` is its `mission_review_items` row
with the preview (`expired`: its instant has passed, `kept`: the row still has
the preview, `stored`: the preview object is on disk); `commit` its
`mission_commits` row, whose `attempt` stands for the attempt token, a fresh uuid
per attempt; `target` what the commit writes: the content of the file, source or
asset, how many records carry the commit's id (`stamped`), and whether an
import was `merged` into a source that was there. `call[c]` is an execution of
`commit_one`, by a worker or by a request:

| pc | the next request of the call |
| --- | --- |
| `idle`, `reading` | read the run and the item; read the commit |
| `checking`, `targeting` | verify the preview; compare the target with its base |
| `creating`, `starting` | `record_commit`; `start_commit` |
| `writing` | membership, then the write in the target's own transaction |
| `finishing` | `finish_commit` with the receipt |
| `failing`, `invalidating` | `finish_commit` as failed; the second supersedes after |
| `superseding`, `clearing` | `_supersede_uncommittable`; delete the preview object |

The content of a target is `absent`, `base` (revision and hash are the ones the
candidate was made from), `retyped` (the base's hash under a new revision),
`edited`, `other` (a file or source of the user's where the candidate would go)
or `own`. This is exactly what the code's comparisons tell apart: an update
compares the hash at the write and both before, an insertion both at the write.

* *Kinds.* `update` and `create` are `documents.upsert_prism_file` with and
  without a target, `insert` is `documents.insert_visual_asset`, `source` is
  `library.import_source`, `asset` is `assets.create_from_preview`. Only an asset
  has a preview object.
* *Requests.* Each that writes is one transaction that locks the Mission row
  (`_locked_run`, `assert_active_mission_write`), so each is one action. What can
  happen to a request beside its effect (a conflict, a crash of the caller, a
  lost response) is `Abandon`: the call ends and its token is forgotten.
* *Other items* of the Mission meet this one only through `state_version`: a call
  that read an older one (`fresh` FALSE) cannot record a commit.
* *Surprises.* `world` is chosen at the start of a behaviour and says what may go
  wrong in it: calls that outlive their 120 s lease, a membership
  check or a write that is answered with an error, deletion of targets. Everything else may always happen. Each
  combination is a separate part of the state graph, so a property can say in
  which worlds it holds.
* *Deletion and restoration* of a Prism file are routes of DataService without a
  caller in the gateway; they are included because the writes guard against them.
* *Cleanup.* The task first retires expired rows in batches and then, after an
  empty batch, deletes files whose own expiry has passed. `CleanFiles` takes the
  empty batch and the deletion as one step: rows that expire in between have a
  later instant than the cutoff.
* Left out: the integrity checks of the preview (its content never changes), a
  candidate equal to its base, and the commit status `cancelled`, which nothing
  sets.

`Materialization` is what a user may expect: a candidate is *proposed*, then
*written* and *saved*, or *withdrawn*; nothing written is withdrawn. The
refinement maps a behaviour without surprises to it. With a surprise it is
false, and each surprise is reasonable: a retry that is refused before it
reaches the target fails a commit whose write happened (see section 4), a slow
call may be failed by its own lost lease although an earlier attempt wrote, and
a deleted file can neither be written nor recovered.

### ChatTurns and TurnBilling

`run[r]` is the Redis hash of a run, named by the API call that makes it; `dpc[d]`
what a publisher does, an API call or `Beat`, the reconciler of dispatch intents;
`wpc[w]` and `turn[w]` a worker and its turn; `bill` and `messages` the rows of
thread-turn billing and of the conversation; `sent[w]` a completion the
DataService has been asked for, which may be served after the worker is gone.

| pc of a worker | where it is |
| --- | --- |
| `claiming` | `claim_execution`, polled until the lease of another worker is over |
| `preparing`, `compensating` | `prepare_turn`: authorize; release after an unknown answer |
| `prepared`, `streaming` | the thread is bound; the generator runs |
| `settling` | `complete_turn` is under way |
| `completed`, `failed`, `refused` | the generator has ended; the status is still to be written |
| `closing`, `leaving` | publish `end` or not; return to the broker |

* *One record update is one step*: lock, load, check, store, unlock. The code
  writes the hash unconditionally under a lock of five seconds, so the model
  assumes that an update takes less than that, and an admission less than its
  scheduling locks. With a lapse inside an update the last writer would win; this
  assumption is a hazard without a property.
* *Admission* is three steps: look, cancel what is in flight (strategy
  `interrupt` or `rollback`), create. A call without a thread id makes a thread
  of its own.
* *Delivery.* A message may be repeated, lost with its publisher, or found by
  `Beat`. A worker that waits for a claim waits at most the lease and one poll,
  and Celery retries at most three times, so the wait ends; the model has no
  counter for it.
* *A completion that is sent* is answered once: `SendComplete` requires that none
  of the worker's is under way, for the HTTP client has one request in flight.
* *Faults* (`MaxFaults`): crash of a worker or publisher, lapse of a live lease,
  repeated delivery, lost response, expiry of an authorization under a worker,
  Redis away during a heartbeat. Users may cancel at any time.
* Left out: Redis away while a terminal status is written, a failing stream
  bridge after the status is written, the `end` event of a run cancelled before
  any claim (nobody publishes one), and a Mission that a rolled-back turn had
  started.

`TurnBilling` knows no runs, workers, leases or retries, only requests: the
question is recorded with the authorization (which may be closed in the same
moment, `ReleasedBill`), the answer with the charge; an authorization is closed
once, by the charge or without; a question is taken back only of a turn that was
not charged, an answer never. `ImplementsBilling` maps `row` to `bill` and the
other two variables to the requests whose question or answer stands in some
conversation. So a completion that is served after its worker is gone, after a
takeover, or after an expiry or a release has closed the authorization, charges
and answers once or not at all.

### Credits

`account[x]` is the reservation of a Mission or the authorization of a chat turn;
`credits`, `held`, `consumed`, `free_held` are the columns of the user row; `mission[m]`
has as much of a Mission as decides about its money: status, reason for waiting,
the strongest unapplied command (`control`), the cost and the state of a model call.
`funded` is a history variable.

* Every command of the DataService locks the user row first and is one
  transaction, so it is one action. A command over several rows is an action per
  row.
* One token costs one credit: rates, weights and rounding are pure functions of
  the price table. What is kept is that a charge is capped by its hold, a free
  hold by what is left of the free tokens, and the overdraft is for chat only.
* The end of a Mission settles in the same write (`_settle_terminal` in
  `_store_core.py`). `NoStrandedHold` shows that the branch of the expiry
  reconciler that looks for holds of finished Missions finds none.
* Waiting for a review resolves as `ResumeInput`; `release_reservation` has no
  caller; a hold kept as `reconciliation_required` is returned by no code, which is
  why `HoldReturns` excepts it.
* Grants, codes and deductions are amounts: that a periodic grant or a code is
  given once is a unique index and not modelled. Referral bonuses have no live
  caller.

### ToolOperations and OperationReceipts

The Mission executes a `Plan`: a sequence of operations, each a set of calls (one
tool call of the workspace agent, or the calls of a subagent batch). `receipt[k]`
is the latest claim of an operation key, `run[e][c]` the invocation of call `c` in
the slice that holds lease `e`:

| pc | where the invocation is |
| --- | --- |
| `claim`, `contended` | `invoke` after an empty look-up; somebody else has the claim |
| `attempt`, `handler` | before an attempt; the handler runs |
| `inspect`, `claim_job`, `prepare`, `provider` | `SandboxRuntime.execute`: look up, claim, set up, run |
| `finalize`, `record` | the receipt of the job, of the tool |
| `returned` | the outcome is handed to the slice |

* *One command of the DataService is one step*, and `assert_current` is merged
  with the command that follows it, the preflight with the start of an attempt.
* *Claims* of tools last 210 s (the lease less a heartbeat), which is at least the
  budget required for the call (`composition.py:149-188`); those of jobs the
  wall time and 30 s more. So `ClaimExpires` needs that the holder is gone or
  (a surprise) slow to write its end.
* *Surprises* (`MaxSurprises`): an interruption (cancel, timeout) inside any step
  and a lost response of a claim or finish that was executed, or a slow write.
* *Retryable* keys are reads, with a second attempt in place. A handler is its
  effect: begun or not.
* *The Mission's end* is a lease that is lost and not taken again; `MaxEpoch`
  bounds leases, and the last one is not lost.
* `SubagentOps` are the operations run by subagents; only there may a slice yield
  with calls open, and its successor replays what it has seen.
* `SandboxKeyOf` names the subagent, so the jobs of one batch never share a key
  (`PlanAssumption`); calls of different operations of one caller do share it when
  their input is the same, and then the second is answered from the first.
* Left out: claims refused because of open model calls, a DataService that is
  away during a read, waits for a permission, the sandbox job inside the render
  tool, a batch ended by its active-time budget, and the payloads.

`OperationReceipts` knows no leases or claims: an operation is decided once, as a
success only if its effect happened or the receipt it rests on is a success; no
effect begins after the decision; a call is reported once, as completed only on
a success. `ImplementsReceipts` maps `happened` to `begun` and `jobs`.

### MissionEvents

`row[m]` is what the panel can tell about a Mission: its `state_version` and
`updated_at`. `open` are the transactions that will change one; a stamp is taken
when the transaction begins (`database_now` is `select now()`), so commits come
in any order. The panel is `view` (`viewRef`), `switch` and `refresh` (the fetch of
each kind whose token is the latest; a superseded one does nothing when it arrives
and is not kept), `pending` (`pendingSwitchRef`) and `timers` (the two debounce
timers). A fetch is three steps: start, the read on the server, the arrival.

* *A transaction* changes one Mission; the row lock orders the transactions of
  one Mission by commit, not by stamp. `Begin` gives two open transactions
  of different Missions the same stamp too, which is where the second part of the
  cursor matters.
* *A page* is one round of `_mission_event_stream`; `sent` is its cursor on the
  server, `cursor` the one of the browser, from which it connects again.
* *The summary* reads its aggregates between two reads of the latest Mission that
  must agree; only the latest Mission and its stamp matter, so it is one read.
* *A refused connection* (401, 403, 404) ends the subscription; a cursor that is
  not accepted is not modelled, since every cursor comes from the server.
* `hinted` and `lost` are history variables: what the browser was told of each
  Mission, and which versions nobody will tell it or act on, with a named reason
  each. The passing properties except exactly those; section 4 has the reasons
  that contradict a document.
* A change of workspace starts again from `Init` and is not an action.

### Conventions

A definition with the comment "Mutant of X" is not used by any specification:
it is X with a plausible mistake, kept to show that the property next to it in
`PROJECT.json` fails when the code is changed that way.

## 3. Runs

| run | instance | shows |
| --- | --- | --- |
| `lease_slot` | 2 Missions, 1 workspace, 2 workers, 2 faults, 3 generations | `OneSlotPerWorkspace`, `OneLeasePerGeneration`, `ImplementsSlot` |
| `lease_commands` | 1 Mission, 2 workers, 2 outside writes of every kind, 1 fault, pages of one command, slow commits | `AlwaysRecoverable`, `TerminalIsQuiet`, `OnlyRunningIsDriven`, `CompletionIsDrained`, `CancelIsKept` |
| `lease_live` | 1 Mission, 1 worker, 2 commands, 1 fault, fair | `CommandIsConsumed`, `MissionRests` |
| `turns` | 3 Missions of one workspace, fair | `BoundedOvertaking`, `TurnComes` |
| `commits` | 1 item of each kind, 2 calls at a time, 3 attempts, 2 edits, every combination of surprises | `OneWrite`, `ApplyingIsAccepted`, `CommittedIsWritten`, `WithdrawnIsNotWritten`, `UserEditSurvives`, `ImplementsMaterialization` |
| `chat_turns` | 2 API calls that share a request, a thread, both or none; 2 workers, 1 fault | `AnsweredOnce`, `OneActiveTurn`, `ResultIsKept` |
| `chat_live` | 1 turn, 2 workers, 2 faults, fair | `SuccessIsSettled`, `EndedIsTerminal`, `ImplementsBilling`, `EveryTurnEnds` |
| `credits` | 1 Mission and 2 chat turns of one user, fair clock and reconcilers | `BooksBalance`, `HoldsAreCovered`, `FreeTokensOnce`, `NoStrandedHold`, `SettledIsFinal`, `WorkIsReserved`, `HoldReturns` |
| `tool_calls` | 2 subagents that ask for one figure, a read with a retry, 2 runs of one script; 2 leases, 1 surprise, fair | `HandlerHoldsClaim`, `SandboxOnce`, `ImplementsReceipts`, `EveryCallIsReported` |
| `panel` | 2 Missions, 2 changes that may overlap, pages of one row, 1 switch, 1 break or failure, fair | `NoChangeIsSkipped`, `QuietViewIsCurrent`, `ViewNeverGoesBack`, `RefreshCatchesUp` |
| `lost_wakeup`, `stale_cleanup` | the smallest instance of each finding | one documented property that the code does not keep |

The types of every module are a theorem (section 5), and no run repeats them.

Bounds. Two Missions and two workers are the smallest instance where a slot can
be shared or a lease taken over; faults count crashes, losses, repeats and
holders that outlive their lease, and two of them allow a takeover of a
takeover. Three generations let a late message of the first arrive in the third.
Pages of one command make two commands two pages, as 91 would in the code. Two
outside writes make a cancel followed by another command, or a pause followed by
a review. The interleavings with more peers are covered by the proofs.
`MaxYields` bounds how often a slice yields without a decision; in the code the
wall time does the same work. `MaxGenerations` is 20 in the live runs, more than
the other bounds let a behaviour use, so it never stops one. Deadlock is not
checked: a Mission that waits and whose users are silent rests, by design.

In `commits`, two calls at a time suffice for a takeover and its late loser, and
as a call may start again after it ended, any number of calls may follow one
another. Three attempts allow a takeover of a takeover; two edits allow an edit
and the way back. Deadlock is not checked, because a settled item leaves nothing
to do. The module claims no liveness: a retry is a user's request.

Fairness (`FairSpec`). A live worker goes on and takes what the broker holds
(Celery consumers, concurrency 1, with hard time limits 210/225 s); a reserved
message is sent; the reconciler runs every 15 s from beat; time passes. There is
none for hints, users, review, billing or faults. In `turns`, `ClaimLease` needs
strong fairness: a message may be lost any number of times, but not always.

In `chat_turns` two calls are what admission can get wrong and two workers what
delivery can; a fault is a crash, a lapse, a repeat, a lost response or an expiry,
so two faults (`chat_live`) are a takeover whose taker fails too. One message of a
run waits at the broker at a time (`MaxQueue`); more only wait. Each `q`, `t` is
bound to the calls by `Init`, so every way to share them is covered.

In `credits` one Mission and two turns are the smallest instance where a
settlement, a reservation and a free-token hold overlap; the amounts are chosen so
that a balance suffices for one, for both, or for neither, and a deduction can take
it below what is held. Accounts meet only in the columns of their user, so one
user suffices.

In `tool_calls` two leases are one takeover, and the surprise is spent inside
either of them. The plan has every way keys meet: two calls with one key at the same time,
two keys with one sandbox job one after the other, and a read with attempts.
Deadlock is not checked in any of these: a turn, a Mission or an account rests
when it is over.

In `panel` two Missions are the one that is shown and another that moves the cursor;
with pages of one row, two changes of one instant fall on two pages, as 101 would
in the code, and one that overlaps another can commit after it with the older stamp.
Deadlock is not checked: when all is sent the panel rests.

Fairness of these runs. `chat_live`: API calls that were made, beat, workers and the
DataService take their steps, and the clock ends the leases of the dead; users and
faults owe nothing. `credits`: instants pass and beat runs both reconcilers (on
periodic schedules); workers, users and models owe nothing, so a hold returns even
if nobody ever works again. `tool_calls`: event loops run their tasks, a slice
reports what is done, a lease whose process is gone lapses and the Mission is
dispatched again, which `MissionLease` shows of dispatch. `panel`: the browser's
event loop and the server go on; writers, users and faults owe nothing.

What the passing runs leave out on purpose. `lease_live` takes only the command
boundary as a cause of waiting (`PortsMayWait = FALSE`) and no outside services:
with them `CommandIsConsumed` fails, which is the finding `lost_wakeup`.
`lease_slot` has no slow commits: with them the slot is lost (section 4).
`TurnComes` excepts a waiting Mission in line (section 4).

## 4. Findings

1. `lost_wakeup`: a command that arrives during a port call is not consumed when
   the call ends in a wait: the refresh after the call adopts the new version,
   and the transition to `waiting` clears the wakeup the command had set.
2. `stale_cleanup`: a worker whose execution lease lapsed cancels its execution
   task, and the error handler of the stream, or the cancelled authorization,
   releases the turn's authorization with no look at the owner. The worker that took
   the turn over then fails to charge it, and the turn ends in an error.
   `docs/current/architecture.md:52` says that billing cleanup is fenced by the owner.
Observations that have no run of their own; where a passing property excepts one of
them, the property is named:

* *Back to work without a reservation* (`WorkIsReserved`). A Mission that waits for
  budget is put back to work by a command at the command boundary
  (`runtime.py:1330-1341`), or by a pause, which overwrites the reason of the wait,
  and a resume; neither looks at the reservation, and the settlement then charges
  nothing. The specification of the runtime (`02_mission_runtime.md:157`) requires a
  reservation or a free policy for every billable Mission.
* *A change behind the cursor* (`NoChangeIsSkipped`). `updated_at` is the start of the
  transaction (`repository.py:206`). A change that commits after the stream has sent a
  later stamp is never sent (`docs/current/architecture.md:190`: "Workspace events
  notify clients that mission state changed").
* *A hint during a switch* (`QuietViewIsCurrent`). While a Mission is being fetched to
  be shown, its hints schedule nothing (`useMissionWorkspace.ts:232`), although the
  fetch may have been answered before the change (the same line of the document:
  "Every event is an invalidation hint that triggers canonical MissionView refetch").
* *A switch before the summary* (`QuietViewIsCurrent`). The fetch of a switch that began
  before the summary was read may be older than the cursor of the summary
  (`useMissionWorkspace.ts:190`: "The summary still safely bootstraps the workspace
  event cursor."). In these three cases the panel is out of date until the Mission
  changes again: a driven one does within 30 s, one that waits or has ended may not.
* *A write without a receipt.* The response of a write is lost, the lease of the
  attempt lapses, and the retry is refused before it reaches the target (the actor
  is no longer a member, or the check is answered with an HTTP error). It finishes
  the commit as failed. For an update the next retry even takes the written content
  for a moved base and supersedes the item.
* *A waiting Mission in line.* Review settlement (`_store_review.py:902`) makes a
  Mission due that still waits for something else; the delivery gives its generation
  back and leaves the wakeup, so this Mission takes every turn of its workspace.
* *A late heartbeat.* A heartbeat whose transaction is held up across the expiry
  may revive a lease after a peer has taken the slot, since it locks its own row
  only. This is why `SlotIsExclusive` assumes `~SlowCommits`.
* *An open call of a paused Mission.* Expiry of a reservation makes a Mission wait
  while a model call is open; the next slice closes it as unresolved.
* *A second effect after a crash.* A claim whose slice died is taken over when it
  expires, also for a tool that is not idempotent, and its handler runs again
  (`12_tool_orchestrator.md:303`: "Non-idempotent unknown receipt is not retried
  automatically."). Sandbox jobs are protected by their own receipt (`SandboxOnce`);
  other handlers are not, which is why `OperationReceipts` counts effects as begun
  or not.
* *A sandbox failure is final.* `tools/mission/runtime.py:1136-1142` passes no
  sequence number of the item, so every call of one caller with the same input has
  the same sandbox key, and a failure that is reported as recoverable (1179;
  `sandbox/runtime.py:465`: "A new mission item may retry after provider recovery.")
  is answered from the old receipt for the rest of the Mission.
* *A success told as a failure.* A call that is cancelled while its success is being
  recorded is reported as failed although its receipt says it succeeded.
* *Reads without a lock.* `resume` (`admission.py:206-223`) decides on a row it read
  before; the resumption of a free Mission that was paused with the reason `budget`
  is refused (247).
* *Deleted files and previews.* An update whose file is deleted under it is
  reported as saved (`not_found` is not one of the reasons `_write_prism` looks
  for); the cleanup of files does not spare the preview of an item its commit still
  holds (`preview_store.py:212`).

## 5. Proofs

The theorems about `MissionLease` hold for every set of Missions, workspaces,
workers and every bound, under the named assumptions of that module.

* `TypeCorrect` (`MissionLease_proofs`): `Spec => []TypeOK`. `TypeOK` is not
  inductive: a driver at work must have a Mission (`BusyHasMission`). The
  lemmas follow the module: helpers that build a record, then `Write` and
  `EndSlice`, then one lemma per group of actions.
* `GenerationBuysOneLease`: `Spec => []OneLeasePerGeneration`.
* `SlotIsExclusive`: `Spec => []OneSlotPerWorkspace`, assuming `~SlowCommits`:
  without it a late heartbeat breaks the property (section 4).
* `NoMissionIsLost`: `Spec => []AlwaysRecoverable`.

The last three, and those of `MissionDrive_proofs`, share one argument. Whatever the
action, what it does to the row of one Mission is one of a few *row steps* (`Reserved`, `Claimed`, `Driven`,
`Ended`, `Prompted`, `Lapsed`), with the guards that matter, and all other rows
stay (`EveryRowStep`). Each invariant then needs one case per row step and not
one per action.

`MissionDrive_proofs` adds what needs the drivers too:

* `NobodyDrivesAWait` (`OnlyRunningIsDriven`) and `NothingAfterTheEnd`
  (`TerminalIsQuiet`). Every step is a worker's own or leaves it a *bystander*
  (`OwnOrBystander`): while it is fresh nobody has moved the status of its Mission
  or taken a command away, and while it has the lease only a Mission that waits is
  moved. `DriveInv(w)` is the inductive part, stable under what bystanders see: a
  Mission handed to w does not wait without a command, past the boundary it runs,
  and no model call is open where a slice may end.
* `TermHasOneDriver` and `SupersededStaysSilent`, without an assumption on
  `SlowCommits`: when transactions are slow two Missions of a workspace may have a
  lease at once, but a term still has one driver, however often its message is
  repeated, and a Mission is written by one term after the other. `TermInv` says
  that nobody drives or has written a term the row has not reached; a claim takes
  the next one, which nobody drives yet (`DriverTerm`, `ClaimTerm`). It was checked on
  the instances of `lease_slot` and `lease_commands` before it was proved.
* `NothingIsPassedOver` (`CompletionIsDrained`) and `NoCancelIsLost`
  (`CancelIsKept`). What a step does to the commands of a Mission is `Kept`,
  `Arrived` or `Paged`; `CommandInv` says that a cancel behind the cursor of a live
  Mission is its pending control and that more is left to apply, for every
  `PageLimit` and any number of commands.
* `FencesImplementSlot`: `Spec => ImplementsSlot`, assuming `~SlowCommits` like
  `SlotIsExclusive`, on which it rests. The other half is `LeaseOrDispatch`: a lease
  consumes its generation and none is reserved while it is active, so a turn that
  ends leaves the slot. A reservation is a `Take`, a claim a `Begin`, a driver's
  write a `Write`, the end of a turn a last `Write` or a `Leave`, the rest stutters.

For `WorkspaceTurns`, for any number of Missions: `TypeCorrect` and `EveryPeerOnce`
(`BoundedOvertaking`). `Served(m)` is the set of the peers that have had their turn:
neither ahead of m in line nor reserved for. While m stays in line `Served(m)` only
grows, and whoever overtakes m enters it, so the count never exceeds its cardinality
(`TurnInv`); that the oldest Mission is ahead of all others needs the line to be a
total order (`LineInv`).

For `ReviewCommit`, under `ReviewAssumption` alone, every property of the run
`commits` is a theorem for any callers and bounds: `ReviewTypeCorrect`,
`ApplyingHoldsCandidate`, `WriteHappensOnce`, `SavedIsWritten`,
`WithdrawnStaysUnwritten`, `NoEditIsLost`, and `ReviewKeepsPromise`, the
implementation of `Materialization`. The inductive invariant `Inv` adds to the
properties what they rest on:

* `OneEach` and `LeaseOutlastsCall`: an attempt has one call, and unless calls are
  slow it keeps its lease while that call works;
* `TargetShape`: what a target of each kind can hold, and so that a stamped
  record is found again by a replay unless something was deleted;
* `ReceiptIsTrue`: a call that is about to report success has seen a write;
* `OpenIsKept`, `CommittedTogether`: item, preview and commit agree;
* `CalmKeepsCommit`, `CalmFailsUnwritten`: in a calm world the attempt that fails
  has found nothing written. An earlier attempt that did write would have been
  replayed, because its stamped record was found. This is the step that a
  surprise breaks, and the heart of the refinement.

For `ChatTurns`, for any calls, requests, threads, workers and faults:

* `TypeCorrect`, with `TypeInv`: a process at work knows its run;
* `SuccessSettled`: `SettledInv` says that a worker that is about to report a success
  or replays one works for a settled row; a settled row stays so;
* `StreamEndsAfterTurn`: `EndInv` says that a run with an owner has been claimed and
  that whoever interrupts a turn or closes a stream works for a terminal run;
* `ResultKept`: only an owner of a *running* run, or a canceller of an active one,
  writes a status;
* `OneTurnPerThread`: `ScheduleInv` adds what an admission knows between its steps:
  under its locks the active runs of its thread are among those it has seen, and no
  other call creates one. `Neutral` names the steps that change neither
  status nor owner, which are most;
* `AskedAndAnsweredOnce` (`AnsweredOnce`). What a step does to the billing rows and
  the conversations is one of four *moves* (`ConversationMoves`): it leaves the
  conversations alone and closes an open authorization at most (`Quiet`), or it
  asks, answers or withdraws the question of one run (`Asks`, `Answers`,
  `Withdraws`). `ConversationInv` says that what was said of a request stands in
  the thread of its runs (`SaidInThread`, which needs that two runs of a
  request share their thread, `OneRun`), each side once (`SaidOnce`), and as the
  billing row tells (`SaidAsBilled`); that processes work on runs that exist
  (`WorksOnRuns`) carries it through the workers. It was checked on the instance of
  `chat_turns` before it was proved;
* `TurnsKeepBilling` (`ImplementsBilling`): the four moves are the steps of
  `TurnBilling` or stutter;
* `SuccessAnswered`: a turn that ended as a success has its question and, below it,
  its answer in its own thread, by `SettledInv` and `ConversationInv` together.

For `Credits`, for any users, any finite sets of Missions and turns, and any prices:
`TypeCorrect` (no hold is ever negative), `Covered`, `EndReturnsHold`,
`SettlementIsFinal`, `StartIsReserved`, `BooksAlwaysBalance`, `FreeTokensGivenOnce` and
`RestHoldsNothing`.

* `HoldsAreCovered` is inductive without the sums: a settlement or release that leaves
  something held has not been clamped, so it returned just what it held and charged
  no more. `EndReturnsHold`, `SettlementIsFinal` and `StartIsReserved` rest on
  `AccountsMatch`, which ties the status of a Mission to that of its reservation and
  its expiry.
* *Sums.* `Sum` is a fold of the community modules, in an order nobody knows. What a
  column of the user row has to do with it is said by four laws, for every finite set:
  the sum is a natural number (`SumType`), any member may be taken out first
  (`SumRemove`), equal values have equal sums (`SumSame`), and when one member
  changes its value, or joins or leaves the set, the sum changes by just that (`SumMoves`).
  The induction theorems of the library are out of reach of the prover, so each is
  proved from a smallest counterexample (`SmallestSet`: every set of finite sets that
  is not empty has a member none of whose proper subsets is in it), and so is the
  existence of the recursive function behind the fold (`AdderExists`).
* `BooksInv` adds to `BooksBalance` what makes it inductive: only a settled account has
  been charged, and a Mission has no free tokens (`Entries`). With the free tokens
  that are held counted in (`FreeBooked`), it also gives `FreeTokensOnce`: a
  settlement uses up at most what its own hold has set aside.
* `RestHoldsNothing`: whoever has no open reservation or authorization has nothing
  held, a sum over the empty set.

For `ToolOperations`, for any plan that satisfies `PlanAssumption` and any leases and
surprises: `TypeCorrect`, `HoldersHaveClaims`, `JobsRunOnce`, `ReceiptsAreKept` (the
refinement). Every step of an invocation is one of eight *moves* on the receipts
(`Rests`, `Keeps`, `TakesTool`, `TakesJob`, `Records`, `Finalizes`, `LosesTool`,
`LosesJob`), with what it does to the effects (`EffectMove`) and to the outcome
(`OutcomeMove`); the lemmas show this once per action, and each invariant is then
proved per move:

* `Sandboxed`: only sandbox tools enter the sandbox;
* `ClaimsInv`: who works holds the latest claim of its key (`Holds`), and two
  invocations never hold the same one (`Apart`);
* `OnceInv`: between its inspection and its claim nobody else claims a job, and a
  job about to run never ran;
* `OutcomeInv`: a success that is to be recorded rests on an effect or a receipt.

`CompletedCallsHappened` puts the two layers together: a call that the Mission's
ledger reports as completed has a receipt of success and its effect, the beginning of
its handler or a job that ran exactly once under a receipt of its own. It is
shown of the abstract receipts first (`Sound` is inductive for `OperationReceipts`)
and carried over by the refinement.

For `MissionEvents`, for any Missions, page size, transactions, switches and faults:
`TypeCorrect`, `ViewOnlyAdvances`, `StreamIsComplete` and `PanelIsCurrent`. Two chains
of facts meet in the last:

* on the wire (`StreamInv`): the browser's cursor, the hints on their way and the
  cursor of the server follow each other strictly in the order of the stamps
  (`OrderInv`), so a break falls back to a cursor behind all that it loses, and a
  page that is full ends before what it leaves; a hint is of the row as it is, with
  its stamp, or older (`FrameInv`), and tells the browser nothing it had;
* on the panel (`PanelInv`): what the browser was told of the Mission shown is in the
  view, or a refresh is due or under way that will read it, or its loss is on record.
  A switch that has read needs the same of what it read until it arrives.

Only model-checked is liveness (`CommandIsConsumed`, `MissionRests`, `TurnComes`,
`EveryTurnEnds`, `HoldReturns`, `EveryCallIsReported`, `RefreshCatchesUp`): liveness
under fairness and `ENABLED` are outside what the prover handles. Every safety
property of a passing run is a theorem.

## 6. Not modelled

* *The item ledger as data*: items, snapshots, model-call pairs, closing of drafts,
  the resource ledger. What decides control (open or unresolved calls, operations
  and their receipts, settlement) is in `MissionLease`, `Credits` and
  `ToolOperations`.
* *Decisions*: what a model, a quality check or a stage review answers is a choice;
  the stage algebra and the budgets are pure functions that unit tests cover.
* *Subagents*: the loop of a job is model output; the capacity slots in Redis are
  documented as best effort and promise nothing a model could check.
* *Permissions*: one request at a time, resolved in one transaction; the effect on a
  Mission is that of a resumption.
* *Stream bridge, task progress*: buffers for the browser, rebuilt from the rows.
* *Providers, tools, HTTP*: what happens behind a port is an outcome, its loss or
  its delay. The files, paths and quotas of the sandbox are outcomes of a job.
* *The other domains of the DataService*: writes of single rows in one
  transaction. Where a commit writes them they are in `ReviewCommit`.
* *The other routes and panels, configuration, migrations*: routing, formatting,
  paging and schema. None of them is authoritative for any state above.

`PROJECT.json` has the reason for each part, the map from definitions to lines, the
hazards with the properties that cover them, and, for the two without one, why.
