------------------------------ MODULE Credits ------------------------------
(***************************************************************************)
(* The credits of a user and everything that holds or spends them: the     *)
(* reservation of each Mission (credit_reservations) and the authorization *)
(* of each chat turn (thread_turn_billings).                               *)
(*                                                                         *)
(*   owner     the user each Mission and chat turn belongs to, fixed       *)
(*   credits   users.credits, may be negative                              *)
(*   held      users.reserved_credits                                      *)
(*   consumed  users.thread_consumed_tokens                                *)
(*   free_held users.reserved_thread_free_tokens                           *)
(*   funded    what grants, codes and admins ever put in, less what admins *)
(*             took out (a history variable)                               *)
(*   account   the reservation of a Mission, the authorization of a turn   *)
(*   mission   the part of the Mission that decides about its account      *)
(*                                                                         *)
(* Every DataService command locks the user row before it writes one of    *)
(* these columns and is one transaction, so one command is one step.  A    *)
(* command over several rows (deleting a thread, a page of the reconciler) *)
(* is a step for each row: nobody sees the rows in between.                *)
(* MissionLease tells which driver may write a Mission; here a driver is   *)
(* anybody who may.  A token costs one credit.                             *)
(***************************************************************************)
EXTENDS Integers, FiniteSets, Functions

CONSTANTS
    User, Mission, Turn,
    Estimates,      \* max_charge_credits of the Mission policies, 0 is free
    BaseFee,        \* base fee of a completed Mission
    MaxUsage,       \* bound on the cost of a Mission's model calls
    MaxOverdraft,   \* max_overdraft_credits, for chat only
    FreeTokens,     \* free tokens of each user, for chat only
    TurnTokens,     \* chat_turn_token_reserve
    TurnCredits,    \* chat_turn_max_credits
    MaxTurnUsage,   \* bound on the tokens a chat turn really uses
    Grants,         \* amounts granted or redeemed
    Deductions,     \* amounts deducted by an admin
    MaxFunded       \* bound on the funds of a user

\* Missions and chat turns are rows of a database: finitely many.
ASSUME CreditAssumption ==
    /\ Mission \cap Turn = {}
    /\ IsFiniteSet(Mission \cup Turn)
    /\ Estimates \cup Grants \cup Deductions \subseteq Nat
    /\ {BaseFee, MaxUsage, MaxOverdraft, FreeTokens, TurnTokens, TurnCredits,
        MaxTurnUsage, MaxFunded} \subseteq Nat

VARIABLES owner, credits, held, consumed, free_held, funded, account, mission

userVars == <<credits, held, consumed, free_held>>
vars == <<owner, userVars, funded, account, mission>>

Command == {"mode", "steer", "pause", "cancel"}
Terminal == {"completed", "failed", "cancelled"}

\* "reserved" is AUTHORIZED for a chat turn.  free and tokens: the free tokens
\* a turn holds, and the tokens it used.
Account == [status : {"none", "reserved", "settled", "released", "expired"},
            amount : Nat, charge : Nat, expiry : {"none", "live", "past"},
            free : Nat, tokens : Nat]

\* control: what the commands not yet applied amount to, see Outranks.
\* awake: the next wakeup is set.  call: "lost" is open, but its driver is gone.
MissionState == [status : {"none", "working", "waiting"} \cup Terminal,
                 reason : {"none", "budget", "input"}, estimate : Nat,
                 control : Command \cup {"none"}, awake : BOOLEAN,
                 usage : Nat, call : {"closed", "open", "lost", "unresolved"}]

TypeOK ==
    /\ owner \in [Mission \cup Turn -> User]
    /\ credits \in [User -> Int]
    /\ held \in [User -> Nat]
    /\ consumed \in [User -> Nat]
    /\ free_held \in [User -> Nat]
    /\ funded \in [User -> Int]
    /\ account \in [Mission \cup Turn -> Account]
    /\ mission \in [Mission -> MissionState]

NoAccount == [status |-> "none", amount |-> 0, charge |-> 0, expiry |-> "none",
              free |-> 0, tokens |-> 0]
NoMission == [status |-> "none", reason |-> "none", estimate |-> 0, control |-> "none",
              awake |-> FALSE, usage |-> 0, call |-> "closed"]

Init ==
    /\ owner \in [Mission \cup Turn -> User]
    /\ credits = [u \in User |-> 0]
    /\ held = [u \in User |-> 0]
    /\ consumed = [u \in User |-> 0]
    /\ free_held = [u \in User |-> 0]
    /\ funded = [u \in User |-> 0]
    /\ account = [x \in Mission \cup Turn |-> NoAccount]
    /\ mission = [m \in Mission |-> NoMission]

-----------------------------------------------------------------------------
(* Holds and charges.                                                      *)

Least(a, b) == IF a < b THEN a ELSE b
Most(a, b) == IF a > b THEN a ELSE b
Less(a, b) == IF a > b THEN a - b ELSE 0

Spendable(x) == credits[owner[x]] - held[owner[x]]
Active(x) == account[x].status = "reserved"
Past(x) == Active(x) /\ account[x].expiry = "past"

Held(x, amount) == [held EXCEPT ![owner[x]] = @ + amount]
Returned(x) == [held EXCEPT ![owner[x]] = Less(@, account[x].amount)]

\* create_reservation or reactivate_reservation: no overdraft for Missions.
CanReserve(m, amount) == amount <= Spendable(m)
Reserved(m, amount) ==
    /\ account' = [account EXCEPT ![m] = [NoAccount EXCEPT
           !.status = "reserved", !.amount = amount, !.expiry = "live"]]
    /\ held' = Held(m, amount)

Charge(x, cost) == Least(cost, account[x].amount)

\* settle_reservation, and the settlement of a chat turn.
Settled(x, cost, tokens) ==
    /\ account' = [account EXCEPT ![x].status = "settled",
                                  ![x].charge = Charge(x, cost),
                                  ![x].tokens = tokens]
    /\ held' = Returned(x)
    /\ credits' = [credits EXCEPT ![owner[x]] = @ - Charge(x, cost)]

\* _calculate_settlement: no usage, no charge; a base fee on success only.
MissionCost(m, status) ==
    IF mission[m].usage = 0 THEN 0
    ELSE IF status = "completed" THEN Most(mission[m].usage, BaseFee)
    ELSE mission[m].usage

-----------------------------------------------------------------------------
(* Admission, waiting and resumption of a Mission.                         *)

Goes(m, status, reason) == [mission EXCEPT ![m].status = status, ![m].reason = reason,
                                           ![m].awake = status = "working"]

\* admit: an estimate of zero is a free policy; credits that do not suffice
\* make the Mission wait.
Admit(m, estimate) ==
    LET covered == estimate = 0 \/ CanReserve(m, estimate) IN
    /\ mission[m].status = "none"
    /\ mission' = [(IF covered THEN Goes(m, "working", "none")
                               ELSE Goes(m, "waiting", "budget"))
                   EXCEPT ![m].estimate = estimate]
    /\ IF covered /\ estimate > 0 THEN Reserved(m, estimate)
                                  ELSE UNCHANGED <<account, held>>
    /\ UNCHANGED <<owner, credits, consumed, free_held, funded>>

\* Mutant of ResumeBudget: a Mission that had a reservation is just resumed.
ResumeBudgetOnce(m) ==
    /\ mission[m].status = "waiting"
    /\ mission[m].reason = "budget"
    /\ mission[m].estimate > 0
    /\ account[m].status # "settled"
    /\ IF account[m].status # "none"
         THEN UNCHANGED <<account, held>>
         ELSE /\ CanReserve(m, mission[m].estimate)
              /\ Reserved(m, mission[m].estimate)
    /\ mission' = Goes(m, "working", "none")
    /\ UNCHANGED <<owner, credits, consumed, free_held, funded>>

\* resume, for a Mission that waits for budget: the amount of its admission is
\* reserved again, unless it still is.  A free Mission is refused, and so is a
\* settled reservation.
ResumeBudget(m) ==
    /\ mission[m].status = "waiting"
    /\ mission[m].reason = "budget"
    /\ mission[m].estimate > 0
    /\ account[m].status # "settled"
    /\ IF Active(m)
         THEN UNCHANGED <<account, held>>
         ELSE /\ CanReserve(m, mission[m].estimate)
              /\ Reserved(m, mission[m].estimate)
    /\ mission' = Goes(m, "working", "none")
    /\ UNCHANGED <<owner, credits, consumed, free_held, funded>>

\* resume, for any other reason: straight to resume_run.
ResumeInput(m) ==
    /\ mission[m].status = "waiting"
    /\ mission[m].reason = "input"
    /\ mission' = Goes(m, "working", "none")
    /\ UNCHANGED <<owner, userVars, funded, account>>

\* A cancel prevails over a pause, whatever their order; a change of the review
\* mode alone decides nothing.
Outranks(c, d) ==
    \/ c = "cancel"
    \/ c = "pause" /\ d # "cancel"
    \/ c = "steer" /\ d \notin {"cancel", "pause"}
    \/ c = "mode" /\ d = "none"

\* append_command_once.  The user's steers are turned into answers while the
\* Mission waits; review feedback, which acts like a steer, is not.
AppendCommand(m, command) ==
    /\ mission[m].status \in {"working", "waiting"}
    /\ command = "steer" /\ mission[m].status = "waiting" => mission[m].usage > 0
    /\ mission' = [mission EXCEPT ![m].control = IF Outranks(command, @) THEN command ELSE @,
                                  ![m].awake = TRUE]
    /\ UNCHANGED <<owner, userVars, funded, account>>

-----------------------------------------------------------------------------
(* What the driver of a Mission does to its account.                       *)

\* A driver can claim the Mission, or has.
Driven(m) == \/ mission[m].status = "working"
             \/ mission[m].status = "waiting" /\ mission[m].awake

StartModelCall(m) ==
    /\ mission[m].status = "working"
    /\ mission[m].call = "closed"
    /\ mission[m].usage < MaxUsage
    /\ mission' = [mission EXCEPT ![m].call = "open"]
    /\ UNCHANGED <<owner, userVars, funded, account>>

\* The receipt of the call, or the record of a call that failed (usage 0).
CloseModelCall(m, usage) ==
    /\ mission[m].status = "working"
    /\ mission[m].call = "open"
    /\ mission[m].usage + usage <= MaxUsage
    /\ mission' = [mission EXCEPT ![m].call = "closed", ![m].usage = @ + usage]
    /\ UNCHANGED <<owner, userVars, funded, account>>

\* The driver of the call cannot tell what it used, or has died or lost its
\* lease, and a later driver finds the call.
LeaveUnresolved(m) ==
    /\ Driven(m)
    /\ mission[m].call \in {"open", "lost"}
    /\ mission' = [mission EXCEPT ![m].call = "unresolved"]
    /\ UNCHANGED <<owner, userVars, funded, account>>

WaitForUser(m, reason) ==
    /\ mission[m].status = "working"
    /\ mission[m].call = "closed"
    /\ mission' = Goes(m, "waiting", reason)
    /\ UNCHANGED <<owner, userVars, funded, account>>

\* Mutant of SettleTerminal: whatever did not complete costs nothing, and
\* keeps what it held.
SettleCompleted(m, status) ==
    IF Active(m) /\ status = "completed"
      THEN Settled(m, MissionCost(m, status), 0)
      ELSE UNCHANGED <<account, held, credits>>

\* _settle_terminal_missions, in the transaction that ends the Mission and
\* rolls it back while a call is open.  Without a reservation, or with an
\* expired one, nothing is charged.
SettleTerminal(m, status) ==
    IF Active(m) THEN Settled(m, MissionCost(m, status), 0)
                 ELSE UNCHANGED <<account, held, credits>>

\* Commands that a failure leaves unapplied are never read again.
End(m, status) ==
    /\ mission[m].call = "closed"
    /\ mission' = [Goes(m, status, "none") EXCEPT ![m].control = "none"]
    /\ SettleTerminal(m, status)
    /\ UNCHANGED <<owner, consumed, free_held, funded>>

Complete(m) ==
    /\ mission[m].status = "working"
    /\ mission[m].control = "none"
    /\ End(m, "completed")

Fail(m) == mission[m].status = "working" /\ End(m, "failed")

\* A call nobody can account for: the hold stays, and no longer expires, until
\* somebody reconciles the usage.  No code does.
FailUnresolved(m) ==
    /\ Driven(m)
    /\ mission[m].call = "unresolved"
    /\ mission' = [Goes(m, "failed", "none") EXCEPT ![m].control = "none"]
    /\ account' = [account EXCEPT ![m].expiry = "none"]
    /\ UNCHANGED <<owner, userVars, funded>>

\* The command boundary: a cancel before a pause, and anything but a change of
\* the review mode ends a wait.  Nobody looks at the reservation.
ApplyCommands(m) ==
    /\ Driven(m)
    /\ mission[m].call = "closed"
    /\ mission[m].control \in {"mode", "steer", "pause"}
    /\ mission' = [(CASE mission[m].control = "pause" -> Goes(m, "waiting", "input")
                      [] mission[m].control = "mode" /\ mission[m].status = "waiting"
                           -> Goes(m, "waiting", mission[m].reason)
                      [] OTHER -> Goes(m, "working", "none"))
                   EXCEPT ![m].control = "none"]
    /\ UNCHANGED <<owner, userVars, funded, account>>

ApplyCancel(m) ==
    /\ Driven(m)
    /\ mission[m].control = "cancel"
    /\ End(m, "cancelled")

-----------------------------------------------------------------------------
(* Time and the reconcilers.                                               *)

Lapse(x) ==
    /\ Active(x)
    /\ account[x].expiry = "live"
    /\ account' = [account EXCEPT ![x].expiry = "past"]
    /\ UNCHANGED <<owner, userVars, funded, mission>>

\* _release_locked_reservation, and _release_locked of a chat turn.
Released(x, status) ==
    /\ account' = [account EXCEPT ![x].status = status]
    /\ held' = Returned(x)

\* Mutant of ExpireReservation: the hold of an expired reservation stays.
ExpireSilently(m) ==
    /\ Past(m)
    /\ account' = [account EXCEPT ![m].status = "expired"]
    /\ mission' = Goes(m, "waiting", "budget")
    /\ UNCHANGED <<owner, userVars, funded>>

\* Mutant of ExpireReservation: a Mission that waits is left alone.
ExpireOfWorking(m) ==
    /\ Past(m)
    /\ mission[m].status = "working"
    /\ Released(m, "expired")
    /\ mission' = Goes(m, "waiting", "budget")
    /\ UNCHANGED <<owner, credits, consumed, free_held, funded>>

\* reconcile_expired_reservations: the reservation expires and pause_run makes
\* the Mission wait, whatever it did and whatever it waited for.  A driver of a
\* waiting Mission keeps its lease.  (That a terminal Mission has nothing left
\* to expire is NoStrandedHold.)
ExpireReservation(m) ==
    /\ Past(m)
    /\ mission[m].status \in {"working", "waiting"}
    /\ Released(m, "expired")
    /\ \E awake \in {FALSE, mission[m].status = "waiting" /\ mission[m].awake} :
         mission' = [Goes(m, "waiting", "budget") EXCEPT
             ![m].awake = awake,
             ![m].call = IF @ = "open" THEN "lost" ELSE @]
    /\ UNCHANGED <<owner, credits, consumed, free_held, funded>>

-----------------------------------------------------------------------------
(* Chat turns.                                                             *)

\* Mutant of FreeHold: the turns that are under way are not counted.
FreeHoldOfHistory(t) == Least(Less(FreeTokens, consumed[owner[t]]), TurnTokens)

\* calculate_chat_turn_authorization.
FreeHold(t) ==
    Least(Less(FreeTokens, consumed[owner[t]] + free_held[owner[t]]), TurnTokens)
CreditHold(t) == Least(TurnTokens - FreeHold(t), TurnCredits)

\* authorize: the only reservation that may overdraw.
Authorize(t) ==
    /\ account[t].status = "none"
    /\ CreditHold(t) <= Spendable(t) + MaxOverdraft
    /\ account' = [account EXCEPT ![t] = [NoAccount EXCEPT
           !.status = "reserved", !.amount = CreditHold(t), !.free = FreeHold(t),
           !.expiry = "live"]]
    /\ held' = Held(t, CreditHold(t))
    /\ free_held' = [free_held EXCEPT ![owner[t]] = @ + FreeHold(t)]
    /\ UNCHANGED <<owner, credits, consumed, funded, mission>>

\* The user's holds cover this one; anything else is a conflict.
Consistent(t) == /\ account[t].amount <= held[owner[t]]
                 /\ account[t].free <= free_held[owner[t]]

FreeReturned(t) == [free_held EXCEPT ![owner[t]] = @ - account[t].free]

\* complete: refused as soon as the authorization is past its expiry.
CompleteTurn(t, tokens) ==
    /\ Active(t)
    /\ ~Past(t)
    /\ Consistent(t)
    /\ Settled(t, Less(tokens, account[t].free), tokens)
    /\ free_held' = FreeReturned(t)
    /\ consumed' = [consumed EXCEPT ![owner[t]] = @ + tokens]
    /\ UNCHANGED <<owner, funded, mission>>

\* Mutant of ReleaseTurn: whatever became of the authorization.
ReleaseAnyTurn(t) ==
    /\ account[t].status # "none"
    /\ Consistent(t)
    /\ Released(t, "released")
    /\ free_held' = FreeReturned(t)
    /\ UNCHANGED <<owner, credits, consumed, funded, mission>>

\* release, release_by_idempotency_key, rollback and delete_thread.
ReleaseTurn(t) ==
    /\ Active(t)
    /\ Consistent(t)
    /\ Released(t, "released")
    /\ free_held' = FreeReturned(t)
    /\ UNCHANGED <<owner, credits, consumed, funded, mission>>

\* reconcile_expired.
ExpireTurn(t) ==
    /\ Past(t)
    /\ Consistent(t)
    /\ Released(t, "expired")
    /\ free_held' = FreeReturned(t)
    /\ UNCHANGED <<owner, credits, consumed, funded, mission>>

-----------------------------------------------------------------------------
(* Grants, redeemed codes, bonuses and the adjustments of an admin.        *)

\* Mutant of MayAdjust: a deduction is only held against the balance.
MayDeductBalance(u, amount) == amount < 0 => credits[u] + amount >= 0

\* A deduction leaves what active work holds.
MayAdjust(u, amount) ==
    amount < 0 /\ held[u] > 0 => credits[u] + amount >= held[u]

Adjust(u, amount) ==
    /\ MayAdjust(u, amount)
    /\ funded[u] + amount \in -MaxFunded .. MaxFunded
    /\ credits' = [credits EXCEPT ![u] = @ + amount]
    /\ funded' = [funded EXCEPT ![u] = @ + amount]
    /\ UNCHANGED <<owner, held, consumed, free_held, account, mission>>

-----------------------------------------------------------------------------
MissionStep(m) ==
    \/ \E estimate \in Estimates : Admit(m, estimate)
    \/ ResumeBudget(m) \/ ResumeInput(m)
    \/ \E command \in Command : AppendCommand(m, command)
    \/ StartModelCall(m)
    \/ \E usage \in 0 .. MaxUsage : CloseModelCall(m, usage)
    \/ LeaveUnresolved(m)
    \/ \E reason \in {"budget", "input"} : WaitForUser(m, reason)
    \/ Complete(m) \/ Fail(m) \/ FailUnresolved(m)
    \/ ApplyCommands(m) \/ ApplyCancel(m)
    \/ ExpireReservation(m)

TurnStep(t) ==
    \/ Authorize(t)
    \/ \E tokens \in 1 .. MaxTurnUsage : CompleteTurn(t, tokens)
    \/ ReleaseTurn(t) \/ ExpireTurn(t)

Next ==
    \/ \E m \in Mission : MissionStep(m)
    \/ \E t \in Turn : TurnStep(t)
    \/ \E x \in Mission \cup Turn : Lapse(x)
    \/ \E u \in User : \/ \E amount \in Grants : Adjust(u, amount)
                       \/ \E amount \in Deductions : Adjust(u, -amount)

Spec == Init /\ [][Next]_vars

\* Time passes and Celery beat runs both reconcilers; nothing obliges users,
\* admins, workers or models.
Fairness ==
    /\ \A x \in Mission \cup Turn : WF_vars(Lapse(x))
    /\ \A m \in Mission : WF_vars(ExpireReservation(m))
    /\ \A t \in Turn : WF_vars(ExpireTurn(t))
FairSpec == Spec /\ Fairness

-----------------------------------------------------------------------------
(* What must hold.                                                         *)

AccountsOf(u) == {x \in Mission \cup Turn : owner[x] = u}
ActiveOf(u) == {x \in AccountsOf(u) : Active(x)}
Sum(value, accounts) ==
    SumFunctionOnSet([x \in accounts |-> value[x]], accounts)

\* The columns of the user row are what the rows of the accounts add up to:
\* no order of reservations, reactivations, settlements, releases, expiries
\* and adjustments loses a credit, or returns or charges one twice.
BooksBalance ==
    \A u \in User :
        /\ held[u] = Sum([x \in Mission \cup Turn |-> account[x].amount], ActiveOf(u))
        /\ free_held[u] = Sum([x \in Mission \cup Turn |-> account[x].free], ActiveOf(u))
        /\ consumed[u] = Sum([x \in Mission \cup Turn |-> account[x].tokens], AccountsOf(u))
        /\ credits[u] = funded[u]
             - Sum([x \in Mission \cup Turn |-> account[x].charge], AccountsOf(u))

\* Whatever active work holds can be charged without taking the user further
\* into debt than the overdraft of chat allows, although deductions, Missions
\* and chat turns are admitted against different bounds.
HoldsAreCovered ==
    \A u \in User : held[u] > 0 => credits[u] - held[u] >= -MaxOverdraft

\* The free tokens are given once, however the turns of a user overlap.
FreeTokensOnce ==
    \A u \in User :
        Sum([x \in Mission \cup Turn |-> Least(account[x].tokens, account[x].free)],
            AccountsOf(u)) <= FreeTokens

\* A finished Mission holds credits only for a call nobody can account for,
\* and such a hold never expires.
NoStrandedHold ==
    \A m \in Mission :
        mission[m].status \in Terminal /\ Active(m)
            => mission[m].call = "unresolved" /\ account[m].expiry = "none"

\* What was charged stays charged: neither a retry, a late release, an expiry
\* nor a resumption of the Mission reopens a settled account.
SettledIsFinal ==
    [][\A x \in Mission \cup Turn :
          account[x].status = "settled" => account'[x] = account[x]]_vars

AwaitsReconciliation(x) ==
    x \in Mission /\ mission[x].status = "failed" /\ mission[x].call = "unresolved"

\* No hold lasts for ever, whoever crashes, leaves or never answers, except
\* one that waits for a reconciliation of usage.
HoldReturns ==
    \A x \in Mission \cup Turn : []<>(~Active(x) \/ AwaitsReconciliation(x))

\* 02_mission_runtime.md:157: no billable Mission starts without a reservation.
\* So it is of admission, of resuming a wait for budget and of all that happens
\* while it works; but a command, or the end of a wait for something else, puts
\* a Mission back to work whose reservation was refused or has expired.
WorkIsReserved ==
    [][\A m \in Mission :
          mission'[m].status = "working" /\ mission'[m].estimate > 0 /\ ~Active(m)'
            => \/ mission[m].status = "working" /\ ~Active(m)
               \/ mission[m].status = "waiting" /\ mission[m].reason = "input"
               \/ mission[m].control = "steer"]_vars
=============================================================================
