-------------------------- MODULE Credits_proofs ---------------------------
(***************************************************************************)
(* For any users, Missions, chat turns and prices: the types, the cover of *)
(* all holds, the end of every Mission's hold, the finality of every       *)
(* settlement, the balance of the books and the free tokens of a user.     *)
(*                                                                         *)
(* HoldsAreCovered is inductive without the books: a settlement or release *)
(* that leaves a hold (held' > 0) cannot have been clamped, so it returned *)
(* exactly what it held, and charged no more than that.  The books need    *)
(* sums over finite sets, whose laws are proved here first.                *)
(***************************************************************************)
EXTENDS Credits, FiniteSetTheorems, WellFoundedInduction, TLAPS

LEMMA HoldType ==
    ASSUME TypeOK, NEW x \in Mission \cup Turn
    PROVE  /\ owner[x] \in User
           /\ account[x] \in Account
           /\ Spendable(x) \in Int
           /\ Returned(x) \in [User -> Nat]
           /\ \A a \in Nat : Held(x, a) \in [User -> Nat]
  BY DEF TypeOK, Spendable, Returned, Held, Less, Account

LEMMA FreeHoldType ==
    ASSUME TypeOK, NEW t \in Turn
    PROVE  FreeHold(t) \in Nat /\ CreditHold(t) \in Nat
  <1>1. consumed[owner[t]] + free_held[owner[t]] \in Nat
    BY DEF TypeOK
  <1>2. FreeTokens \in Nat /\ TurnTokens \in Nat /\ TurnCredits \in Nat
    BY CreditAssumption
  <1>3. FreeHold(t) \in Nat /\ FreeHold(t) <= TurnTokens
    BY <1>1, <1>2 DEF FreeHold, Less, Least
  <1>4. QED
    BY <1>2, <1>3 DEF CreditHold, Least

LEMMA ReservedType ==
    ASSUME TypeOK, NEW m \in Mission, NEW a \in Nat, Reserved(m, a)
    PROVE  /\ account' \in [Mission \cup Turn -> Account]
           /\ held' \in [User -> Nat]
  <1>1. [NoAccount EXCEPT !.status = "reserved", !.amount = a, !.expiry = "live"] \in Account
    BY DEF NoAccount, Account
  <1>2. QED
    BY <1>1, HoldType DEF TypeOK, Reserved

LEMMA SettledType ==
    ASSUME TypeOK, NEW x \in Mission \cup Turn, NEW cost \in Nat, NEW tokens \in Nat,
           Settled(x, cost, tokens)
    PROVE  /\ account' \in [Mission \cup Turn -> Account]
           /\ held' \in [User -> Nat]
           /\ credits' \in [User -> Int]
  <1>1. Charge(x, cost) \in Nat
    BY HoldType DEF Charge, Least, Account
  <1>2. [account[x] EXCEPT !.status = "settled", !.charge = Charge(x, cost),
                           !.tokens = tokens] \in Account
    BY <1>1, HoldType DEF Account
  <1>3. account' \in [Mission \cup Turn -> Account]
    BY <1>2 DEF TypeOK, Settled
  <1>4. credits' \in [User -> Int]
    BY <1>1, HoldType DEF TypeOK, Settled
  <1>5. QED
    BY <1>3, <1>4, HoldType DEF Settled

LEMMA CostType ==
    ASSUME TypeOK, NEW m \in Mission, NEW status
    PROVE  MissionCost(m, status) \in Nat
  BY CreditAssumption DEF TypeOK, MissionState, MissionCost, Most

LEMMA GoesType ==
    ASSUME TypeOK, NEW m \in Mission,
           NEW status \in {"working", "waiting"} \cup Terminal,
           NEW reason \in {"none", "budget", "input"}
    PROVE  Goes(m, status, reason) \in [Mission -> MissionState]
  <1>1. mission[m] \in MissionState
    BY DEF TypeOK
  <1>2. (status = "working") \in BOOLEAN
    OBVIOUS
  <1>3. [mission[m] EXCEPT !.status = status, !.reason = reason,
                           !.awake = status = "working"] \in MissionState
    BY <1>1, <1>2 DEF MissionState
  <1>4. QED
    BY <1>3 DEF TypeOK, Goes

LEMMA EndType ==
    ASSUME TypeOK, NEW m \in Mission, NEW status \in Terminal, End(m, status)
    PROVE  TypeOK'
  <1>1. mission' \in [Mission -> MissionState]
    <2>1. Goes(m, status, "none") \in [Mission -> MissionState]
      BY GoesType
    <2>2. mission' = [Goes(m, status, "none") EXCEPT ![m].control = "none"]
      BY DEF End
    <2>3. QED
      BY <2>1, <2>2 DEF MissionState
  <1>2. CASE Active(m)
    <2>1. Settled(m, MissionCost(m, status), 0)
      BY <1>2 DEF End, SettleTerminal
    <2>2. QED
      BY <1>1, <2>1, CostType, SettledType DEF End, TypeOK
  <1>3. CASE ~Active(m)
    BY <1>1, <1>3 DEF End, SettleTerminal, TypeOK
  <1>4. QED
    BY <1>2, <1>3

LEMMA MissionTypeStep ==
    ASSUME TypeOK, NEW m \in Mission, MissionStep(m)
    PROVE  TypeOK'
  <1>0. mission[m] \in MissionState /\ account[m] \in Account
    BY DEF TypeOK
  <1>1. ASSUME NEW estimate \in Estimates, Admit(m, estimate)
        PROVE  TypeOK'
    <2>1. estimate \in Nat
      BY CreditAssumption
    <2>2. mission' \in [Mission -> MissionState]
      <3>1. Goes(m, "working", "none") \in [Mission -> MissionState]
            /\ Goes(m, "waiting", "budget") \in [Mission -> MissionState]
        BY GoesType
      <3>2. QED
        BY <1>1, <2>1, <3>1 DEF Admit, MissionState
    <2>3. account' \in [Mission \cup Turn -> Account] /\ held' \in [User -> Nat]
      BY <1>1, <2>1, ReservedType DEF Admit, TypeOK
    <2>4. QED
      BY <1>1, <2>2, <2>3 DEF Admit, TypeOK
  <1>2. CASE ResumeBudget(m)
    <2>1. account' \in [Mission \cup Turn -> Account] /\ held' \in [User -> Nat]
      <3>1. mission[m].estimate \in Nat
        BY <1>0 DEF MissionState
      <3>2. QED
        BY <1>2, <3>1, ReservedType DEF ResumeBudget, TypeOK
    <2>2. QED
      BY <1>2, <2>1, GoesType DEF ResumeBudget, TypeOK
  <1>3. CASE ResumeInput(m)
    BY <1>3, GoesType DEF ResumeInput, TypeOK, userVars
  <1>4. ASSUME NEW command \in Command, AppendCommand(m, command)
        PROVE  TypeOK'
    BY <1>0, <1>4 DEF AppendCommand, TypeOK, MissionState, userVars
  <1>5. CASE StartModelCall(m)
    BY <1>0, <1>5 DEF StartModelCall, TypeOK, MissionState, userVars
  <1>6. ASSUME NEW usage \in 0 .. MaxUsage, CloseModelCall(m, usage)
        PROVE  TypeOK'
    <2>1. mission[m].usage + usage \in Nat
      <3>1. usage \in Nat
        BY CreditAssumption
      <3>2. QED
        BY <1>0, <3>1 DEF MissionState
    <2>2. [mission[m] EXCEPT !.call = "closed", !.usage = @ + usage] \in MissionState
      BY <1>0, <2>1 DEF MissionState
    <2>3. QED
      BY <1>6, <2>2 DEF CloseModelCall, TypeOK, userVars
  <1>7. CASE LeaveUnresolved(m)
    BY <1>0, <1>7 DEF LeaveUnresolved, TypeOK, MissionState, userVars
  <1>8. ASSUME NEW reason \in {"budget", "input"}, WaitForUser(m, reason)
        PROVE  TypeOK'
    BY <1>8, GoesType DEF WaitForUser, TypeOK, userVars
  <1>9. CASE Complete(m)
    BY <1>9, EndType DEF Complete, Terminal
  <1>10. CASE Fail(m)
    BY <1>10, EndType DEF Fail, Terminal
  <1>11. CASE FailUnresolved(m)
    <2>1. mission' \in [Mission -> MissionState]
      <3>1. Goes(m, "failed", "none") \in [Mission -> MissionState]
        BY GoesType DEF Terminal
      <3>2. QED
        BY <1>11, <3>1 DEF FailUnresolved, MissionState
    <2>2. account' \in [Mission \cup Turn -> Account]
      BY <1>0, <1>11 DEF FailUnresolved, TypeOK, Account
    <2>3. QED
      BY <1>11, <2>1, <2>2 DEF FailUnresolved, TypeOK, userVars
  <1>12. CASE ApplyCommands(m)
    <2>1. /\ Goes(m, "waiting", "input") \in [Mission -> MissionState]
          /\ Goes(m, "waiting", mission[m].reason) \in [Mission -> MissionState]
          /\ Goes(m, "working", "none") \in [Mission -> MissionState]
      BY <1>0, GoesType DEF MissionState
    <2>2. mission' \in [Mission -> MissionState]
      <3>1. ASSUME NEW next \in [Mission -> MissionState],
                   mission' = [next EXCEPT ![m].control = "none"]
            PROVE  mission' \in [Mission -> MissionState]
        BY <3>1 DEF MissionState
      <3>2. CASE mission[m].control = "pause"
        BY <1>12, <2>1, <3>1, <3>2 DEF ApplyCommands
      <3>3. CASE mission[m].control = "mode" /\ mission[m].status = "waiting"
        BY <1>12, <2>1, <3>1, <3>3 DEF ApplyCommands
      <3>4. CASE ~(mission[m].control = "pause")
                 /\ ~(mission[m].control = "mode" /\ mission[m].status = "waiting")
        <4>1. mission' = [Goes(m, "working", "none") EXCEPT ![m].control = "none"]
          BY <1>12, <3>4 DEF ApplyCommands
        <4>2. QED
          BY <2>1, <3>1, <4>1
      <3>5. QED
        BY <3>2, <3>3, <3>4
    <2>3. QED
      BY <1>12, <2>2 DEF ApplyCommands, TypeOK, userVars
  <1>13. CASE ApplyCancel(m)
    BY <1>13, EndType DEF ApplyCancel, Terminal
  <1>14. CASE ExpireReservation(m)
    <2>1. PICK awake \in {FALSE, mission[m].status = "waiting" /\ mission[m].awake} :
            mission' = [Goes(m, "waiting", "budget") EXCEPT
                ![m].awake = awake,
                ![m].call = IF @ = "open" THEN "lost" ELSE @]
      BY <1>14 DEF ExpireReservation
    <2>2. awake \in BOOLEAN
      BY <1>0, <2>1 DEF MissionState
    <2>3. mission' \in [Mission -> MissionState]
      <3>1. Goes(m, "waiting", "budget") \in [Mission -> MissionState]
        BY GoesType
      <3>2. QED
        BY <2>1, <2>2, <3>1 DEF MissionState
    <2>4. account' \in [Mission \cup Turn -> Account]
      BY <1>0, <1>14 DEF ExpireReservation, Released, TypeOK, Account
    <2>5. QED
      BY <1>14, <2>3, <2>4, HoldType DEF ExpireReservation, Released, TypeOK
  <1>15. QED
    BY <1>1, <1>2, <1>3, <1>4, <1>5, <1>6, <1>7, <1>8, <1>9, <1>10, <1>11,
       <1>12, <1>13, <1>14 DEF MissionStep

LEMMA TurnTypeStep ==
    ASSUME TypeOK, NEW t \in Turn, TurnStep(t)
    PROVE  TypeOK'
  <1>0. account[t] \in Account /\ owner[t] \in User
    BY DEF TypeOK
  <1>1. Consistent(t) => FreeReturned(t) \in [User -> Nat]
    BY <1>0 DEF Consistent, FreeReturned, TypeOK, Account
  <1>2. CASE Authorize(t)
    <2>1. [NoAccount EXCEPT !.status = "reserved", !.amount = CreditHold(t),
                            !.free = FreeHold(t), !.expiry = "live"] \in Account
      BY FreeHoldType DEF NoAccount, Account
    <2>2. account' \in [Mission \cup Turn -> Account]
      BY <1>2, <2>1 DEF Authorize, TypeOK
    <2>3. held' \in [User -> Nat] /\ free_held' \in [User -> Nat]
      BY <1>0, <1>2, FreeHoldType, HoldType DEF Authorize, TypeOK
    <2>4. QED
      BY <1>2, <2>2, <2>3 DEF Authorize, TypeOK
  <1>3. ASSUME NEW tokens \in 1 .. MaxTurnUsage, CompleteTurn(t, tokens)
        PROVE  TypeOK'
    <2>1. tokens \in Nat /\ Less(tokens, account[t].free) \in Nat
      BY <1>0, CreditAssumption DEF Less, Account
    <2>2. consumed' \in [User -> Nat]
      BY <1>0, <1>3, <2>1 DEF CompleteTurn, TypeOK
    <2>3. QED
      BY <1>1, <1>3, <2>1, <2>2, SettledType DEF CompleteTurn, TypeOK
  <1>4. ASSUME NEW status \in {"released", "expired"}, Released(t, status)
        PROVE  account' \in [Mission \cup Turn -> Account] /\ held' \in [User -> Nat]
    BY <1>0, <1>4, HoldType DEF Released, TypeOK, Account
  <1>5. CASE ReleaseTurn(t)
    BY <1>1, <1>4, <1>5 DEF ReleaseTurn, TypeOK
  <1>6. CASE ExpireTurn(t)
    BY <1>1, <1>4, <1>6 DEF ExpireTurn, TypeOK
  <1>7. QED
    BY <1>2, <1>3, <1>5, <1>6 DEF TurnStep

LEMMA TypeStep ==
    TypeOK /\ [Next]_vars => TypeOK'
  <1> SUFFICES ASSUME TypeOK, [Next]_vars
               PROVE  TypeOK'
    OBVIOUS
  <1>1. ASSUME NEW x \in Mission \cup Turn, Lapse(x)
        PROVE  TypeOK'
    <2>1. account' \in [Mission \cup Turn -> Account]
      BY <1>1 DEF Lapse, TypeOK, Account
    <2>2. QED
      BY <1>1, <2>1 DEF Lapse, TypeOK, userVars
  <1>2. ASSUME NEW u \in User, NEW amount \in Int, Adjust(u, amount)
        PROVE  TypeOK'
    BY <1>2 DEF Adjust, TypeOK
  <1>3. \A amount \in Grants \cup Deductions : amount \in Int /\ -amount \in Int
    BY CreditAssumption
  <1>4. CASE UNCHANGED vars
    BY <1>4 DEF vars, userVars, TypeOK
  <1>5. QED
    BY <1>1, <1>2, <1>3, <1>4, MissionTypeStep, TurnTypeStep DEF Next

\* Every column and row keeps its type: above all no hold of a user, of a
\* Mission or of a turn is ever negative.
THEOREM TypeCorrect == Spec => []TypeOK
  <1>1. Init => TypeOK
    BY DEF Init, TypeOK, NoAccount, NoMission, Account, MissionState
  <1>2. QED
    BY <1>1, TypeStep, PTL DEF Spec

-----------------------------------------------------------------------------

\* A new hold that its bound admits is covered.
LEMMA ReserveCovers ==
    ASSUME TypeOK, HoldsAreCovered, NEW x \in Mission \cup Turn, NEW a \in Nat,
           a <= Spendable(x) + MaxOverdraft, held' = Held(x, a), credits' = credits
    PROVE  HoldsAreCovered'
  <1> SUFFICES ASSUME NEW u \in User, held'[u] > 0
               PROVE  credits'[u] - held'[u] >= -MaxOverdraft
    BY DEF HoldsAreCovered
  <1>1. CASE u = owner[x]
    <2>1. held'[u] = held[u] + a /\ a <= credits[u] - held[u] + MaxOverdraft
      BY <1>1 DEF Held, Spendable, TypeOK
    <2>2. QED
      BY <2>1, CreditAssumption DEF TypeOK
  <1>2. CASE u # owner[x]
    BY <1>2 DEF Held, HoldsAreCovered, TypeOK
  <1>3. QED
    BY <1>1, <1>2

\* A hold that is returned covers whatever was charged of it.
LEMMA ReturnCovers ==
    ASSUME TypeOK, HoldsAreCovered, NEW x \in Mission \cup Turn, NEW c \in Nat,
           c <= account[x].amount, held' = Returned(x),
           credits' = [credits EXCEPT ![owner[x]] = @ - c]
    PROVE  HoldsAreCovered'
  <1> SUFFICES ASSUME NEW u \in User, held'[u] > 0
               PROVE  credits'[u] - held'[u] >= -MaxOverdraft
    BY DEF HoldsAreCovered
  <1>0. account[x].amount \in Nat /\ MaxOverdraft \in Nat
        /\ credits[u] \in Int /\ held[u] \in Nat
    BY HoldType, CreditAssumption DEF Account, TypeOK
  <1>1. CASE u = owner[x]
    <2>1. held'[u] = Less(held[u], account[x].amount) /\ credits'[u] = credits[u] - c
      BY <1>1 DEF Returned, TypeOK
    <2>2. held[u] > account[x].amount /\ held'[u] = held[u] - account[x].amount
      BY <1>0, <2>1 DEF Less
    <2>3. credits[u] - held[u] >= -MaxOverdraft
      BY <1>0, <2>2 DEF HoldsAreCovered
    <2>4. QED
      BY <1>0, <2>1, <2>2, <2>3
  <1>2. CASE u # owner[x]
    BY <1>2 DEF Returned, HoldsAreCovered, TypeOK
  <1>3. QED
    BY <1>1, <1>2

LEMMA SettleCovers ==
    ASSUME TypeOK, HoldsAreCovered, NEW x \in Mission \cup Turn,
           NEW cost \in Nat, NEW tokens \in Nat, Settled(x, cost, tokens)
    PROVE  HoldsAreCovered'
  <1>1. Charge(x, cost) \in Nat /\ Charge(x, cost) <= account[x].amount
    BY HoldType DEF Charge, Least, Account
  <1>2. QED
    BY <1>1, ReturnCovers DEF Settled

LEMMA ReleaseCovers ==
    ASSUME TypeOK, HoldsAreCovered, NEW x \in Mission \cup Turn, NEW status,
           Released(x, status), credits' = credits
    PROVE  HoldsAreCovered'
  <1>1. credits' = [credits EXCEPT ![owner[x]] = @ - 0]
    BY DEF TypeOK
  <1>2. 0 <= account[x].amount
    BY HoldType DEF Account
  <1>3. QED
    BY <1>1, <1>2, ReturnCovers DEF Released

LEMMA EndCovers ==
    ASSUME TypeOK, HoldsAreCovered, NEW m \in Mission, NEW status, End(m, status)
    PROVE  HoldsAreCovered'
  <1>1. CASE Active(m)
    BY <1>1, CostType, SettleCovers DEF End, SettleTerminal
  <1>2. CASE ~Active(m)
    BY <1>2 DEF End, SettleTerminal, HoldsAreCovered
  <1>3. QED
    BY <1>1, <1>2

LEMMA CoverStep ==
    TypeOK /\ HoldsAreCovered /\ [Next]_vars => HoldsAreCovered'
  <1> SUFFICES ASSUME TypeOK, HoldsAreCovered, [Next]_vars
               PROVE  HoldsAreCovered'
    OBVIOUS
  <1>1. ASSUME UNCHANGED <<credits, held>>
        PROVE  HoldsAreCovered'
    BY <1>1 DEF HoldsAreCovered
  <1>2. ASSUME NEW m \in Mission, NEW a \in Nat, CanReserve(m, a), Reserved(m, a),
               credits' = credits
        PROVE  HoldsAreCovered'
    <2>1. a <= Spendable(m) + MaxOverdraft
      BY <1>2, HoldType, CreditAssumption DEF CanReserve
    <2>2. QED
      BY <1>2, <2>1, ReserveCovers DEF Reserved
  <1>3. ASSUME NEW m \in Mission, MissionStep(m)
        PROVE  HoldsAreCovered'
    <2>1. ASSUME NEW estimate \in Estimates, Admit(m, estimate)
          PROVE  HoldsAreCovered'
      <3>1. estimate \in Nat
        BY CreditAssumption
      <3>2. CASE UNCHANGED held
        BY <1>1, <2>1, <3>2 DEF Admit
      <3>3. CASE ~UNCHANGED held
        <4>1. CanReserve(m, estimate) /\ Reserved(m, estimate)
          BY <2>1, <3>1, <3>3 DEF Admit
        <4>2. QED
          BY <1>2, <2>1, <3>1, <4>1 DEF Admit
      <3>4. QED
        BY <3>2, <3>3
    <2>2. CASE ResumeBudget(m)
      <3>1. mission[m].estimate \in Nat
        BY DEF TypeOK, MissionState
      <3>2. QED
        BY <1>1, <1>2, <2>2, <3>1 DEF ResumeBudget
    <2>3. CASE Complete(m) \/ Fail(m) \/ ApplyCancel(m)
      BY <2>3, EndCovers DEF Complete, Fail, ApplyCancel
    <2>4. CASE ExpireReservation(m)
      BY <2>4, ReleaseCovers DEF ExpireReservation
    <2>5. CASE ResumeInput(m) \/ StartModelCall(m) \/ LeaveUnresolved(m)
               \/ FailUnresolved(m) \/ ApplyCommands(m)
      BY <1>1, <2>5 DEF ResumeInput, StartModelCall, LeaveUnresolved,
         FailUnresolved, ApplyCommands, userVars
    <2>6. CASE \/ \E command \in Command : AppendCommand(m, command)
               \/ \E usage \in 0 .. MaxUsage : CloseModelCall(m, usage)
               \/ \E reason \in {"budget", "input"} : WaitForUser(m, reason)
      BY <1>1, <2>6 DEF AppendCommand, CloseModelCall, WaitForUser, userVars
    <2>7. QED
      BY <1>3, <2>1, <2>2, <2>3, <2>4, <2>5, <2>6 DEF MissionStep
  <1>4. ASSUME NEW t \in Turn, TurnStep(t)
        PROVE  HoldsAreCovered'
    <2>1. CASE Authorize(t)
      BY <2>1, FreeHoldType, ReserveCovers DEF Authorize
    <2>2. ASSUME NEW tokens \in 1 .. MaxTurnUsage, CompleteTurn(t, tokens)
          PROVE  HoldsAreCovered'
      <3>1. tokens \in Nat /\ Less(tokens, account[t].free) \in Nat
        BY HoldType, CreditAssumption DEF Less, Account
      <3>2. QED
        BY <2>2, <3>1, SettleCovers DEF CompleteTurn
    <2>3. CASE ReleaseTurn(t) \/ ExpireTurn(t)
      BY <2>3, ReleaseCovers DEF ReleaseTurn, ExpireTurn
    <2>4. QED
      BY <1>4, <2>1, <2>2, <2>3 DEF TurnStep
  <1>5. ASSUME NEW x \in Mission \cup Turn, Lapse(x)
        PROVE  HoldsAreCovered'
    BY <1>1, <1>5 DEF Lapse, userVars
  <1>6. ASSUME NEW u \in User, NEW amount \in Int, Adjust(u, amount)
        PROVE  HoldsAreCovered'
    <2> SUFFICES ASSUME NEW v \in User, held'[v] > 0
                 PROVE  credits'[v] - held'[v] >= -MaxOverdraft
      BY DEF HoldsAreCovered
    <2>1. /\ held' = held
          /\ credits' = [credits EXCEPT ![u] = @ + amount]
          /\ amount < 0 /\ held[u] > 0 => credits[u] + amount >= held[u]
      BY <1>6 DEF Adjust, MayAdjust
    <2>2. credits[v] \in Int /\ held[v] \in Nat /\ MaxOverdraft \in Nat
      BY CreditAssumption DEF TypeOK
    <2>3. credits[v] - held[v] >= -MaxOverdraft
      BY <2>1 DEF HoldsAreCovered
    <2>4. CASE v = u
      BY <2>1, <2>2, <2>3, <2>4 DEF TypeOK
    <2>5. CASE v # u
      BY <2>1, <2>3, <2>5 DEF TypeOK
    <2>6. QED
      BY <2>4, <2>5
  <1>7. \A amount \in Grants \cup Deductions : amount \in Int /\ -amount \in Int
    BY CreditAssumption
  <1>8. CASE UNCHANGED vars
    BY <1>1, <1>8 DEF vars, userVars
  <1>9. QED
    BY <1>3, <1>4, <1>5, <1>6, <1>7, <1>8 DEF Next

\* Holds never take a user deeper into debt than chat's overdraft, however
\* Missions, chat turns, deductions and late settlements interleave.
THEOREM Covered == Spec => []HoldsAreCovered
  <1>1. Init => HoldsAreCovered
    BY DEF Init, HoldsAreCovered
  <1>2. QED
    BY <1>1, TypeStep, CoverStep, TypeCorrect, PTL DEF Spec

-----------------------------------------------------------------------------

\* How far a reservation is, for the state of its Mission: nothing before it
\* is admitted, and settled only with its end.
Matches(m) ==
    /\ mission[m].status = "none" => account[m].status = "none"
    /\ account[m].status = "settled" => mission[m].status \in Terminal
    /\ mission[m].status \in Terminal /\ Active(m)
         => mission[m].call = "unresolved" /\ account[m].expiry = "none"

AccountsMatch == \A m \in Mission : Matches(m)

LEMMA GoesTo ==
    ASSUME TypeOK, NEW m \in Mission, NEW status, NEW reason
    PROVE  /\ Goes(m, status, reason)[m].status = status
           /\ Goes(m, status, reason)[m].call = mission[m].call
           /\ \A n \in Mission : n # m => Goes(m, status, reason)[n] = mission[n]
           /\ DOMAIN Goes(m, status, reason) = Mission
  BY DEF TypeOK, MissionState, Goes

\* What Settled, Released and Reserved do to the account.
LEMMA AccountMoves ==
    ASSUME TypeOK, NEW x \in Mission \cup Turn
    PROVE  /\ \A cost, tokens : Settled(x, cost, tokens) => account'[x].status = "settled"
           /\ \A status : Released(x, status) => account'[x].status = status
           /\ \A amount : Reserved(x, amount) => account'[x].status = "reserved"
           /\ \A y \in Mission \cup Turn : y # x =>
                 /\ \A cost, tokens : Settled(x, cost, tokens) => account'[y] = account[y]
                 /\ \A status : Released(x, status) => account'[y] = account[y]
                 /\ \A amount : Reserved(x, amount) => account'[y] = account[y]
  <1>0. account[x] \in Account /\ DOMAIN account = Mission \cup Turn
    BY DEF TypeOK
  <1>1. ASSUME NEW cost, NEW tokens, Settled(x, cost, tokens)
        PROVE  /\ account'[x].status = "settled"
               /\ \A y \in Mission \cup Turn : y # x => account'[y] = account[y]
    BY <1>0, <1>1 DEF Settled, Account
  <1>2. ASSUME NEW status, Released(x, status)
        PROVE  /\ account'[x].status = status
               /\ \A y \in Mission \cup Turn : y # x => account'[y] = account[y]
    BY <1>0, <1>2 DEF Released, Account
  <1>3. ASSUME NEW amount, Reserved(x, amount)
        PROVE  /\ account'[x].status = "reserved"
               /\ \A y \in Mission \cup Turn : y # x => account'[y] = account[y]
    BY <1>0, <1>3 DEF Reserved, NoAccount
  <1>4. QED
    BY <1>1, <1>2, <1>3

LEMMA EndMatches ==
    ASSUME TypeOK, NEW m \in Mission, Matches(m), NEW status \in Terminal, End(m, status)
    PROVE  /\ Matches(m)'
           /\ \A n \in Mission : n # m => mission'[n] = mission[n]
           /\ \A y \in Mission \cup Turn : y # m => account'[y] = account[y]
           /\ account[m].status = "settled" => account'[m] = account[m]
  <1>1. /\ mission'[m].status = status
        /\ \A n \in Mission : n # m => mission'[n] = mission[n]
    BY GoesTo, EndType DEF End, TypeOK, MissionState
  <1>2. status \notin {"none", "working", "waiting"}
    BY DEF Terminal
  <1>3. CASE Active(m)
    <2>1. Settled(m, MissionCost(m, status), 0)
      BY <1>3 DEF End, SettleTerminal
    <2>2. account'[m].status = "settled"
          /\ \A y \in Mission \cup Turn : y # m => account'[y] = account[y]
      BY <2>1, AccountMoves
    <2>3. QED
      BY <1>1, <1>2, <1>3, <2>2 DEF Matches, Active
  <1>4. CASE ~Active(m)
    <2>1. account' = account
      BY <1>4 DEF End, SettleTerminal
    <2>2. QED
      BY <1>1, <1>2, <1>4, <2>1 DEF Matches, Active
  <1>5. QED
    BY <1>3, <1>4

\* A step about one Mission keeps its account in line with it, leaves every
\* other alone, and leaves its own alone once it is settled.
LEMMA MissionMatches ==
    ASSUME TypeOK, NEW m \in Mission, Matches(m), MissionStep(m)
    PROVE  /\ Matches(m)'
           /\ \A n \in Mission : n # m => mission'[n] = mission[n]
           /\ \A y \in Mission \cup Turn : y # m => account'[y] = account[y]
           /\ account[m].status = "settled" => account'[m] = account[m]
  <1> DEFINE Others == \A n \in Mission : n # m => mission'[n] = mission[n]
             Kept == \A y \in Mission \cup Turn : y # m => account'[y] = account[y]
             Final == account[m].status = "settled" => account'[m] = account[m]
  <1>0. mission[m] \in MissionState /\ account[m] \in Account
    BY DEF TypeOK
  <1>1. ASSUME NEW estimate \in Estimates, Admit(m, estimate)
        PROVE  Matches(m)' /\ Others /\ Kept /\ Final
    <2>1. mission'[m].status \in {"working", "waiting"} /\ Others
      <3>1. ASSUME NEW status \in {"working", "waiting"}, NEW reason \in {"none", "budget"},
                   mission' = [Goes(m, status, reason) EXCEPT ![m].estimate = estimate]
            PROVE  mission'[m].status \in {"working", "waiting"} /\ Others
        BY <3>1, GoesTo, GoesType DEF MissionState
      <3>2. QED
        BY <1>1, <3>1 DEF Admit
    <2>2. account[m].status = "none"
      BY <1>1 DEF Admit, Matches
    <2>3. account'[m].status \in {"none", "reserved"} /\ Kept
      BY <1>1, <2>2, AccountMoves DEF Admit
    <2>4. QED
      BY <2>1, <2>2, <2>3 DEF Matches, Terminal
  <1>2. CASE ResumeBudget(m)
    <2>1. mission'[m].status = "working" /\ Others
      BY <1>2, GoesTo DEF ResumeBudget
    <2>2. account'[m].status = "reserved" /\ Kept
      BY <1>2, AccountMoves DEF ResumeBudget, Active
    <2>3. QED
      BY <1>2, <2>1, <2>2 DEF Matches, Terminal, ResumeBudget
  <1>3. ASSUME account' = account, Others,
               mission[m].status \in {"working", "waiting"},
               mission'[m].status \in {"working", "waiting"}
        PROVE  Matches(m)' /\ Others /\ Kept /\ Final
    BY <1>3 DEF Matches, Terminal
  <1>4. CASE ResumeInput(m)
    BY <1>3, <1>4, GoesTo DEF ResumeInput
  <1>5. ASSUME NEW command \in Command, AppendCommand(m, command)
        PROVE  Matches(m)' /\ Others /\ Kept /\ Final
    BY <1>0, <1>3, <1>5 DEF AppendCommand, TypeOK, MissionState
  <1>6. CASE StartModelCall(m)
    BY <1>0, <1>3, <1>6 DEF StartModelCall, TypeOK, MissionState
  <1>7. ASSUME NEW usage \in 0 .. MaxUsage, CloseModelCall(m, usage)
        PROVE  Matches(m)' /\ Others /\ Kept /\ Final
    BY <1>0, <1>3, <1>7 DEF CloseModelCall, TypeOK, MissionState
  <1>8. CASE LeaveUnresolved(m)
    BY <1>0, <1>3, <1>8 DEF LeaveUnresolved, Driven, TypeOK, MissionState
  <1>9. ASSUME NEW reason \in {"budget", "input"}, WaitForUser(m, reason)
        PROVE  Matches(m)' /\ Others /\ Kept /\ Final
    BY <1>3, <1>9, GoesTo DEF WaitForUser
  <1>10. CASE Complete(m) \/ Fail(m) \/ ApplyCancel(m)
    BY <1>10, EndMatches DEF Complete, Fail, ApplyCancel, Terminal
  <1>11. CASE FailUnresolved(m)
    <2>1. mission'[m].status = "failed" /\ mission'[m].call = "unresolved" /\ Others
      BY <1>11, GoesTo DEF FailUnresolved, TypeOK, MissionState
    <2>2. account'[m].expiry = "none" /\ account'[m].status = account[m].status /\ Kept
      BY <1>0, <1>11 DEF FailUnresolved, TypeOK, Account
    <2>3. account[m].status # "settled"
      BY <1>11 DEF FailUnresolved, Driven, Matches, Terminal
    <2>4. QED
      BY <2>1, <2>2, <2>3 DEF Matches, Terminal
  <1>12. CASE ApplyCommands(m)
    <2>1. mission'[m].status \in {"working", "waiting"} /\ Others
      <3>1. ASSUME NEW status \in {"working", "waiting"},
                   NEW reason \in {"none", "budget", "input"},
                   mission' = [Goes(m, status, reason) EXCEPT ![m].control = "none"]
            PROVE  mission'[m].status \in {"working", "waiting"} /\ Others
        BY <3>1, GoesTo, GoesType DEF MissionState
      <3>2. CASE mission[m].control = "pause"
        BY <1>12, <3>1, <3>2 DEF ApplyCommands
      <3>3. CASE mission[m].control = "mode" /\ mission[m].status = "waiting"
        BY <1>0, <1>12, <3>1, <3>3 DEF ApplyCommands, MissionState
      <3>4. CASE ~(mission[m].control = "pause")
                 /\ ~(mission[m].control = "mode" /\ mission[m].status = "waiting")
        <4>1. mission' = [Goes(m, "working", "none") EXCEPT ![m].control = "none"]
          BY <1>12, <3>4 DEF ApplyCommands
        <4>2. QED
          BY <3>1, <4>1
      <3>5. QED
        BY <3>2, <3>3, <3>4
    <2>2. QED
      BY <1>3, <1>12, <2>1 DEF ApplyCommands, Driven
  <1>13. CASE ExpireReservation(m)
    <2>1. mission'[m].status = "waiting" /\ Others
      BY <1>13, GoesTo, GoesType DEF ExpireReservation, MissionState
    <2>2. account'[m].status = "expired" /\ Kept
      BY <1>13, AccountMoves DEF ExpireReservation
    <2>3. QED
      BY <1>13, <2>1, <2>2 DEF Matches, Terminal, ExpireReservation, Past, Active
  <1>14. QED
    BY <1>1, <1>2, <1>4, <1>5, <1>6, <1>7, <1>8, <1>9, <1>10, <1>11, <1>12, <1>13
       DEF MissionStep

LEMMA TurnMatches ==
    ASSUME TypeOK, NEW t \in Turn, TurnStep(t)
    PROVE  /\ mission' = mission
           /\ \A y \in Mission \cup Turn : y # t => account'[y] = account[y]
           /\ account[t].status # "settled"
  <1>1. CASE Authorize(t)
    BY <1>1 DEF Authorize, TypeOK
  <1>2. ASSUME NEW tokens \in 1 .. MaxTurnUsage, CompleteTurn(t, tokens)
        PROVE  /\ mission' = mission
               /\ \A y \in Mission \cup Turn : y # t => account'[y] = account[y]
               /\ account[t].status # "settled"
    BY <1>2, AccountMoves DEF CompleteTurn, Active
  <1>3. CASE ReleaseTurn(t)
    BY <1>3, AccountMoves DEF ReleaseTurn, Active
  <1>4. CASE ExpireTurn(t)
    BY <1>4, AccountMoves DEF ExpireTurn, Past, Active
  <1>5. QED
    BY <1>1, <1>2, <1>3, <1>4 DEF TurnStep

\* The last conjunct, which no earlier state needs, is SettledIsFinal.
LEMMA MatchStep ==
    TypeOK /\ AccountsMatch /\ [Next]_vars =>
        /\ AccountsMatch'
        /\ \A x \in Mission \cup Turn :
              account[x].status = "settled" => account'[x] = account[x]
  <1> SUFFICES ASSUME TypeOK, AccountsMatch, [Next]_vars
               PROVE  /\ AccountsMatch'
                      /\ \A x \in Mission \cup Turn :
                            account[x].status = "settled" => account'[x] = account[x]
    OBVIOUS
  <1> DEFINE Goal == /\ AccountsMatch'
                     /\ \A x \in Mission \cup Turn :
                           account[x].status = "settled" => account'[x] = account[x]
  <1>0. ASSUME NEW n \in Mission, mission'[n] = mission[n], account'[n] = account[n]
        PROVE  Matches(n)'
    BY <1>0 DEF AccountsMatch, Matches, Active
  <1>1. ASSUME NEW m \in Mission, MissionStep(m)
        PROVE  Goal
    BY <1>0, <1>1, MissionMatches DEF AccountsMatch
  <1>2. ASSUME NEW t \in Turn, TurnStep(t)
        PROVE  Goal
    <2>1. \A n \in Mission : n # t
      BY CreditAssumption
    <2>2. QED
      BY <1>0, <1>2, <2>1, TurnMatches DEF AccountsMatch
  <1>3. ASSUME NEW x \in Mission \cup Turn, Lapse(x)
        PROVE  Goal
    <2>1. /\ mission' = mission
          /\ account[x].status = "reserved" /\ account[x].expiry = "live"
          /\ \A y \in Mission \cup Turn : y # x => account'[y] = account[y]
      BY <1>3 DEF Lapse, Active, TypeOK
    <2>2. account'[x].status = "reserved"
      BY <1>3, <2>1 DEF Lapse, TypeOK, Account
    <2>3. ASSUME NEW n \in Mission, n = x
          PROVE  Matches(n)'
      BY <2>1, <2>2, <2>3 DEF AccountsMatch, Matches, Active
    <2>4. QED
      BY <1>0, <2>1, <2>3 DEF AccountsMatch
  <1>4. CASE account' = account /\ mission' = mission
    BY <1>0, <1>4 DEF AccountsMatch
  <1>5. QED
    BY <1>1, <1>2, <1>3, <1>4 DEF Next, Adjust, vars

LEMMA MatchInit == Init => AccountsMatch
  BY DEF Init, AccountsMatch, Matches, Active, Terminal, NoAccount, NoMission

\* The end of a Mission returns its hold in the same transaction, unless the
\* usage of a model call is unknown; then the hold no longer expires.
THEOREM EndReturnsHold == Spec => []NoStrandedHold
  <1>1. AccountsMatch => NoStrandedHold
    BY DEF AccountsMatch, Matches, NoStrandedHold
  <1>2. QED
    BY <1>1, MatchInit, MatchStep, TypeCorrect, PTL DEF Spec

\* A charge is made once: no release, expiry, retry or resumption touches an
\* account that is settled.
THEOREM SettlementIsFinal == Spec => SettledIsFinal
  <1>1. TypeOK /\ AccountsMatch /\ [Next]_vars =>
          [\A x \in Mission \cup Turn :
              account[x].status = "settled" => account'[x] = account[x]]_vars
    BY MatchStep
  <1>2. QED
    BY <1>1, MatchInit, MatchStep, TypeCorrect, PTL DEF Spec, SettledIsFinal

-----------------------------------------------------------------------------

\* One Mission in one step: it does not get to work, or stay at work, without a
\* hold, except after a command or a wait for input.
Reserves(m) ==
    mission'[m].status = "working" /\ mission'[m].estimate > 0 /\ ~Active(m)'
      => \/ mission[m].status = "working" /\ ~Active(m)
         \/ mission[m].status = "waiting" /\ mission[m].reason = "input"
         \/ mission[m].control = "steer"

LEMMA ReservesStep ==
    ASSUME TypeOK, NEW m \in Mission, MissionStep(m)
    PROVE  Reserves(m)
  <1>0. mission[m] \in MissionState /\ account[m] \in Account
    BY DEF TypeOK
  <1>1. ASSUME account' = account, mission'[m].status = mission[m].status
        PROVE  Reserves(m)
    BY <1>1 DEF Reserves, Active
  <1>2. ASSUME mission'[m].status # "working"
        PROVE  Reserves(m)
    BY <1>2 DEF Reserves
  <1>3. ASSUME NEW estimate \in Estimates, Admit(m, estimate)
        PROVE  Reserves(m)
    <2>1. CASE estimate = 0 \/ CanReserve(m, estimate)
      <3>1. /\ mission' = [Goes(m, "working", "none") EXCEPT ![m].estimate = estimate]
            /\ m \in DOMAIN Goes(m, "working", "none")
            /\ Goes(m, "working", "none")[m] \in MissionState
        BY <1>3, <2>1, GoesTo, GoesType DEF Admit
      <3>2. mission'[m].estimate = estimate
        BY <3>1 DEF MissionState
      <3>3. estimate > 0 => account'[m].status = "reserved"
        BY <1>3, <2>1, AccountMoves DEF Admit
      <3>4. QED
        BY <3>2, <3>3, CreditAssumption DEF Reserves, Active
    <2>2. CASE ~(estimate = 0 \/ CanReserve(m, estimate))
      <3>1. mission'[m].status = "waiting"
        BY <1>3, <2>2 DEF Admit, TypeOK, MissionState, Goes
      <3>2. QED
        BY <1>2, <3>1
    <2>3. QED
      BY <2>1, <2>2
  <1>4. CASE ResumeBudget(m)
    <2>1. account'[m].status = "reserved"
      BY <1>4, AccountMoves DEF ResumeBudget, Active
    <2>2. QED
      BY <2>1 DEF Reserves, Active
  <1>5. CASE ResumeInput(m)
    BY <1>5 DEF ResumeInput, Reserves
  <1>6. ASSUME NEW command \in Command, AppendCommand(m, command)
        PROVE  Reserves(m)
    BY <1>0, <1>1, <1>6 DEF AppendCommand, TypeOK, MissionState
  <1>7. CASE StartModelCall(m)
    BY <1>0, <1>1, <1>7 DEF StartModelCall, TypeOK, MissionState
  <1>8. ASSUME NEW usage \in 0 .. MaxUsage, CloseModelCall(m, usage)
        PROVE  Reserves(m)
    BY <1>0, <1>1, <1>8 DEF CloseModelCall, TypeOK, MissionState
  <1>9. CASE LeaveUnresolved(m)
    BY <1>0, <1>1, <1>9 DEF LeaveUnresolved, TypeOK, MissionState
  <1>10. ASSUME NEW reason \in {"budget", "input"}, WaitForUser(m, reason)
         PROVE  Reserves(m)
    BY <1>2, <1>10, GoesTo DEF WaitForUser
  <1>11. ASSUME NEW status \in Terminal, End(m, status)
         PROVE  Reserves(m)
    <2>1. mission'[m].status = status
      BY <1>11, EndType, GoesTo DEF End, TypeOK, MissionState
    <2>2. QED
      BY <1>2, <2>1 DEF Terminal
  <1>12. CASE Complete(m) \/ Fail(m) \/ ApplyCancel(m)
    BY <1>11, <1>12 DEF Complete, Fail, ApplyCancel, Terminal
  <1>13. CASE FailUnresolved(m)
    <2>1. mission'[m].status = "failed"
      BY <1>13, GoesTo DEF FailUnresolved, TypeOK, MissionState
    <2>2. QED
      BY <1>2, <2>1
  <1>14. CASE ApplyCommands(m)
    <2>1. CASE mission[m].control = "pause"
      <3>1. mission' = [Goes(m, "waiting", "input") EXCEPT ![m].control = "none"]
        BY <1>14, <2>1 DEF ApplyCommands
      <3>2. mission'[m].status = "waiting"
        BY <3>1, GoesTo, GoesType DEF MissionState
      <3>3. QED
        BY <1>2, <3>2
    <2>2. CASE mission[m].control = "mode" /\ mission[m].status = "waiting"
      <3>1. mission' = [Goes(m, "waiting", mission[m].reason) EXCEPT ![m].control = "none"]
        BY <1>14, <2>2 DEF ApplyCommands
      <3>2. mission'[m].status = "waiting"
        BY <1>0, <3>1, GoesTo, GoesType DEF MissionState
      <3>3. QED
        BY <1>2, <3>2
    <2>3. CASE mission[m].control = "mode" /\ mission[m].status = "working"
      BY <1>14, <2>3 DEF ApplyCommands, Reserves, Active
    <2>4. CASE mission[m].control = "steer"
      BY <2>4 DEF Reserves
    <2>5. QED
      BY <1>14, <2>1, <2>2, <2>3, <2>4 DEF ApplyCommands, Driven
  <1>15. CASE ExpireReservation(m)
    <2>1. mission'[m].status = "waiting"
      BY <1>15, GoesTo, GoesType DEF ExpireReservation, MissionState
    <2>2. QED
      BY <1>2, <2>1
  <1>16. QED
    BY <1>3, <1>4, <1>5, <1>6, <1>7, <1>8, <1>9, <1>10, <1>12, <1>13, <1>14, <1>15
       DEF MissionStep

\* A Mission gets to work without its reservation only by a command or after a
\* wait for input, and loses it only by leaving its work.
THEOREM StartIsReserved == Spec => WorkIsReserved
  <1>1. ASSUME TypeOK, AccountsMatch, Next, NEW n \in Mission
        PROVE  Reserves(n)
    <2>0. ASSUME mission'[n] = mission[n], account'[n] = account[n]
          PROVE  Reserves(n)
      BY <2>0 DEF Reserves, Active
    <2>1. ASSUME NEW m \in Mission, MissionStep(m)
          PROVE  Reserves(n)
      BY <1>1, <2>0, <2>1, MissionMatches, ReservesStep DEF AccountsMatch
    <2>2. ASSUME NEW t \in Turn, TurnStep(t)
          PROVE  Reserves(n)
      <3>1. n # t
        BY CreditAssumption
      <3>2. QED
        BY <1>1, <2>0, <2>2, <3>1, TurnMatches
    <2>3. ASSUME NEW x \in Mission \cup Turn, Lapse(x)
          PROVE  Reserves(n)
      <3>1. mission' = mission
            /\ account' = [account EXCEPT ![x].expiry = "past"]
            /\ account \in [Mission \cup Turn -> Account]
        BY <1>1, <2>3 DEF Lapse, TypeOK
      <3>2. account'[n].status = account[n].status
        BY <3>1 DEF Account
      <3>3. QED
        BY <3>1, <3>2 DEF Reserves, Active
    <2>4. CASE account' = account /\ mission' = mission
      BY <2>0, <2>4
    <2>5. QED
      BY <1>1, <2>1, <2>2, <2>3, <2>4 DEF Next, Adjust
  <1>2. TypeOK /\ AccountsMatch /\ [Next]_vars =>
          [\A m \in Mission :
              mission'[m].status = "working" /\ mission'[m].estimate > 0 /\ ~Active(m)'
                => \/ mission[m].status = "working" /\ ~Active(m)
                   \/ mission[m].status = "waiting" /\ mission[m].reason = "input"
                   \/ mission[m].control = "steer"]_vars
    BY <1>1 DEF Reserves
  <1>3. QED
    BY <1>2, MatchInit, MatchStep, TypeCorrect, PTL DEF Spec, WorkIsReserved

-----------------------------------------------------------------------------
(* Sums over a finite set of accounts.  What a sum adds up to is a          *)
(* recursion over the subsets of the set; each fact about it is proved for  *)
(* a smallest set that would refute it.                                     *)

\* Induction over the subsets of a finite set, as a smallest counterexample.
LEMMA SmallestSet ==
    ASSUME NEW S, IsFiniteSet(S), NEW Bad, Bad \subseteq SUBSET S, Bad # {}
    PROVE  \E T \in Bad : \A U \in Bad : ~(U \subseteq T /\ U # T)
  <1>1. IsWellFoundedOn(StrictSubsetOrdering(S), FiniteSubsetsOf(S))
    BY FS_StrictSubsetOrderingWellFounded
  <1>2. FiniteSubsetsOf(S) = SUBSET S
    BY FS_FiniteSubsetsOfFinite
  <1>3. PICK T \in Bad : \A U \in Bad : ~(<<U, T>> \in StrictSubsetOrdering(S))
    BY <1>1, <1>2, WFMin
  <1>4. \A U \in Bad : U \in SUBSET S /\ T \in SUBSET S
    OBVIOUS
  <1>5. QED
    BY <1>3, <1>4 DEF StrictSubsetOrdering

First(s) == CHOOSE x \in s : TRUE

LEMMA FirstOf ==
    ASSUME NEW s, s # {}
    PROVE  First(s) \in s
  BY DEF First

\* f adds up the values of every subset of S, in the order of CHOOSE.
AddsUp(f, value, S) ==
    f = [s \in SUBSET S |-> IF s = {} THEN 0
                                      ELSE value[First(s)] + f[s \ {First(s)}]]

Adder(value, S) == CHOOSE f : AddsUp(f, value, S)

LEMMA SumIsAdder ==
    ASSUME NEW value, NEW S
    PROVE  Sum(value, S) = Adder([x \in S |-> value[x]], S)[S]
  BY Zenon DEF Sum, SumFunctionOnSet, FoldFunctionOnSet, MapThenFoldSet, Adder, AddsUp, First

\* Two such functions agree where their values agree.
LEMMA AddersAgree ==
    ASSUME NEW f, NEW v, NEW S, AddsUp(f, v, S),
           NEW g, NEW w, NEW T, AddsUp(g, w, T),
           NEW U, IsFiniteSet(U), U \subseteq S, U \subseteq T,
           \A x \in U : v[x] = w[x]
    PROVE  f[U] = g[U]
  <1> DEFINE Bad == {A \in SUBSET U : f[A] # g[A]}
  <1> SUFFICES ASSUME Bad # {}
               PROVE  FALSE
    OBVIOUS
  <1>1. PICK A \in Bad : \A B \in Bad : ~(B \subseteq A /\ B # A)
    <2>1. Bad \subseteq SUBSET U
      OBVIOUS
    <2> HIDE DEF Bad
    <2>2. QED
      BY <2>1, SmallestSet
  <1>2. /\ f[A] = IF A = {} THEN 0 ELSE v[First(A)] + f[A \ {First(A)}]
        /\ g[A] = IF A = {} THEN 0 ELSE w[First(A)] + g[A \ {First(A)}]
    <2>1. A \in SUBSET S /\ A \in SUBSET T
      BY <1>1
    <2>2. QED
      BY <2>1 DEF AddsUp
  <1>3. A # {}
    BY <1>1, <1>2
  <1>4. First(A) \in A
    BY <1>3, FirstOf
  <1>5. A \ {First(A)} \notin Bad
    BY <1>1, <1>4
  <1>6. f[A \ {First(A)}] = g[A \ {First(A)}]
    BY <1>1, <1>5
  <1>7. QED
    BY <1>1, <1>2, <1>4, <1>6

\* The recursion is well founded: every finite set has an adder.
LEMMA AdderExists ==
    ASSUME NEW v, NEW S, IsFiniteSet(S)
    PROVE  AddsUp(Adder(v, S), v, S)
  <1> DEFINE Bad == {T \in SUBSET S : ~ \E f : AddsUp(f, v, T)}
  <1>1. SUFFICES ASSUME Bad # {}
                 PROVE  FALSE
    BY DEF Adder
  <1>2. PICK T \in Bad : \A U \in Bad : ~(U \subseteq T /\ U # T)
    <2>1. Bad \subseteq SUBSET S
      OBVIOUS
    <2> HIDE DEF Bad
    <2>2. QED
      BY <1>1, <2>1, SmallestSet
  <1>3. \A U : U \subseteq T /\ U # T => AddsUp(Adder(v, U), v, U)
    <2>1. ASSUME NEW U, U \subseteq T, U # T
          PROVE  \E f : AddsUp(f, v, U)
      BY <1>2, <2>1
    <2>2. QED
      BY <2>1 DEF Adder
  <1> DEFINE Rest(s) == s \ {First(s)}
             F == [s \in SUBSET T |-> IF s = {} THEN 0
                                      ELSE v[First(s)] + Adder(v, Rest(s))[Rest(s)]]
  <1>4. ASSUME NEW s \in SUBSET T, s # {}
        PROVE  F[Rest(s)] = Adder(v, Rest(s))[Rest(s)]
    <2> DEFINE r == Rest(s)
    <2>1. First(s) \in s
      BY <1>4, FirstOf
    <2>2. r \subseteq T /\ r # T
      BY <2>1
    <2>3. AddsUp(Adder(v, r), v, r)
      BY <1>3, <2>2
    <2>4. Adder(v, r)[r] = IF r = {} THEN 0 ELSE v[First(r)] + Adder(v, r)[Rest(r)]
      <3> r \in SUBSET r
        OBVIOUS
      <3> HIDE DEF r
      <3> QED
        BY <2>3 DEF AddsUp
    <2>5. F[r] = IF r = {} THEN 0 ELSE v[First(r)] + Adder(v, Rest(r))[Rest(r)]
      BY <2>2
    <2>6. CASE r = {}
      BY <2>4, <2>5, <2>6
    <2>7. CASE r # {}
      <3>1. First(r) \in r
        BY <2>7, FirstOf
      <3>2. Rest(r) \subseteq r /\ Rest(r) \subseteq T /\ Rest(r) # T /\ IsFiniteSet(Rest(r))
        BY <2>2, <3>1, FS_Subset
      <3>3. AddsUp(Adder(v, Rest(r)), v, Rest(r))
        BY <1>3, <3>2
      <3>4. Adder(v, r)[Rest(r)] = Adder(v, Rest(r))[Rest(r)]
        <4> HIDE DEF r, Rest
        <4> QED
          BY <2>3, <3>2, <3>3, AddersAgree
      <3>5. QED
        BY <2>4, <2>5, <2>7, <3>4
    <2>8. QED
      BY <2>6, <2>7
  <1>5. AddsUp(F, v, T)
    <2>1. F = [s \in SUBSET T |-> IF s = {} THEN 0 ELSE v[First(s)] + F[s \ {First(s)}]]
      BY <1>4
    <2>2. QED
      BY <2>1 DEF AddsUp
  <1>6. QED
    BY <1>2, <1>5

LEMMA SumEmpty == \A value : Sum(value, {}) = 0
  <1> SUFFICES ASSUME NEW value
               PROVE  Sum(value, {}) = 0
    OBVIOUS
  <1> DEFINE v == [x \in {} |-> value[x]]
  <1>1. AddsUp(Adder(v, {}), v, {})
    BY AdderExists, FS_EmptySet
  <1>2. Adder(v, {})[{}] = 0
    <2> HIDE DEF v
    <2> QED
      BY <1>1 DEF AddsUp
  <1>3. QED
    BY <1>2, SumIsAdder

LEMMA SumFirst ==
    ASSUME NEW value, NEW S, IsFiniteSet(S), S # {}
    PROVE  Sum(value, S) = value[First(S)] + Sum(value, S \ {First(S)})
  <1> DEFINE R == S \ {First(S)}
             v == [x \in S |-> value[x]]
             w == [x \in R |-> value[x]]
  <1>1. IsFiniteSet(R) /\ R \subseteq S /\ First(S) \in S
    BY FS_Subset, FirstOf
  <1>2. AddsUp(Adder(v, S), v, S) /\ AddsUp(Adder(w, R), w, R)
    BY <1>1, AdderExists
  <1>3. Adder(v, S)[S] = v[First(S)] + Adder(v, S)[R]
    <2> HIDE DEF v
    <2> QED
      BY <1>2 DEF AddsUp
  <1>4. Adder(v, S)[R] = Adder(w, R)[R]
    <2>1. \A x \in R : v[x] = w[x]
      BY <1>1
    <2> HIDE DEF v, w, R
    <2> QED
      BY <1>1, <1>2, <2>1, AddersAgree
  <1>5. QED
    BY <1>1, <1>3, <1>4, SumIsAdder

LEMMA SumType ==
    ASSUME NEW S, IsFiniteSet(S), NEW value, \A x \in S : value[x] \in Nat
    PROVE  Sum(value, S) \in Nat
  <1> DEFINE Bad == {T \in SUBSET S : Sum(value, T) \notin Nat}
  <1>1. SUFFICES ASSUME Bad # {}
                 PROVE  FALSE
    OBVIOUS
  <1>2. PICK T \in Bad : \A U \in Bad : ~(U \subseteq T /\ U # T)
    <2>1. Bad \subseteq SUBSET S
      OBVIOUS
    <2> HIDE DEF Bad
    <2>2. QED
      BY <1>1, <2>1, SmallestSet
  <1>3. T # {}
    <2>1. Sum(value, {}) \in Nat
      BY SumEmpty
    <2>2. QED
      BY <1>2, <2>1, Zenon
  <1>4. First(T) \in T /\ IsFiniteSet(T)
    BY <1>2, <1>3, FirstOf, FS_Subset
  <1>5. Sum(value, T \ {First(T)}) \in Nat
    BY <1>2, <1>4
  <1>6. value[First(T)] \in Nat
    BY <1>2, <1>4
  <1>7. Sum(value, T) \in Nat
    BY <1>3, <1>4, <1>5, <1>6, SumFirst
  <1>8. QED
    BY <1>2, <1>7

\* Any element may come first.
LEMMA SumRemove ==
    ASSUME NEW S, IsFiniteSet(S), NEW value, \A x \in S : value[x] \in Nat, NEW x \in S
    PROVE  Sum(value, S) = value[x] + Sum(value, S \ {x})
  <1> DEFINE Bad == {T \in SUBSET S :
                       \E y \in T : Sum(value, T) # value[y] + Sum(value, T \ {y})}
  <1>1. SUFFICES ASSUME Bad # {}
                 PROVE  FALSE
    BY DEF Bad
  <1>2. PICK T \in Bad : \A U \in Bad : ~(U \subseteq T /\ U # T)
    <2>1. Bad \subseteq SUBSET S
      OBVIOUS
    <2> HIDE DEF Bad
    <2>2. QED
      BY <1>1, <2>1, SmallestSet
  <1>3. PICK y \in T : Sum(value, T) # value[y] + Sum(value, T \ {y})
    BY <1>2
  <1> DEFINE c == First(T)
  <1>4. c \in T /\ IsFiniteSet(T) /\ T \subseteq S
    BY <1>2, <1>3, FirstOf, FS_Subset
  <1>5. Sum(value, T) = value[c] + Sum(value, T \ {c})
    BY <1>3, <1>4, SumFirst
  <1> HIDE DEF c
  <1>6. c # y
    BY <1>3, <1>5
  <1>7. ASSUME NEW a \in T, NEW b \in T, a # b
        PROVE  Sum(value, T \ {a}) = value[b] + Sum(value, (T \ {a}) \ {b})
    <2>1. T \ {a} \subseteq T /\ T \ {a} # T /\ T \ {a} \in SUBSET S /\ b \in T \ {a}
      BY <1>4, <1>7
    <2>2. T \ {a} \notin Bad
      BY <1>2, <2>1
    <2>3. QED
      BY <2>1, <2>2
  <1>8. /\ Sum(value, T \ {c}) = value[y] + Sum(value, (T \ {c}) \ {y})
        /\ Sum(value, T \ {y}) = value[c] + Sum(value, (T \ {y}) \ {c})
    BY <1>4, <1>6, <1>7
  <1>9. (T \ {c}) \ {y} = (T \ {y}) \ {c}
    OBVIOUS
  <1>10. IsFiniteSet((T \ {y}) \ {c})
    BY <1>4, FS_Subset
  <1>11. Sum(value, (T \ {y}) \ {c}) \in Nat
    BY <1>4, <1>10, SumType
  <1>12. value[c] \in Nat /\ value[y] \in Nat
    BY <1>3, <1>4
  <1>13. Sum(value, T) = value[y] + Sum(value, T \ {y})
    <2> DEFINE r == Sum(value, (T \ {y}) \ {c})
    <2>1. Sum(value, T) = value[c] + (value[y] + r)
      BY <1>5, <1>8, <1>9
    <2>2. Sum(value, T \ {y}) = value[c] + r
      BY <1>8
    <2> HIDE DEF r
    <2>3. QED
      BY <1>11, <1>12, <2>1, <2>2 DEF r
  <1>14. QED
    BY <1>3, <1>13

\* A sum depends on the values of its set alone.
LEMMA SumSame ==
    ASSUME NEW S, NEW v, NEW w, \A x \in S : v[x] = w[x]
    PROVE  Sum(v, S) = Sum(w, S)
  <1>1. [x \in S |-> v[x]] = [x \in S |-> w[x]]
    OBVIOUS
  <1>2. QED
    BY <1>1, SumIsAdder

LEMMA SumGrows ==
    ASSUME NEW S, IsFiniteSet(S),
           NEW v, NEW w, \A x \in S : v[x] \in Nat /\ w[x] \in Nat /\ v[x] <= w[x]
    PROVE  Sum(v, S) <= Sum(w, S)
  <1> DEFINE Bad == {T \in SUBSET S : ~(Sum(v, T) <= Sum(w, T))}
  <1>1. SUFFICES ASSUME Bad # {}
                 PROVE  FALSE
    OBVIOUS
  <1>2. PICK T \in Bad : \A U \in Bad : ~(U \subseteq T /\ U # T)
    <2>1. Bad \subseteq SUBSET S
      OBVIOUS
    <2> HIDE DEF Bad
    <2>2. QED
      BY <1>1, <2>1, SmallestSet
  <1>3. T # {}
    <2>1. Sum(v, {}) <= Sum(w, {})
      BY SumEmpty
    <2>2. QED
      BY <1>2, <2>1, Zenon
  <1> DEFINE c == First(T)
             R == T \ {c}
  <1>4. c \in T /\ c \in S /\ IsFiniteSet(T) /\ IsFiniteSet(R) /\ R \subseteq S
    BY <1>2, <1>3, FirstOf, FS_Subset
  <1>5. Sum(v, R) <= Sum(w, R)
    BY <1>2, <1>4
  <1>6. Sum(v, R) \in Nat /\ Sum(w, R) \in Nat
    BY <1>4, SumType
  <1>7. Sum(v, T) = v[c] + Sum(v, R) /\ Sum(w, T) = w[c] + Sum(w, R)
    BY <1>3, <1>4, SumFirst
  <1>8. Sum(v, T) <= Sum(w, T)
    <2> HIDE DEF R, c
    <2> QED
      BY <1>4, <1>5, <1>6, <1>7
  <1>9. QED
    BY <1>2, <1>8

\* A sum whose set and values change at x alone.
LEMMA SumMoves ==
    ASSUME NEW S, IsFiniteSet(S), NEW T, IsFiniteSet(T), NEW x, S \ {x} = T \ {x},
           NEW v, \A y \in S : v[y] \in Nat, NEW w, \A y \in T : w[y] \in Nat,
           \A y \in S \ {x} : w[y] = v[y]
    PROVE  /\ Sum(v, S) \in Nat
           /\ Sum(w, T) = Sum(v, S) + (IF x \in T THEN w[x] ELSE 0)
                                    - (IF x \in S THEN v[x] ELSE 0)
           /\ x \in S => v[x] <= Sum(v, S)
  <1> DEFINE R == S \ {x}
             r == Sum(v, R)
  <1>1. IsFiniteSet(R)
    BY FS_Subset
  <1>2. r \in Nat
    BY <1>1, SumType
  <1>3. Sum(w, T \ {x}) = r
    BY SumSame
  <1>4. ASSUME NEW U, IsFiniteSet(U), NEW z, \A y \in U : z[y] \in Nat
        PROVE  Sum(z, U) = Sum(z, U \ {x}) + (IF x \in U THEN z[x] ELSE 0)
    <2>1. CASE x \in U
      <3>1. Sum(z, U) = z[x] + Sum(z, U \ {x})
        BY <1>4, <2>1, SumRemove
      <3>2. Sum(z, U \ {x}) \in Nat /\ z[x] \in Nat
        <4>1. IsFiniteSet(U \ {x})
          BY <1>4, FS_Subset
        <4>2. QED
          BY <1>4, <2>1, <4>1, SumType
      <3>3. QED
        BY <2>1, <3>1, <3>2
    <2>2. CASE x \notin U
      <3>1. U \ {x} = U
        BY <2>2
      <3>2. Sum(z, U) \in Nat
        BY <1>4, SumType
      <3>3. Sum(z, U \ {x}) = Sum(z, U)
        BY <3>1, Zenon
      <3>4. QED
        BY <2>2, <3>2, <3>3
    <2>3. QED
      BY <2>1, <2>2
  <1>5. Sum(v, S) = r + (IF x \in S THEN v[x] ELSE 0)
    BY <1>4
  <1>6. Sum(w, T) = r + (IF x \in T THEN w[x] ELSE 0)
    BY <1>3, <1>4
  <1>7. (x \in S => v[x] \in Nat) /\ (x \in T => w[x] \in Nat)
    OBVIOUS
  <1> HIDE DEF r
  <1>8. QED
    BY <1>2, <1>5, <1>6, <1>7

-----------------------------------------------------------------------------
(* The books: every column of the user row against the rows of accounts.    *)

\* What an account has in held and in free_held.
Holds(x) == IF Active(x) THEN account[x].amount ELSE 0
FreeHolds(x) == IF Active(x) THEN account[x].free ELSE 0

\* Only a settled account has been charged; a Mission has no free tokens.
Charged(x) ==
    /\ account[x].status # "settled" => account[x].charge = 0 /\ account[x].tokens = 0
    /\ x \in Mission => account[x].free = 0

Entries == \A x \in Mission \cup Turn : Charged(x)

\* The free tokens used, and those held, are the user's free tokens at most.
FreeBooked ==
    \A u \in User :
        Sum([x \in Mission \cup Turn |-> Least(account[x].tokens, account[x].free)],
            AccountsOf(u)) + free_held[u] <= FreeTokens

LEMMA AccountsFinite ==
    ASSUME NEW u
    PROVE  IsFiniteSet(AccountsOf(u)) /\ IsFiniteSet(ActiveOf(u))
  BY CreditAssumption, FS_Subset DEF AccountsOf, ActiveOf

\* The sums over the accounts of a user, and over the active ones, when one
\* account x moves.
LEMMA ColumnMoves ==
    ASSUME NEW x \in Mission \cup Turn, owner' = owner,
           NEW v \in [Mission \cup Turn -> Nat], NEW w \in [Mission \cup Turn -> Nat],
           \A y \in Mission \cup Turn : y # x => w[y] = v[y],
           NEW u
    PROVE  /\ Sum(v, AccountsOf(u)) \in Nat
           /\ owner[x] = u => Sum(w, AccountsOf(u)') = Sum(v, AccountsOf(u)) + w[x] - v[x]
           /\ owner[x] # u => Sum(w, AccountsOf(u)') = Sum(v, AccountsOf(u))
  <1>1. /\ AccountsOf(u)' = AccountsOf(u)
        /\ x \in AccountsOf(u) <=> owner[x] = u
        /\ AccountsOf(u) \subseteq Mission \cup Turn
    BY DEF AccountsOf
  <1>2. v[x] \in Nat /\ w[x] \in Nat
    OBVIOUS
  <1>3. /\ Sum(v, AccountsOf(u)) \in Nat
        /\ Sum(w, AccountsOf(u)) = Sum(v, AccountsOf(u))
                                     + (IF x \in AccountsOf(u) THEN w[x] ELSE 0)
                                     - (IF x \in AccountsOf(u) THEN v[x] ELSE 0)
    BY <1>1, AccountsFinite, SumMoves
  <1>4. Sum(w, AccountsOf(u)') = Sum(w, AccountsOf(u))
    BY <1>1
  <1>5. QED
    BY <1>1, <1>2, <1>3, <1>4

LEMMA ActiveMoves ==
    ASSUME NEW x \in Mission \cup Turn, owner' = owner,
           \A y \in Mission \cup Turn : y # x => account'[y] = account[y],
           NEW v \in [Mission \cup Turn -> Nat], NEW w \in [Mission \cup Turn -> Nat],
           \A y \in Mission \cup Turn : y # x => w[y] = v[y],
           NEW u
    PROVE  /\ Sum(v, ActiveOf(u)) \in Nat
           /\ owner[x] = u => Sum(w, ActiveOf(u)') = Sum(v, ActiveOf(u))
                                  + (IF Active(x)' THEN w[x] ELSE 0)
                                  - (IF Active(x) THEN v[x] ELSE 0)
           /\ owner[x] # u => Sum(w, ActiveOf(u)') = Sum(v, ActiveOf(u))
  <1>1. /\ ActiveOf(u)' \ {x} = ActiveOf(u) \ {x}
        /\ ActiveOf(u)' \subseteq Mission \cup Turn /\ ActiveOf(u) \subseteq Mission \cup Turn
        /\ x \in ActiveOf(u) <=> owner[x] = u /\ Active(x)
        /\ x \in ActiveOf(u)' <=> owner[x] = u /\ Active(x)'
    BY DEF ActiveOf, Active, AccountsOf
  <1>2. IsFiniteSet(ActiveOf(u)) /\ IsFiniteSet(ActiveOf(u)')
    BY <1>1, CreditAssumption, FS_Subset
  <1>3. v[x] \in Nat /\ w[x] \in Nat
    OBVIOUS
  <1>4. /\ Sum(v, ActiveOf(u)) \in Nat
        /\ Sum(w, ActiveOf(u)') = Sum(v, ActiveOf(u))
                                     + (IF x \in ActiveOf(u)' THEN w[x] ELSE 0)
                                     - (IF x \in ActiveOf(u) THEN v[x] ELSE 0)
    BY <1>1, <1>2, SumMoves
  <1>5. QED
    BY <1>1, <1>3, <1>4

\* An account that moves, with the columns of its user in step.
BooksMove(x) ==
    /\ owner' = owner
    /\ funded' = funded
    /\ \A y \in Mission \cup Turn : y # x => account'[y] = account[y]
    /\ \A u \in User :
         /\ held'[u] = held[u] + (IF owner[x] = u THEN Holds(x)' - Holds(x) ELSE 0)
         /\ free_held'[u] =
              free_held[u] + (IF owner[x] = u THEN FreeHolds(x)' - FreeHolds(x) ELSE 0)
         /\ consumed'[u] = consumed[u] + (IF owner[x] = u
                             THEN account'[x].tokens - account[x].tokens ELSE 0)
         /\ credits'[u] = credits[u] - (IF owner[x] = u
                             THEN account'[x].charge - account[x].charge ELSE 0)

LEMMA BooksStep ==
    ASSUME TypeOK, TypeOK', BooksBalance, NEW x \in Mission \cup Turn, BooksMove(x)
    PROVE  BooksBalance'
  <1> SUFFICES ASSUME NEW u \in User
               PROVE  /\ held'[u] = Sum([y \in Mission \cup Turn |-> account'[y].amount],
                                        ActiveOf(u)')
                      /\ free_held'[u] = Sum([y \in Mission \cup Turn |-> account'[y].free],
                                             ActiveOf(u)')
                      /\ consumed'[u] = Sum([y \in Mission \cup Turn |-> account'[y].tokens],
                                            AccountsOf(u)')
                      /\ credits'[u] = funded'[u]
                           - Sum([y \in Mission \cup Turn |-> account'[y].charge],
                                 AccountsOf(u)')
    BY DEF BooksBalance
  <1>0. /\ owner' = owner /\ funded'[u] = funded[u] /\ funded[u] \in Int
        /\ \A y \in Mission \cup Turn :
              /\ account[y] \in Account /\ account'[y] \in Account
              /\ y # x => account'[y] = account[y]
    BY DEF BooksMove, TypeOK
  <1>1. held'[u] = Sum([y \in Mission \cup Turn |-> account'[y].amount], ActiveOf(u)')
    <2> DEFINE v == [y \in Mission \cup Turn |-> account[y].amount]
               w == [y \in Mission \cup Turn |-> account'[y].amount]
    <2>1. /\ v \in [Mission \cup Turn -> Nat] /\ w \in [Mission \cup Turn -> Nat]
          /\ \A y \in Mission \cup Turn : y # x => w[y] = v[y]
      BY <1>0 DEF Account
    <2>2. held[u] = Sum(v, ActiveOf(u))
      BY DEF BooksBalance
    <2>3. held'[u] =
            held[u] + (IF owner[x] = u THEN (IF Active(x)' THEN w[x] ELSE 0)
                                            - (IF Active(x) THEN v[x] ELSE 0)
                                     ELSE 0)
      BY DEF BooksMove, Holds
    <2>4. v[x] \in Nat /\ w[x] \in Nat
      BY <2>1
    <2> HIDE DEF v, w
    <2>5. /\ Sum(v, ActiveOf(u)) \in Nat
          /\ owner[x] = u => Sum(w, ActiveOf(u)') = Sum(v, ActiveOf(u))
                                 + (IF Active(x)' THEN w[x] ELSE 0)
                                 - (IF Active(x) THEN v[x] ELSE 0)
          /\ owner[x] # u => Sum(w, ActiveOf(u)') = Sum(v, ActiveOf(u))
      BY <1>0, <2>1, ActiveMoves
    <2>6. held'[u] = Sum(w, ActiveOf(u)')
      BY <1>0, <2>2, <2>3, <2>4, <2>5
    <2>7. QED
      BY <2>6 DEF w
  <1>2. free_held'[u] = Sum([y \in Mission \cup Turn |-> account'[y].free], ActiveOf(u)')
    <2> DEFINE v == [y \in Mission \cup Turn |-> account[y].free]
               w == [y \in Mission \cup Turn |-> account'[y].free]
    <2>1. /\ v \in [Mission \cup Turn -> Nat] /\ w \in [Mission \cup Turn -> Nat]
          /\ \A y \in Mission \cup Turn : y # x => w[y] = v[y]
      BY <1>0 DEF Account
    <2>2. free_held[u] = Sum(v, ActiveOf(u))
      BY DEF BooksBalance
    <2>3. free_held'[u] =
            free_held[u] + (IF owner[x] = u THEN (IF Active(x)' THEN w[x] ELSE 0)
                                            - (IF Active(x) THEN v[x] ELSE 0)
                                     ELSE 0)
      BY DEF BooksMove, FreeHolds
    <2>4. v[x] \in Nat /\ w[x] \in Nat
      BY <2>1
    <2> HIDE DEF v, w
    <2>5. /\ Sum(v, ActiveOf(u)) \in Nat
          /\ owner[x] = u => Sum(w, ActiveOf(u)') = Sum(v, ActiveOf(u))
                                 + (IF Active(x)' THEN w[x] ELSE 0)
                                 - (IF Active(x) THEN v[x] ELSE 0)
          /\ owner[x] # u => Sum(w, ActiveOf(u)') = Sum(v, ActiveOf(u))
      BY <1>0, <2>1, ActiveMoves
    <2>6. free_held'[u] = Sum(w, ActiveOf(u)')
      BY <1>0, <2>2, <2>3, <2>4, <2>5
    <2>7. QED
      BY <2>6 DEF w
  <1>3. consumed'[u] = Sum([y \in Mission \cup Turn |-> account'[y].tokens], AccountsOf(u)')
    <2> DEFINE v == [y \in Mission \cup Turn |-> account[y].tokens]
               w == [y \in Mission \cup Turn |-> account'[y].tokens]
    <2>1. /\ v \in [Mission \cup Turn -> Nat] /\ w \in [Mission \cup Turn -> Nat]
          /\ \A y \in Mission \cup Turn : y # x => w[y] = v[y]
      BY <1>0 DEF Account
    <2>2. consumed[u] = Sum(v, AccountsOf(u))
      BY DEF BooksBalance
    <2>3. consumed'[u] = consumed[u] + (IF owner[x] = u THEN w[x] - v[x] ELSE 0)
      BY DEF BooksMove
    <2>4. v[x] \in Nat /\ w[x] \in Nat
      BY <2>1
    <2> HIDE DEF v, w
    <2>5. /\ Sum(v, AccountsOf(u)) \in Nat
          /\ owner[x] = u => Sum(w, AccountsOf(u)') = Sum(v, AccountsOf(u)) + w[x] - v[x]
          /\ owner[x] # u => Sum(w, AccountsOf(u)') = Sum(v, AccountsOf(u))
      BY <1>0, <2>1, ColumnMoves
    <2>6. consumed'[u] = Sum(w, AccountsOf(u)')
      BY <1>0, <2>2, <2>3, <2>4, <2>5
    <2>7. QED
      BY <2>6 DEF w
  <1>4. credits'[u] = funded'[u]
          - Sum([y \in Mission \cup Turn |-> account'[y].charge], AccountsOf(u)')
    <2> DEFINE v == [y \in Mission \cup Turn |-> account[y].charge]
               w == [y \in Mission \cup Turn |-> account'[y].charge]
    <2>1. /\ v \in [Mission \cup Turn -> Nat] /\ w \in [Mission \cup Turn -> Nat]
          /\ \A y \in Mission \cup Turn : y # x => w[y] = v[y]
      BY <1>0 DEF Account
    <2>2. credits[u] = funded[u] - Sum(v, AccountsOf(u))
      BY DEF BooksBalance
    <2>3. credits'[u] = credits[u] - (IF owner[x] = u THEN w[x] - v[x] ELSE 0)
      BY DEF BooksMove
    <2>4. v[x] \in Nat /\ w[x] \in Nat
      BY <2>1
    <2> HIDE DEF v, w
    <2>5. /\ Sum(v, AccountsOf(u)) \in Nat
          /\ owner[x] = u => Sum(w, AccountsOf(u)') = Sum(v, AccountsOf(u)) + w[x] - v[x]
          /\ owner[x] # u => Sum(w, AccountsOf(u)') = Sum(v, AccountsOf(u))
      BY <1>0, <2>1, ColumnMoves
    <2>6. credits'[u] = funded'[u] - Sum(w, AccountsOf(u)')
      BY <1>0, <2>2, <2>3, <2>4, <2>5
    <2>7. QED
      BY <2>6 DEF w
  <1>5. QED
    BY <1>1, <1>2, <1>3, <1>4

\* The free tokens an account used; those that a step adds to what it used and
\* holds are not yet used or held by any other.
Used(x) == Least(account[x].tokens, account[x].free)
FreeMove(x) ==
    Used(x)' + FreeHolds(x)' <=
      Used(x) + FreeHolds(x) + Less(FreeTokens, consumed[owner[x]] + free_held[owner[x]])

LEMMA UsedAtMost ==
    ASSUME TypeOK, BooksBalance, NEW u \in User
    PROVE  Sum([x \in Mission \cup Turn |-> Least(account[x].tokens, account[x].free)],
               AccountsOf(u)) <= consumed[u]
  <1> DEFINE v == [x \in Mission \cup Turn |-> Least(account[x].tokens, account[x].free)]
             w == [x \in Mission \cup Turn |-> account[x].tokens]
  <1>1. \A x \in Mission \cup Turn : v[x] \in Nat /\ w[x] \in Nat /\ v[x] <= w[x]
    BY DEF TypeOK, Account, Least
  <1>2. AccountsOf(u) \subseteq Mission \cup Turn
    BY DEF AccountsOf
  <1>3. consumed[u] = Sum(w, AccountsOf(u))
    BY DEF BooksBalance
  <1>4. Sum(v, AccountsOf(u)) <= Sum(w, AccountsOf(u))
    <2> HIDE DEF v, w
    <2>1. QED
      BY <1>1, <1>2, AccountsFinite, SumGrows
  <1>5. QED
    BY <1>3, <1>4

LEMMA FreeStep ==
    ASSUME TypeOK, TypeOK', BooksBalance, FreeBooked,
           NEW x \in Mission \cup Turn, BooksMove(x), FreeMove(x)
    PROVE  FreeBooked'
  <1> SUFFICES ASSUME NEW u \in User
               PROVE  Sum([y \in Mission \cup Turn |->
                              Least(account'[y].tokens, account'[y].free)],
                          AccountsOf(u)') + free_held'[u] <= FreeTokens
    BY DEF FreeBooked
  <1>1. PICK v : v = [y \in Mission \cup Turn |-> Least(account[y].tokens, account[y].free)]
    OBVIOUS
  <1>2. PICK w : w = [y \in Mission \cup Turn |-> Least(account'[y].tokens, account'[y].free)]
    OBVIOUS
  <1>3. /\ owner' = owner
        /\ \A y \in Mission \cup Turn :
              /\ account[y] \in Account /\ account'[y] \in Account
              /\ y # x => account'[y] = account[y]
    BY DEF BooksMove, TypeOK
  <1>4. /\ v \in [Mission \cup Turn -> Nat] /\ w \in [Mission \cup Turn -> Nat]
        /\ \A y \in Mission \cup Turn : y # x => w[y] = v[y]
    BY <1>1, <1>2, <1>3 DEF Account, Least
  <1>5. /\ Sum(v, AccountsOf(u)) + free_held[u] <= FreeTokens
        /\ Sum(v, AccountsOf(u)) <= consumed[u]
    BY <1>1, UsedAtMost DEF FreeBooked
  <1>6. /\ consumed[u] \in Nat /\ free_held[u] \in Nat /\ FreeTokens \in Nat
        /\ v[x] \in Nat /\ w[x] \in Nat
    BY <1>4, CreditAssumption DEF TypeOK
  <1>7. free_held'[u] = free_held[u]
                          + (IF owner[x] = u THEN FreeHolds(x)' - FreeHolds(x) ELSE 0)
    BY DEF BooksMove
  <1>8. FreeHolds(x) \in Nat /\ FreeHolds(x)' \in Nat
    BY <1>3 DEF FreeHolds, Account
  <1>9. /\ Sum(v, AccountsOf(u)) \in Nat
        /\ owner[x] = u => Sum(w, AccountsOf(u)') = Sum(v, AccountsOf(u)) + w[x] - v[x]
        /\ owner[x] # u => Sum(w, AccountsOf(u)') = Sum(v, AccountsOf(u))
    BY <1>3, <1>4, ColumnMoves
  <1>10. CASE owner[x] # u
    BY <1>2, <1>5, <1>6, <1>7, <1>9, <1>10
  <1>11. CASE owner[x] = u
    <2>1. w[x] + FreeHolds(x)' <=
            v[x] + FreeHolds(x) + Less(FreeTokens, consumed[u] + free_held[u])
      BY <1>1, <1>2, <1>11 DEF FreeMove, Used
    <2>2. /\ Sum(w, AccountsOf(u)') = Sum(v, AccountsOf(u)) + w[x] - v[x]
          /\ free_held'[u] = free_held[u] + FreeHolds(x)' - FreeHolds(x)
      BY <1>6, <1>7, <1>8, <1>9, <1>11
    <2>3. PICK more \in Nat :
            /\ more = Less(FreeTokens, consumed[u] + free_held[u])
            /\ more = 0 \/ more = FreeTokens - (consumed[u] + free_held[u])
      BY <1>6 DEF Less
    <2>4. Sum(w, AccountsOf(u)') + free_held'[u] <=
            Sum(v, AccountsOf(u)) + free_held[u] + more
      BY <1>6, <1>8, <1>9, <2>1, <2>2, <2>3
    <2>5. Sum(w, AccountsOf(u)') + free_held'[u] \in Int
      BY <1>6, <1>8, <1>9, <2>2
    <2>6. Sum(w, AccountsOf(u)') + free_held'[u] <= FreeTokens
      BY <1>5, <1>6, <1>9, <2>3, <2>4, <2>5
    <2>7. QED
      BY <1>2, <2>6
  <1>12. QED
    BY <1>10, <1>11

BooksInv == Entries /\ BooksBalance /\ FreeBooked

\* An account that moves in step with its user keeps the books.
LEMMA MoveKeeps ==
    ASSUME TypeOK, TypeOK', BooksInv, NEW x \in Mission \cup Turn,
           BooksMove(x), FreeMove(x), Charged(x)'
    PROVE  BooksInv'
  <1>1. Entries'
    BY DEF BooksInv, Entries, Charged, BooksMove
  <1>2. QED
    BY <1>1, BooksStep, FreeStep DEF BooksInv

\* A hold can always be returned in full: Less never clamps.
LEMMA HoldIsThere ==
    ASSUME TypeOK, BooksBalance, NEW x \in Mission \cup Turn, Active(x)
    PROVE  /\ account[x].amount <= held[owner[x]]
           /\ account[x].free <= free_held[owner[x]]
           /\ \A u \in User : Returned(x)[u] =
                held[u] - (IF owner[x] = u THEN account[x].amount ELSE 0)
  <1>0. owner[x] \in User /\ x \in ActiveOf(owner[x]) /\ account[x] \in Account
    BY DEF TypeOK, ActiveOf, AccountsOf
  <1>1. account[x].amount <= held[owner[x]]
    <2> DEFINE v == [y \in Mission \cup Turn |-> account[y].amount]
    <2>1. v \in [Mission \cup Turn -> Nat] /\ v[x] = account[x].amount
      BY DEF TypeOK, Account
    <2>2. held[owner[x]] = Sum(v, ActiveOf(owner[x]))
      BY <1>0 DEF BooksBalance
    <2> HIDE DEF v
    <2>3. \A y \in ActiveOf(owner[x]) : v[y] \in Nat
      BY <2>1 DEF ActiveOf, AccountsOf
    <2>4. v[x] <= Sum(v, ActiveOf(owner[x]))
      BY <1>0, <2>3, AccountsFinite, SumMoves
    <2>5. QED
      BY <2>1, <2>2, <2>4
  <1>2. account[x].free <= free_held[owner[x]]
    <2> DEFINE v == [y \in Mission \cup Turn |-> account[y].free]
    <2>1. v \in [Mission \cup Turn -> Nat] /\ v[x] = account[x].free
      BY DEF TypeOK, Account
    <2>2. free_held[owner[x]] = Sum(v, ActiveOf(owner[x]))
      BY <1>0 DEF BooksBalance
    <2> HIDE DEF v
    <2>3. \A y \in ActiveOf(owner[x]) : v[y] \in Nat
      BY <2>1 DEF ActiveOf, AccountsOf
    <2>4. v[x] <= Sum(v, ActiveOf(owner[x]))
      BY <1>0, <2>3, AccountsFinite, SumMoves
    <2>5. QED
      BY <2>1, <2>2, <2>4
  <1>3. \A u \in User : Returned(x)[u] =
                held[u] - (IF owner[x] = u THEN account[x].amount ELSE 0)
    <2>1. Less(held[owner[x]], account[x].amount) = held[owner[x]] - account[x].amount
      <3>1. held[owner[x]] \in Nat /\ account[x].amount \in Nat
        BY <1>0 DEF TypeOK, Account
      <3>2. QED
        BY <1>1, <3>1 DEF Less
    <2>2. ASSUME NEW u \in User, owner[x] = u
          PROVE  Returned(x)[u] = held[u] - account[x].amount
      BY <2>1, <2>2 DEF Returned, TypeOK
    <2>3. ASSUME NEW u \in User, owner[x] # u
          PROVE  Returned(x)[u] = held[u] - 0
      BY <2>3 DEF Returned, TypeOK
    <2>4. QED
      BY <2>2, <2>3
  <1>4. QED
    BY <1>1, <1>2, <1>3

\* Settling, releasing and reserving move the account and its user together.
LEMMA SettledMoves ==
    ASSUME TypeOK, TypeOK', BooksInv, NEW x \in Mission \cup Turn, Active(x),
           NEW cost \in Nat, NEW tokens \in Nat, Settled(x, cost, tokens),
           owner' = owner, funded' = funded,
           \A u \in User : free_held'[u] =
               free_held[u] - (IF owner[x] = u THEN account[x].free ELSE 0),
           \A u \in User : consumed'[u] =
               consumed[u] + (IF owner[x] = u THEN tokens ELSE 0)
    PROVE  BooksInv'
  <1>1. /\ account[x] \in Account /\ account[x].status = "reserved"
        /\ account[x].charge = 0 /\ account[x].tokens = 0
        /\ x \in Mission => account[x].free = 0
    BY DEF TypeOK, Active, BooksInv, Entries, Charged
  <1>2. Charge(x, cost) \in Nat
    BY <1>1 DEF Charge, Least, Account
  <1>3. /\ account' = [account EXCEPT ![x] = [account[x] EXCEPT !.status = "settled",
                          !.charge = Charge(x, cost), !.tokens = tokens]]
        /\ held' = Returned(x)
        /\ credits' = [credits EXCEPT ![owner[x]] = @ - Charge(x, cost)]
    BY DEF Settled
  <1>4. /\ account'[x].status = "settled" /\ account'[x].charge = Charge(x, cost)
        /\ account'[x].tokens = tokens /\ account'[x].free = account[x].free
        /\ \A y \in Mission \cup Turn : y # x => account'[y] = account[y]
    BY <1>1, <1>3 DEF TypeOK, Account
  <1>5. /\ Holds(x) = account[x].amount /\ Holds(x)' = 0
        /\ FreeHolds(x) = account[x].free /\ FreeHolds(x)' = 0
    BY <1>1, <1>4 DEF Holds, FreeHolds, Active
  <1>6. BooksMove(x)
    <2>1. ASSUME NEW u \in User
          PROVE  /\ held'[u] = held[u] - (IF owner[x] = u THEN account[x].amount ELSE 0)
                 /\ credits'[u] = credits[u] - (IF owner[x] = u THEN Charge(x, cost) ELSE 0)
                 /\ held[u] \in Nat /\ free_held[u] \in Nat
                 /\ consumed[u] \in Nat /\ credits[u] \in Int
      BY <1>2, <1>3, HoldIsThere DEF TypeOK, BooksInv
    <2>2. /\ account[x].amount \in Nat /\ account[x].free \in Nat
      BY <1>1 DEF Account
    <2>3. QED
      BY <1>1, <1>2, <1>4, <1>5, <2>1, <2>2 DEF BooksMove
  <1>7. FreeMove(x)
    <2>1. Used(x)' <= account[x].free /\ Used(x)' \in Nat /\ Used(x) = 0
      BY <1>1, <1>4 DEF Used, Least, Account
    <2>2. Less(FreeTokens, consumed[owner[x]] + free_held[owner[x]]) \in Nat
      BY CreditAssumption DEF Less, TypeOK
    <2>3. account[x].free \in Nat
      BY <1>1 DEF Account
    <2>4. QED
      BY <1>5, <2>1, <2>2, <2>3 DEF FreeMove
  <1>8. Charged(x)'
    BY <1>1, <1>4 DEF Charged
  <1>9. QED
    BY <1>6, <1>7, <1>8, MoveKeeps

LEMMA ReleasedMoves ==
    ASSUME TypeOK, TypeOK', BooksInv, NEW x \in Mission \cup Turn, Active(x),
           NEW status \in {"released", "expired"}, Released(x, status),
           owner' = owner, funded' = funded, credits' = credits, consumed' = consumed,
           \A u \in User : free_held'[u] =
               free_held[u] - (IF owner[x] = u THEN account[x].free ELSE 0)
    PROVE  BooksInv'
  <1>1. /\ account[x] \in Account /\ account[x].status = "reserved"
        /\ account[x].charge = 0 /\ account[x].tokens = 0
        /\ x \in Mission => account[x].free = 0
    BY DEF TypeOK, Active, BooksInv, Entries, Charged
  <1>2. /\ account'[x] = [account[x] EXCEPT !.status = status]
        /\ held' = Returned(x)
        /\ \A y \in Mission \cup Turn : y # x => account'[y] = account[y]
    BY DEF Released, TypeOK
  <1>3. /\ account'[x].status = status /\ account'[x].charge = 0
        /\ account'[x].tokens = 0 /\ account'[x].free = account[x].free
    BY <1>1, <1>2 DEF Account
  <1>4. /\ Holds(x) = account[x].amount /\ Holds(x)' = 0
        /\ FreeHolds(x) = account[x].free /\ FreeHolds(x)' = 0
    BY <1>1, <1>3 DEF Holds, FreeHolds, Active
  <1>5. BooksMove(x)
    <2>1. ASSUME NEW u \in User
          PROVE  /\ held'[u] = held[u] - (IF owner[x] = u THEN account[x].amount ELSE 0)
                 /\ held[u] \in Nat /\ free_held[u] \in Nat
                 /\ consumed[u] \in Nat /\ credits[u] \in Int
      BY <1>2, HoldIsThere DEF TypeOK, BooksInv
    <2>2. /\ account[x].amount \in Nat /\ account[x].free \in Nat
      BY <1>1 DEF Account
    <2>3. QED
      BY <1>1, <1>2, <1>3, <1>4, <2>1, <2>2 DEF BooksMove
  <1>6. FreeMove(x)
    <2>1. Used(x)' = 0 /\ Used(x) = 0
      BY <1>1, <1>3 DEF Used, Least, Account
    <2>2. Less(FreeTokens, consumed[owner[x]] + free_held[owner[x]]) \in Nat
      BY CreditAssumption DEF Less, TypeOK
    <2>3. account[x].free \in Nat
      BY <1>1 DEF Account
    <2>4. QED
      BY <1>4, <2>1, <2>2, <2>3 DEF FreeMove
  <1>7. Charged(x)'
    BY <1>1, <1>3 DEF Charged
  <1>8. QED
    BY <1>5, <1>6, <1>7, MoveKeeps

\* A new hold: of a Mission without free tokens, of a turn with those left.
LEMMA HoldMoves ==
    ASSUME TypeOK, TypeOK', BooksInv, NEW x \in Mission \cup Turn, ~Active(x),
           account[x].status # "settled", NEW a \in Nat, NEW free \in Nat,
           x \in Mission => free = 0,
           free <= Less(FreeTokens, consumed[owner[x]] + free_held[owner[x]]),
           account' = [account EXCEPT ![x] = [NoAccount EXCEPT
               !.status = "reserved", !.amount = a, !.free = free, !.expiry = "live"]],
           held' = Held(x, a), owner' = owner, funded' = funded,
           credits' = credits, consumed' = consumed,
           \A u \in User : free_held'[u] = free_held[u] + (IF owner[x] = u THEN free ELSE 0)
    PROVE  BooksInv'
  <1>1. /\ account[x] \in Account /\ account[x].status # "reserved"
        /\ account[x].charge = 0 /\ account[x].tokens = 0
    BY DEF TypeOK, Active, BooksInv, Entries, Charged
  <1>2. /\ account'[x].status = "reserved" /\ account'[x].amount = a
        /\ account'[x].charge = 0 /\ account'[x].tokens = 0 /\ account'[x].free = free
        /\ \A y \in Mission \cup Turn : y # x => account'[y] = account[y]
    BY DEF TypeOK, NoAccount
  <1>3. /\ Holds(x) = 0 /\ Holds(x)' = a /\ FreeHolds(x) = 0 /\ FreeHolds(x)' = free
    BY <1>1, <1>2 DEF Holds, FreeHolds, Active
  <1>4. BooksMove(x)
    <2>1. ASSUME NEW u \in User
          PROVE  /\ held'[u] = held[u] + (IF owner[x] = u THEN a ELSE 0)
                 /\ held[u] \in Nat /\ free_held[u] \in Nat
                 /\ consumed[u] \in Nat /\ credits[u] \in Int
      BY DEF TypeOK, Held
    <2>2. QED
      BY <1>1, <1>2, <1>3, <2>1 DEF BooksMove
  <1>5. FreeMove(x)
    <2>1. Used(x)' = 0 /\ Used(x) = 0
      BY <1>1, <1>2 DEF Used, Least, Account
    <2>2. Less(FreeTokens, consumed[owner[x]] + free_held[owner[x]]) \in Nat
      BY CreditAssumption DEF Less, TypeOK
    <2>3. QED
      BY <1>3, <2>1, <2>2 DEF FreeMove
  <1>6. Charged(x)'
    BY <1>2 DEF Charged
  <1>7. QED
    BY <1>4, <1>5, <1>6, MoveKeeps

\* A step that changes only the expiry of an account.
LEMMA ExpiryKeeps ==
    ASSUME TypeOK, TypeOK', BooksInv, NEW x \in Mission \cup Turn, NEW expiry,
           account' = [account EXCEPT ![x].expiry = expiry],
           UNCHANGED <<owner, credits, held, consumed, free_held, funded>>
    PROVE  BooksInv'
  <1>1. /\ account[x] \in Account
        /\ \A y \in Mission \cup Turn : y # x => account'[y] = account[y]
    BY DEF TypeOK
  <1>2. /\ account'[x].status = account[x].status /\ account'[x].amount = account[x].amount
        /\ account'[x].charge = account[x].charge /\ account'[x].tokens = account[x].tokens
        /\ account'[x].free = account[x].free
    BY <1>1 DEF TypeOK, Account
  <1>3. /\ Holds(x)' = Holds(x) /\ Holds(x) \in Nat
        /\ FreeHolds(x)' = FreeHolds(x) /\ FreeHolds(x) \in Nat
        /\ Used(x)' = Used(x) /\ Used(x) \in Nat
    BY <1>1, <1>2 DEF Holds, FreeHolds, Used, Active, Least, Account
  <1>4. BooksMove(x)
    <2>1. /\ account[x].tokens \in Nat /\ account[x].charge \in Nat
          /\ \A u \in User : /\ held[u] \in Nat /\ free_held[u] \in Nat
                             /\ consumed[u] \in Nat /\ credits[u] \in Int
      BY <1>1 DEF TypeOK, Account
    <2>2. QED
      BY <1>1, <1>2, <1>3, <2>1 DEF BooksMove
  <1>5. FreeMove(x)
    <2>1. Less(FreeTokens, consumed[owner[x]] + free_held[owner[x]]) \in Nat
      BY CreditAssumption DEF Less, TypeOK
    <2>2. QED
      BY <1>3, <2>1 DEF FreeMove
  <1>6. Charged(x)'
    BY <1>2 DEF BooksInv, Entries, Charged
  <1>7. QED
    BY <1>4, <1>5, <1>6, MoveKeeps

LEMMA NothingMoves ==
    ASSUME BooksInv, UNCHANGED <<owner, credits, held, consumed, free_held, funded, account>>
    PROVE  BooksInv'
  BY DEF BooksInv, Entries, Charged, BooksBalance, FreeBooked, ActiveOf, AccountsOf, Active

LEMMA FreeUnmoved ==
    ASSUME TypeOK, NEW m \in Mission, Charged(m), free_held' = free_held
    PROVE  \A u \in User :
             /\ free_held'[u] = free_held[u] - (IF owner[m] = u THEN account[m].free ELSE 0)
             /\ free_held'[u] = free_held[u] + (IF owner[m] = u THEN 0 ELSE 0)
             /\ consumed[u] = consumed[u] + (IF owner[m] = u THEN 0 ELSE 0)
  BY DEF TypeOK, Charged

LEMMA MissionBooks ==
    ASSUME TypeOK, TypeOK', BooksInv, NEW m \in Mission, Matches(m), MissionStep(m)
    PROVE  BooksInv'
  <1>0. Charged(m)
    BY DEF BooksInv, Entries
  <1>1. ASSUME UNCHANGED <<owner, userVars, funded, account>>
        PROVE  BooksInv'
    <2>1. UNCHANGED <<owner, credits, held, consumed, free_held, funded, account>>
      BY <1>1 DEF userVars
    <2>2. QED
      BY <2>1, NothingMoves
  <1>2. ASSUME NEW a \in Nat, Reserved(m, a), ~Active(m), account[m].status # "settled",
               UNCHANGED <<owner, credits, consumed, free_held, funded>>
        PROVE  BooksInv'
    <2>1. /\ account' = [account EXCEPT ![m] = [NoAccount EXCEPT
                 !.status = "reserved", !.amount = a, !.expiry = "live"]]
          /\ held' = Held(m, a)
      BY <1>2 DEF Reserved
    <2>2. [NoAccount EXCEPT !.status = "reserved", !.amount = a, !.expiry = "live"]
            = [NoAccount EXCEPT !.status = "reserved", !.amount = a, !.free = 0,
                                !.expiry = "live"]
      <3>1. NoAccount.free = 0 /\ NoAccount = [NoAccount EXCEPT !.free = 0]
        BY DEF NoAccount
      <3>2. QED
        BY <3>1 DEF NoAccount
    <2>3. account' = [account EXCEPT ![m] = [NoAccount EXCEPT !.status = "reserved",
                          !.amount = a, !.free = 0, !.expiry = "live"]]
      BY <2>1, <2>2, Zenon
    <2>4. 0 <= Less(FreeTokens, consumed[owner[m]] + free_held[owner[m]])
      BY CreditAssumption DEF Less, TypeOK
    <2>5. \A u \in User : free_held'[u] = free_held[u] + (IF owner[m] = u THEN 0 ELSE 0)
      BY <1>0, <1>2, FreeUnmoved
    <2>6. QED
      BY <1>2, <2>1, <2>3, <2>4, <2>5, HoldMoves
  <1>3. ASSUME NEW status, End(m, status)
        PROVE  BooksInv'
    <2>1. CASE Active(m)
      <3>1. Settled(m, MissionCost(m, status), 0)
        BY <1>3, <2>1 DEF End, SettleTerminal
      <3>2. /\ UNCHANGED <<owner, consumed, free_held, funded>>
            /\ \A u \in User :
                 /\ free_held'[u] =
                      free_held[u] - (IF owner[m] = u THEN account[m].free ELSE 0)
                 /\ consumed'[u] = consumed[u] + (IF owner[m] = u THEN 0 ELSE 0)
        BY <1>0, <1>3, FreeUnmoved DEF End
      <3>3. QED
        BY <2>1, <3>1, <3>2, CostType, SettledMoves
    <2>2. CASE ~Active(m)
      BY <1>1, <1>3, <2>2 DEF End, SettleTerminal, userVars
    <2>3. QED
      BY <2>1, <2>2
  <1>4. ASSUME NEW estimate \in Estimates, Admit(m, estimate)
        PROVE  BooksInv'
    <2>1. account[m].status = "none" /\ estimate \in Nat
      BY <1>4, CreditAssumption DEF Admit, Matches
    <2>2. CASE UNCHANGED <<account, held>>
      BY <1>1, <1>4, <2>2 DEF Admit, userVars
    <2>3. CASE Reserved(m, estimate)
      BY <1>2, <1>4, <2>1, <2>3 DEF Admit, Active
    <2>4. QED
      BY <1>4, <2>2, <2>3 DEF Admit
  <1>5. CASE ResumeBudget(m)
    <2>1. mission[m].estimate \in Nat
      BY DEF TypeOK, MissionState
    <2>2. CASE Active(m)
      BY <1>1, <1>5, <2>2 DEF ResumeBudget, userVars
    <2>3. CASE ~Active(m)
      BY <1>2, <1>5, <2>1, <2>3 DEF ResumeBudget
    <2>4. QED
      BY <2>2, <2>3
  <1>6. CASE Complete(m) \/ Fail(m) \/ ApplyCancel(m)
    BY <1>3, <1>6 DEF Complete, Fail, ApplyCancel
  <1>7. CASE FailUnresolved(m)
    <2>1. account' = [account EXCEPT ![m].expiry = "none"]
          /\ UNCHANGED <<owner, credits, held, consumed, free_held, funded>>
      BY <1>7 DEF FailUnresolved, userVars
    <2>2. QED
      BY <2>1, ExpiryKeeps
  <1>8. CASE ExpireReservation(m)
    <2>1. /\ Active(m) /\ Released(m, "expired")
          /\ UNCHANGED <<owner, credits, consumed, free_held, funded>>
      BY <1>8 DEF ExpireReservation, Past
    <2>2. \A u \in User : free_held'[u] =
            free_held[u] - (IF owner[m] = u THEN account[m].free ELSE 0)
      BY <1>0, <2>1, FreeUnmoved
    <2>3. QED
      BY <2>1, <2>2, ReleasedMoves
  <1>9. CASE ResumeInput(m) \/ StartModelCall(m) \/ LeaveUnresolved(m) \/ ApplyCommands(m)
    BY <1>1, <1>9 DEF ResumeInput, StartModelCall, LeaveUnresolved, ApplyCommands
  <1>10. CASE \/ \E command \in Command : AppendCommand(m, command)
              \/ \E usage \in 0 .. MaxUsage : CloseModelCall(m, usage)
              \/ \E reason \in {"budget", "input"} : WaitForUser(m, reason)
    BY <1>1, <1>10 DEF AppendCommand, CloseModelCall, WaitForUser
  <1>11. QED
    BY <1>4, <1>5, <1>6, <1>7, <1>8, <1>9, <1>10 DEF MissionStep

LEMMA TurnBooks ==
    ASSUME TypeOK, TypeOK', BooksInv, NEW t \in Turn, TurnStep(t)
    PROVE  BooksInv'
  <1>0. /\ account[t] \in Account /\ owner[t] \in User /\ t \notin Mission
        /\ \A u \in User : free_held[u] \in Nat /\ consumed[u] \in Nat
    BY CreditAssumption DEF TypeOK
  <1>1. ASSUME Consistent(t), free_held' = FreeReturned(t)
        PROVE  \A u \in User : free_held'[u] =
                 free_held[u] - (IF owner[t] = u THEN account[t].free ELSE 0)
    BY <1>0, <1>1 DEF FreeReturned, TypeOK, Account
  <1>2. CASE Authorize(t)
    <2>1. FreeHold(t) \in Nat /\ CreditHold(t) \in Nat
      BY FreeHoldType
    <2>2. FreeHold(t) <= Less(FreeTokens, consumed[owner[t]] + free_held[owner[t]])
      <3>1. Less(FreeTokens, consumed[owner[t]] + free_held[owner[t]]) \in Nat
            /\ TurnTokens \in Nat
        BY <1>0, CreditAssumption DEF Less
      <3>2. QED
        BY <3>1 DEF FreeHold, Least
    <2>3. \A u \in User : free_held'[u] =
            free_held[u] + (IF owner[t] = u THEN FreeHold(t) ELSE 0)
      BY <1>0, <1>2, <2>1 DEF Authorize, TypeOK
    <2>4. /\ account[t].status = "none" /\ held' = Held(t, CreditHold(t))
          /\ account' = [account EXCEPT ![t] = [NoAccount EXCEPT !.status = "reserved",
                 !.amount = CreditHold(t), !.free = FreeHold(t), !.expiry = "live"]]
          /\ UNCHANGED <<owner, credits, consumed, funded>>
      BY <1>2 DEF Authorize
    <2>5. ~Active(t) /\ account[t].status # "settled"
      BY <2>4 DEF Active
    <2>6. QED
      BY <1>0, <2>1, <2>2, <2>3, <2>4, <2>5, HoldMoves
  <1>3. ASSUME NEW tokens \in 1 .. MaxTurnUsage, CompleteTurn(t, tokens)
        PROVE  BooksInv'
    <2>1. tokens \in Nat /\ Less(tokens, account[t].free) \in Nat
      BY <1>0, CreditAssumption DEF Less, Account
    <2>2. \A u \in User : consumed'[u] = consumed[u] + (IF owner[t] = u THEN tokens ELSE 0)
      BY <1>0, <1>3, <2>1 DEF CompleteTurn, TypeOK
    <2>3. /\ Active(t) /\ Settled(t, Less(tokens, account[t].free), tokens)
          /\ owner' = owner /\ funded' = funded
          /\ Consistent(t) /\ free_held' = FreeReturned(t)
      BY <1>3 DEF CompleteTurn
    <2>4. QED
      BY <1>1, <2>1, <2>2, <2>3, SettledMoves
  <1>4. CASE ReleaseTurn(t) \/ ExpireTurn(t)
    <2>1. /\ Active(t) /\ Consistent(t) /\ free_held' = FreeReturned(t)
          /\ UNCHANGED <<owner, credits, consumed, funded>>
          /\ \E status \in {"released", "expired"} : Released(t, status)
      BY <1>4 DEF ReleaseTurn, ExpireTurn, Past
    <2>2. QED
      BY <1>1, <2>1, ReleasedMoves
  <1>5. QED
    BY <1>2, <1>3, <1>4 DEF TurnStep

\* A grant or a deduction moves the balance and the funds alike.
LEMMA AdjustBooks ==
    ASSUME TypeOK, BooksInv, NEW u \in User, NEW amount \in Int, Adjust(u, amount)
    PROVE  BooksInv'
  <1>1. /\ UNCHANGED <<owner, held, consumed, free_held, account>>
        /\ credits' = [credits EXCEPT ![u] = @ + amount]
        /\ funded' = [funded EXCEPT ![u] = @ + amount]
    BY DEF Adjust
  <1>2. /\ Entries' /\ FreeBooked'
        /\ \A v : AccountsOf(v)' = AccountsOf(v) /\ ActiveOf(v)' = ActiveOf(v)
    BY <1>1 DEF BooksInv, Entries, Charged, FreeBooked, AccountsOf, ActiveOf, Active
  <1>3. ASSUME NEW v \in User
        PROVE  credits'[v] = funded'[v]
                 - Sum([x \in Mission \cup Turn |-> account[x].charge], AccountsOf(v))
    <2> DEFINE charge == [x \in Mission \cup Turn |-> account[x].charge]
    <2>1. Sum(charge, AccountsOf(v)) \in Nat
      <3>1. \A x \in AccountsOf(v) : charge[x] \in Nat
        BY DEF TypeOK, Account, AccountsOf
      <3> HIDE DEF charge
      <3>2. QED
        BY <3>1, AccountsFinite, SumType
    <2>2. credits[v] = funded[v] - Sum(charge, AccountsOf(v))
      BY DEF BooksInv, BooksBalance
    <2> HIDE DEF charge
    <2>3. credits'[v] = funded'[v] - Sum(charge, AccountsOf(v))
      BY <1>1, <2>1, <2>2 DEF TypeOK
    <2>4. QED
      BY <2>3 DEF charge
  <1>4. BooksBalance'
    BY <1>1, <1>2, <1>3 DEF BooksInv, BooksBalance
  <1>5. QED
    BY <1>2, <1>4 DEF BooksInv

LEMMA BooksInvStep ==
    TypeOK /\ TypeOK' /\ AccountsMatch /\ BooksInv /\ [Next]_vars => BooksInv'
  <1> SUFFICES ASSUME TypeOK, TypeOK', AccountsMatch, BooksInv, [Next]_vars
               PROVE  BooksInv'
    OBVIOUS
  <1>1. ASSUME NEW m \in Mission, MissionStep(m)
        PROVE  BooksInv'
    BY <1>1, MissionBooks DEF AccountsMatch
  <1>2. ASSUME NEW x \in Mission \cup Turn, Lapse(x)
        PROVE  BooksInv'
    <2>1. /\ account' = [account EXCEPT ![x].expiry = "past"]
          /\ UNCHANGED <<owner, credits, held, consumed, free_held, funded>>
      BY <1>2 DEF Lapse, userVars
    <2>2. QED
      BY <2>1, ExpiryKeeps
  <1>3. \A amount \in Grants \cup Deductions : amount \in Int /\ -amount \in Int
    BY CreditAssumption
  <1>4. CASE UNCHANGED vars
    <2>1. UNCHANGED <<owner, credits, held, consumed, free_held, funded, account>>
      BY <1>4 DEF vars, userVars
    <2>2. QED
      BY <2>1, NothingMoves
  <1>5. QED
    BY <1>1, <1>2, <1>3, <1>4, TurnBooks, AdjustBooks DEF Next

\* A sum of nothing but zeros.
LEMMA SumZero ==
    ASSUME NEW S, IsFiniteSet(S), NEW value, \A x \in S : value[x] = 0
    PROVE  Sum(value, S) = 0
  <1> DEFINE Bad == {T \in SUBSET S : Sum(value, T) # 0}
  <1>1. SUFFICES ASSUME Bad # {}
                 PROVE  FALSE
    OBVIOUS
  <1>2. PICK T \in Bad : \A U \in Bad : ~(U \subseteq T /\ U # T)
    <2>1. Bad \subseteq SUBSET S
      OBVIOUS
    <2> HIDE DEF Bad
    <2>2. QED
      BY <1>1, <2>1, SmallestSet
  <1>3. T # {}
    BY <1>2, SumEmpty, Zenon
  <1>4. First(T) \in T /\ IsFiniteSet(T)
    BY <1>2, <1>3, FirstOf, FS_Subset
  <1>5. Sum(value, T \ {First(T)}) = 0
    BY <1>2, <1>4
  <1>6. value[First(T)] = 0
    BY <1>2, <1>4
  <1>7. QED
    BY <1>2, <1>3, <1>4, <1>5, <1>6, SumFirst

LEMMA BooksInvInit == Init => BooksInv
  <1> SUFFICES ASSUME Init
               PROVE  BooksInv
    OBVIOUS
  <1>1. \A x \in Mission \cup Turn :
          /\ account[x].status = "none" /\ account[x].amount = 0 /\ account[x].charge = 0
          /\ account[x].free = 0 /\ account[x].tokens = 0
    BY DEF Init, NoAccount
  <1>2. Entries
    BY <1>1 DEF Entries, Charged
  <1>3. ASSUME NEW v, \A x \in Mission \cup Turn : v[x] = 0, NEW u
        PROVE  Sum(v, AccountsOf(u)) = 0 /\ Sum(v, ActiveOf(u)) = 0
    <2>1. AccountsOf(u) \subseteq Mission \cup Turn /\ ActiveOf(u) \subseteq Mission \cup Turn
      BY DEF AccountsOf, ActiveOf
    <2>2. QED
      BY <1>3, <2>1, AccountsFinite, SumZero
  <1>4. BooksBalance
    <2> DEFINE amount == [x \in Mission \cup Turn |-> account[x].amount]
               free == [x \in Mission \cup Turn |-> account[x].free]
               tokens == [x \in Mission \cup Turn |-> account[x].tokens]
               charge == [x \in Mission \cup Turn |-> account[x].charge]
    <2>1. \A x \in Mission \cup Turn :
            amount[x] = 0 /\ free[x] = 0 /\ tokens[x] = 0 /\ charge[x] = 0
      BY <1>1
    <2>2. \A u \in User : held[u] = 0 /\ free_held[u] = 0 /\ consumed[u] = 0
                          /\ credits[u] = 0 /\ funded[u] = 0
      BY DEF Init
    <2>3. \A u \in User : /\ Sum(amount, ActiveOf(u)) = 0 /\ Sum(free, ActiveOf(u)) = 0
                          /\ Sum(tokens, AccountsOf(u)) = 0 /\ Sum(charge, AccountsOf(u)) = 0
      <3> HIDE DEF amount, free, tokens, charge
      <3> QED
        BY <1>3, <2>1
    <2>4. \A u \in User : /\ held[u] = Sum(amount, ActiveOf(u))
                          /\ free_held[u] = Sum(free, ActiveOf(u))
                          /\ consumed[u] = Sum(tokens, AccountsOf(u))
                          /\ credits[u] = funded[u] - Sum(charge, AccountsOf(u))
      <3> HIDE DEF amount, free, tokens, charge
      <3> QED
        BY <2>2, <2>3
    <2>5. QED
      BY <2>4 DEF BooksBalance
  <1>5. FreeBooked
    <2> DEFINE used == [x \in Mission \cup Turn |-> Least(account[x].tokens, account[x].free)]
    <2>1. \A x \in Mission \cup Turn : used[x] = 0
      BY <1>1 DEF Least
    <2>2. \A u \in User : Sum(used, AccountsOf(u)) = 0
      <3> HIDE DEF used
      <3> QED
        BY <1>3, <2>1
    <2>3. QED
      BY <2>2, CreditAssumption DEF Init, FreeBooked
  <1>6. QED
    BY <1>2, <1>4, <1>5 DEF BooksInv

LEMMA BooksInvariant == Spec => []BooksInv
  BY BooksInvInit, BooksInvStep, MatchInit, MatchStep, TypeCorrect, PTL DEF Spec

\* No order of reservations, reactivations, settlements, releases, expiries and
\* adjustments loses a credit, or returns or charges one twice: the columns of
\* every user row stay the sums over the rows of the user's accounts.
THEOREM BooksAlwaysBalance == Spec => []BooksBalance
  BY BooksInvariant, PTL DEF BooksInv

\* However many turns of a user overlap, they use the free tokens once.
THEOREM FreeTokensGivenOnce == Spec => []FreeTokensOnce
  <1>1. TypeOK /\ BooksInv => FreeTokensOnce
    <2> SUFFICES ASSUME TypeOK, BooksInv, NEW u \in User
                 PROVE  Sum([x \in Mission \cup Turn |->
                                Least(account[x].tokens, account[x].free)],
                            AccountsOf(u)) <= FreeTokens
      BY DEF FreeTokensOnce
    <2>1. PICK v : v = [x \in Mission \cup Turn |-> Least(account[x].tokens, account[x].free)]
      OBVIOUS
    <2>2. Sum(v, AccountsOf(u)) + free_held[u] <= FreeTokens
      BY <2>1 DEF BooksInv, FreeBooked
    <2>3. \A x \in AccountsOf(u) : v[x] \in Nat
      BY <2>1 DEF AccountsOf, TypeOK, Account, Least
    <2>4. Sum(v, AccountsOf(u)) \in Nat
      BY <2>3, AccountsFinite, SumType
    <2>5. Sum(v, AccountsOf(u)) <= FreeTokens
      BY <2>2, <2>4, CreditAssumption DEF TypeOK
    <2>6. QED
      BY <2>1, <2>5
  <1>2. QED
    BY <1>1, BooksInvariant, TypeCorrect, PTL

\* A user whose work is over has nothing held, for any order of its steps.
NothingHeldAtRest ==
    \A u \in User : ActiveOf(u) = {} => held[u] = 0 /\ free_held[u] = 0

THEOREM RestHoldsNothing == Spec => []NothingHeldAtRest
  <1>1. BooksInv => NothingHeldAtRest
    <2> SUFFICES ASSUME BooksInv, NEW u \in User, ActiveOf(u) = {}
                 PROVE  held[u] = 0 /\ free_held[u] = 0
      BY DEF NothingHeldAtRest
    <2>1. PICK v, w : /\ v = [x \in Mission \cup Turn |-> account[x].amount]
                      /\ w = [x \in Mission \cup Turn |-> account[x].free]
      OBVIOUS
    <2>2. held[u] = Sum(v, ActiveOf(u)) /\ free_held[u] = Sum(w, ActiveOf(u))
      BY <2>1 DEF BooksInv, BooksBalance
    <2>3. held[u] = Sum(v, {}) /\ free_held[u] = Sum(w, {})
      BY <2>2, Zenon
    <2>4. QED
      BY <2>3, SumEmpty
  <1>2. QED
    BY <1>1, BooksInvariant, PTL
=============================================================================
