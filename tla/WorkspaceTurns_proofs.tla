----------------------- MODULE WorkspaceTurns_proofs ------------------------
(***************************************************************************)
(* Theorems about WorkspaceTurns: however many Missions share a workspace, *)
(* none of them is overtaken more than once by each of its peers.          *)
(*                                                                         *)
(* A peer of m has had its turn when it is neither ahead of m in line nor  *)
(* the Mission a dispatch generation has been reserved for.  Who has had   *)
(* its turn keeps having had it as long as m is in line; whoever overtakes *)
(* m has not had it before and has it afterwards.                          *)
(***************************************************************************)
EXTENDS WorkspaceTurns, FiniteSetTheorems, TLAPS

-----------------------------------------------------------------------------
(* Type correctness.                                                       *)

LEMMA LineType ==
    ASSUME TypeOK, NEW m \in Mission
    PROVE  /\ due \cup {m} \subseteq Mission
           /\ due \ {m} \subseteq Mission
           /\ Without(m) \subseteq Mission \X Mission
           /\ {<<p, m>> : p \in due \ {m}} \subseteq Mission \X Mission
  BY DEF TypeOK, Without

LEMMA OrderType ==
    ASSUME TypeOK, NEW m \in Mission,
           LeaveLine(m) \/ DueNow(m) \/ UNCHANGED order
    PROVE  due' \subseteq Mission /\ due_before' \subseteq Mission \X Mission
  BY LineType DEF TypeOK, LeaveLine, DueNow, order

LEMMA CountType ==
    ASSUME TypeOK, NEW m \in Mission, DueNow(m) \/ UNCHANGED overtaken
    PROVE  overtaken' \in [Mission -> Nat]
  <1>1. overtaken \in [Mission -> Nat]
    BY DEF TypeOK
  <1> QED
    BY <1>1 DEF DueNow

LEMMA TypeStep ==
    ASSUME TypeOK, [Next]_vars
    PROVE  TypeOK'
  <1>1. CASE UNCHANGED vars
    BY <1>1 DEF TypeOK, vars
  <1>2. ASSUME NEW m \in Mission, NEW s \in {"runnable", "waiting"}, Admit(m, s)
        PROVE  TypeOK'
    BY <1>2, OrderType, CountType DEF Admit, TypeOK, order
  <1>3. ASSUME NEW m \in Mission, WakeByUser(m) \/ WakeByReview(m)
        PROVE  TypeOK'
    BY <1>3, OrderType, CountType
    DEF WakeByUser, WakeByReview, Wake, TypeOK, order
  <1>4. ASSUME NEW m \in Mission, ExpireReservation(m) \/ FallDue(m)
        PROVE  TypeOK'
    BY <1>4, OrderType, CountType DEF ExpireReservation, FallDue, TypeOK
  <1>5. ASSUME NEW m \in Mission,
               \/ Dispatch(m) \/ DispatchAhead(m)
               \/ ReleaseDispatch(m) \/ DispatchExpires(m)
        PROVE  TypeOK'
    BY <1>5
    DEF Dispatch, DispatchAhead, ReleaseDispatch, DispatchExpires, Free, TypeOK, order
  <1>6. ASSUME NEW m \in Mission, ClaimLease(m)
        PROVE  TypeOK'
    BY <1>6, OrderType DEF ClaimLease, TypeOK
  <1>7. ASSUME NEW m \in Mission, LeaseExpires(m)
        PROVE  TypeOK'
    BY <1>7, OrderType, CountType DEF LeaseExpires, Free, TypeOK, order
  <1>8. ASSUME NEW m \in Mission, Yield(m) \/ YieldForLater(m)
        PROVE  TypeOK'
    BY <1>8, OrderType, CountType DEF Yield, YieldForLater, Free, TypeOK
  <1>9. ASSUME NEW m \in Mission, NEW s \in {"waiting", "over"}, EndSlice(m, s)
        PROVE  TypeOK'
    BY <1>9, OrderType DEF EndSlice, Free, TypeOK
  <1> QED
    BY <1>1, <1>2, <1>3, <1>4, <1>5, <1>6, <1>7, <1>8, <1>9 DEF Next, SliceEnds

LEMMA InitType == Init => TypeOK
  <1> SUFFICES ASSUME Init
               PROVE  TypeOK
    OBVIOUS
  <1>1. /\ status \in [Mission -> {"new", "runnable", "waiting", "over"}]
        /\ overtaken \in [Mission -> Nat]
    BY DEF Init
  <1> QED
    BY <1>1 DEF Init, TypeOK

\* The variables keep their types, for any number of Missions and wakeups.
THEOREM TypeCorrect == Spec => []TypeOK
  <1>1. Init => TypeOK
    BY InitType
  <1> QED
    BY <1>1, TypeStep, PTL DEF Spec

-----------------------------------------------------------------------------
(* The line.                                                               *)

\* Of two Missions in line one has been there for longer.
LineInv ==
    /\ due_before \subseteq due \X due
    /\ \A m, n \in due : m = n \/ <<m, n>> \in due_before \/ <<n, m>> \in due_before

\* Some Mission falls due, leaves the line or stays; the slot is kept or freed.
Moved(k) ==
    /\ \/ DueNow(k)
       \/ LeaveLine(k) /\ UNCHANGED overtaken
       \/ UNCHANGED <<order, overtaken>>
    /\ Free \/ UNCHANGED <<slot, leased>>

\* The slot is reserved, and used.
Reserved(k) ==
    /\ slot' = k
    /\ Oldest(k) \/ due = {}
    /\ UNCHANGED <<order, leased, overtaken>>

LEMMA EveryStep ==
    ASSUME [Next]_vars
    PROVE  \/ UNCHANGED vars
           \/ \E k \in Mission : Moved(k) \/ Reserved(k) \/ ClaimLease(k)
  <1>1. ASSUME NEW k \in Mission, NEW s, Admit(k, s) \/ EndSlice(k, s)
        PROVE  Moved(k)
    BY <1>1 DEF Admit, EndSlice, Moved
  <1>2. ASSUME NEW k \in Mission,
               \/ WakeByUser(k) \/ WakeByReview(k) \/ ExpireReservation(k)
               \/ FallDue(k) \/ ReleaseDispatch(k) \/ DispatchExpires(k)
               \/ LeaseExpires(k) \/ Yield(k) \/ YieldForLater(k)
        PROVE  Moved(k)
    BY <1>2 DEF WakeByUser, WakeByReview, Wake, ExpireReservation, FallDue,
                ReleaseDispatch, DispatchExpires, LeaseExpires, Yield,
                YieldForLater, Moved, Free
  <1>3. ASSUME NEW k \in Mission, Dispatch(k) \/ DispatchAhead(k)
        PROVE  Reserved(k)
    BY <1>3 DEF Dispatch, DispatchAhead, Reserved
  <1> QED
    BY <1>1, <1>2, <1>3 DEF Next, SliceEnds

LEMMA LineStep ==
    ASSUME LineInv, [Next]_vars
    PROVE  LineInv'
  <1>1. CASE UNCHANGED vars
    BY <1>1 DEF vars, LineInv
  <1>2. ASSUME NEW k, DueNow(k)
        PROVE  LineInv'
    BY <1>2 DEF LineInv, DueNow, Without
  <1>3. ASSUME NEW k, LeaveLine(k)
        PROVE  LineInv'
    BY <1>3 DEF LineInv, LeaveLine, Without
  <1>4. CASE UNCHANGED order
    BY <1>4 DEF LineInv, order
  <1> QED
    BY <1>1, <1>2, <1>3, <1>4, EveryStep DEF Moved, Reserved, ClaimLease

-----------------------------------------------------------------------------
(* Overtaking.                                                             *)

\* The peers of m that have had their turn.
Served(m) ==
    {p \in Mission \ {m} : <<p, m>> \notin due_before /\ (slot # p \/ leased)}

TurnInv == \A m \in due : overtaken[m] <= Cardinality(Served(m))

LEMMA ServedFinite ==
    ASSUME NEW S \in SUBSET Mission
    PROVE  IsFiniteSet(S) /\ Cardinality(S) \in Nat
  BY FS_Subset, FS_CardinalityType, TurnAssumption

LEMMA ServedGrows ==
    ASSUME NEW S \in SUBSET Mission, NEW T \in SUBSET S
    PROVE  Cardinality(T) <= Cardinality(S)
  BY ServedFinite, FS_Subset

\* The count of m stays, and nobody who has had its turn gets another one.
LEMMA CountKept ==
    ASSUME TypeOK, TypeOK', TurnInv, NEW m \in due,
           overtaken'[m] = overtaken[m], Served(m) \subseteq Served(m)'
    PROVE  overtaken'[m] <= Cardinality(Served(m)')
  <1>1. Served(m)' \subseteq Mission /\ Served(m) \subseteq Mission
    BY DEF Served
  <1>2. Cardinality(Served(m)) <= Cardinality(Served(m)')
    BY <1>1, ServedGrows
  <1>3. overtaken[m] \in Nat /\ overtaken[m] <= Cardinality(Served(m))
    BY DEF TurnInv, TypeOK
  <1> QED
    BY <1>1, <1>2, <1>3, ServedFinite

LEMMA TurnStep ==
    ASSUME TypeOK, LineInv, TurnInv, [Next]_vars
    PROVE  TurnInv'
  <1>1. TypeOK' /\ LineInv'
    BY TypeStep, LineStep
  <1> SUFFICES ASSUME NEW m \in due'
               PROVE  overtaken'[m] <= Cardinality(Served(m)')
    BY DEF TurnInv
  <1>2. m \in Mission /\ None \notin Mission /\ due \subseteq Mission
    BY <1>1, TurnAssumption DEF TypeOK
  <1>3. Served(m)' \subseteq Mission
    BY DEF Served
  <1>4. CASE UNCHANGED vars
    BY <1>1, <1>4, CountKept DEF vars, Served
  <1>5. ASSUME NEW k \in Mission, Moved(k)
        PROVE  overtaken'[m] <= Cardinality(Served(m)')
    <2>1. CASE DueNow(k) /\ m = k
      <3>1. overtaken'[m] = 0
        BY <1>2, <2>1 DEF DueNow, TypeOK
      <3> QED
        BY <1>3, <3>1, ServedFinite
    <2>2. CASE ~(DueNow(k) /\ m = k)
      <3>1. m \in due /\ overtaken'[m] = overtaken[m]
        BY <1>2, <1>5, <2>2 DEF Moved, DueNow, LeaveLine, order, TypeOK
      <3>2. \A p \in Mission \ {m} : <<p, m>> \in due_before' => <<p, m>> \in due_before
        BY <1>5, <2>2 DEF Moved, DueNow, LeaveLine, Without, order
      <3>3. \A p \in Mission : (slot # p \/ leased) => (slot' # p \/ leased')
        BY <1>2, <1>5 DEF Moved, Free
      <3>4. Served(m) \subseteq Served(m)'
        BY <3>2, <3>3 DEF Served
      <3> QED
        BY <1>1, <3>1, <3>4, CountKept
    <2> QED
      BY <2>1, <2>2
  <1>6. ASSUME NEW k \in Mission, Reserved(k)
        PROVE  overtaken'[m] <= Cardinality(Served(m)')
    <2>1. m \in due /\ overtaken'[m] = overtaken[m] /\ due_before' = due_before
      BY <1>6 DEF Reserved, order
    <2>2. k = m \/ <<k, m>> \in due_before
      BY <1>6, <2>1 DEF Reserved, Oldest, InLine, LineInv
    <2>3. Served(m) \subseteq Served(m)'
      BY <1>6, <2>1, <2>2 DEF Reserved, Served
    <2> QED
      BY <1>1, <2>1, <2>3, CountKept
  <1>7. ASSUME NEW k \in Mission, ClaimLease(k)
        PROVE  overtaken'[m] <= Cardinality(Served(m)')
    <2>1. /\ m # k /\ m \in due
          /\ overtaken'[m] = overtaken[m] + 1
          /\ overtaken[m] \in Nat
      BY <1>2, <1>7 DEF ClaimLease, LeaveLine, InLine, TypeOK
    <2>2. k \notin Served(m)
      BY <1>7 DEF ClaimLease, Served
    <2>3. Served(m) \cup {k} \subseteq Served(m)'
      BY <1>7, <2>1 DEF ClaimLease, LeaveLine, Without, Served
    <2>4. Served(m) \subseteq Mission
      BY DEF Served
    <2>5. Cardinality(Served(m) \cup {k}) = Cardinality(Served(m)) + 1
      BY <2>2, <2>4, ServedFinite, FS_AddElement
    <2>6. Cardinality(Served(m) \cup {k}) <= Cardinality(Served(m)')
      BY <1>3, <2>3, ServedGrows
    <2>7. overtaken[m] <= Cardinality(Served(m))
      BY <2>1 DEF TurnInv
    <2> QED
      BY <1>3, <2>1, <2>4, <2>5, <2>6, <2>7, ServedFinite
  <1> QED
    BY <1>4, <1>5, <1>6, <1>7, EveryStep

\* A Mission that is due is overtaken at most once by each of its peers, for any
\* number of Missions: yields, expired leases, lost messages, delayed wakeups and
\* wakeups written while it is dispatched give nobody a second turn before it
\* (find_oldest_dispatchable_workspace_run, claim_run_lease).
THEOREM EveryPeerOnce == Spec => []BoundedOvertaking
  <1> DEFINE IInv == TypeOK /\ LineInv /\ TurnInv
  <1>1. Init => IInv
    BY InitType DEF Init, LineInv, TurnInv
  <1>2. IInv /\ [Next]_vars => IInv'
    BY TypeStep, LineStep, TurnStep
  <1>3. IInv => BoundedOvertaking
    <2> SUFFICES ASSUME IInv, NEW m \in Mission, m \in due
                 PROVE  overtaken[m] < Cardinality(Mission)
      BY DEF BoundedOvertaking, InLine
    <2>1. /\ Served(m) \subseteq Mission \ {m}
          /\ Mission \ {m} \subseteq Mission
      BY DEF Served
    <2>2. Cardinality(Mission \ {m}) = Cardinality(Mission) - 1
      BY FS_RemoveElement, TurnAssumption
    <2>3. Cardinality(Served(m)) <= Cardinality(Mission \ {m})
      BY <2>1, ServedGrows
    <2>4. /\ Cardinality(Mission) \in Nat
          /\ Cardinality(Served(m)) \in Nat
          /\ overtaken[m] \in Nat
          /\ overtaken[m] <= Cardinality(Served(m))
      BY <2>1, ServedFinite DEF TypeOK, TurnInv
    <2> QED
      BY <2>2, <2>3, <2>4
  <1> QED
    BY <1>1, <1>2, <1>3, PTL DEF Spec

=============================================================================
