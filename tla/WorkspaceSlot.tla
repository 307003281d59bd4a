---------------------------- MODULE WorkspaceSlot ----------------------------
(***************************************************************************)
(* What the dispatch and lease fences of mission_runs promise about the    *)
(* writable Sandbox of a workspace, without dispatches, leases, messages   *)
(* or clocks.                                                              *)
(*                                                                         *)
(* A workspace has one slot.  A Mission takes the free slot, may begin one *)
(* term of execution with it, writes under that term only while it keeps   *)
(* the slot, and leaves.  Whoever takes the slot next starts from what was *)
(* written: no write of an earlier term appears later.                     *)
(***************************************************************************)
EXTENDS Naturals

CONSTANTS Mission, Workspace, WorkspaceOf, None

VARIABLES
    holder,   \* [Workspace -> the Mission that has its slot, or None]
    begun,    \* [Mission -> has begun a term with the slot it holds]
    term,     \* [Mission -> terms begun]
    written   \* [Mission -> term of its last write]

vars == <<holder, begun, term, written>>

Holds(m) == holder[WorkspaceOf[m]] = m

Init ==
    /\ holder = [ws \in Workspace |-> None]
    /\ begun = [m \in Mission |-> FALSE]
    /\ term = [m \in Mission |-> 0]
    /\ written = [m \in Mission |-> 0]

Take(m) ==
    /\ holder[WorkspaceOf[m]] = None
    /\ holder' = [holder EXCEPT ![WorkspaceOf[m]] = m]
    /\ UNCHANGED <<begun, term, written>>

Begin(m) ==
    /\ Holds(m)
    /\ ~begun[m]
    /\ begun' = [begun EXCEPT ![m] = TRUE]
    /\ term' = [term EXCEPT ![m] = @ + 1]
    /\ UNCHANGED <<holder, written>>

Leave(m) ==
    /\ Holds(m)
    /\ holder' = [holder EXCEPT ![WorkspaceOf[m]] = None]
    /\ begun' = [begun EXCEPT ![m] = FALSE]
    /\ UNCHANGED <<term, written>>

\* A write keeps the slot, or is the last of its term.
Write(m) ==
    /\ Holds(m)
    /\ begun[m]
    /\ written' = [written EXCEPT ![m] = term[m]]
    /\ UNCHANGED term
    /\ \/ UNCHANGED <<holder, begun>>
       \/ /\ holder' = [holder EXCEPT ![WorkspaceOf[m]] = None]
          /\ begun' = [begun EXCEPT ![m] = FALSE]

Next == \E m \in Mission : Take(m) \/ Begin(m) \/ Leave(m) \/ Write(m)

Spec == Init /\ [][Next]_vars

=============================================================================
