---------------------------- MODULE MCChatTurns ----------------------------
(* ChatTurns for TLC: the calls share a request or a thread.                *)
EXTENDS ChatTurns, TLC

MCInit == Init /\ \A c, d \in Call : request[c] = request[d] \/ thread[c] = thread[d]
MCSpec == MCInit /\ [][Next]_vars

Symmetry == Permutations(Call) \cup Permutations(Worker)
            \cup Permutations(Request) \cup Permutations(Thread)
=============================================================================
