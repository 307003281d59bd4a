-------------------------- MODULE MCWorkspaceTurns ---------------------------
(* Small instances of WorkspaceTurns.                                      *)
EXTENDS WorkspaceTurns, TLC
=============================================================================
