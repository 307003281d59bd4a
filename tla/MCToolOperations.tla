-------------------------- MODULE MCToolOperations --------------------------
\* Two subagents that ask for one figure, a read, and two runs of one script.
EXTENDS ToolOperations, TLC

CONSTANTS r1, r2, d, b1, b2, figure, text, script1, script2, job

MCPlan == <<{r1, r2}, {d}, {b1}, {b2}>>
MCKeyOf == (r1 :> figure) @@ (r2 :> figure) @@ (d :> text)
           @@ (b1 :> script1) @@ (b2 :> script2)
MCSandboxKeyOf == (script1 :> job) @@ (script2 :> job)
=============================================================================
