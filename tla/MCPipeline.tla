----------------------------- MODULE MCPipeline -----------------------------
(* Pipeline as it is: it has no constants and finitely many states.        *)
EXTENDS Pipeline

=============================================================================
