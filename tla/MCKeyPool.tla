----------------------------- MODULE MCKeyPool ------------------------------
(* KeyPool on small instances.  Goroutines that serve /ask could be        *)
(* exchanged for each other, but EndsOrHangs is about each of them.        *)
EXTENDS KeyPool

=============================================================================
