---------------------------- MODULE MCLifecycle -----------------------------
(* Lifecycle with two calls.                                               *)
EXTENDS Lifecycle

=============================================================================
