------------------------- MODULE MCExecutionClaims -------------------------
(* Model values for checking ExecutionClaims: two BUYs and a SELL competing *)
(* for one campaign version.                                                *)
EXTENDS ExecutionClaims
=============================================================================
