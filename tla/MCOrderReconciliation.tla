----------------------- MODULE MCOrderReconciliation -----------------------
(* Model-checking instances of OrderReconciliation. *)
EXTENDS OrderReconciliation

=============================================================================
