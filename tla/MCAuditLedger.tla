--------------------------- MODULE MCAuditLedger ---------------------------
(* Instances of AuditLedger for TLC. *)
EXTENDS AuditLedger, TLC

Symmetry == Permutations(Thread)
=============================================================================
