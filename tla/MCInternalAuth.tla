--------------------------- MODULE MCInternalAuth ---------------------------
(***************************************************************************)
(* InternalAuth for TLC: calls, tokens and workers are interchangeable.    *)
(***************************************************************************)
EXTENDS InternalAuth, TLC

Symmetry == Permutations(Call) \cup Permutations(Token) \cup Permutations(Worker)
=============================================================================
