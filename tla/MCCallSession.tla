--------------------------- MODULE MCCallSession ---------------------------
(* Model-checking instance of CallSession.                                   *)
EXTENDS CallSession, TLC

Symmetry == Permutations(Readers)
=============================================================================
