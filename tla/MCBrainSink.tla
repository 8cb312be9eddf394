---------------------------- MODULE MCBrainSink ----------------------------
(* Model-checking instance of BrainSink: the readers are interchangeable.    *)
EXTENDS BrainSinkInvariant, TLC

Symmetry == Permutations(Readers)
=============================================================================
