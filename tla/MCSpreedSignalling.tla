------------------------- MODULE MCSpreedSignalling -------------------------
(* Model-checking instance of SpreedSignalling: one user's two sessions.     *)
EXTENDS SpreedSignalling
CONSTANTS s1, s2
User == [s \in {s1, s2} |-> "u"]
=============================================================================
