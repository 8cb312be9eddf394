--------------------------- MODULE MCCallDrivers ---------------------------
(* Model-checking instance of CallDrivers: on Talk one user's two sessions.  *)
EXTENDS CallDrivers
CONSTANTS s1, s2
User == [s \in {s1, s2} |-> "u"]
=============================================================================
