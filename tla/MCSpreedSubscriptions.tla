----------------------- MODULE MCSpreedSubscriptions -----------------------
(* Model-checking instance of SpreedSubscriptions.                           *)
EXTENDS SpreedSubscriptions
=============================================================================
