-------------------------- MODULE MCLiveKitClient --------------------------
(* Model-checking instance of LiveKitClient.                                 *)
EXTENDS LiveKitClient
=============================================================================
