-------------------------- MODULE MCCaptureService --------------------------
(* Model-checking instance of CaptureService.                                *)
EXTENDS CaptureService
=============================================================================
