--------------------------- MODULE MCCaptureRuntime ---------------------------
(***************************************************************************)
(* CaptureRuntime with two endpoints, a notification channel of two, and a *)
(* policy that gives up after two failed opens.                            *)
(***************************************************************************)
EXTENDS CaptureRuntime

CONSTANTS internal, headset
Machine == {internal, headset}
===============================================================================
