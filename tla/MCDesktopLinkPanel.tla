-------------------------- MODULE MCDesktopLinkPanel --------------------------
(***************************************************************************)
(* DesktopLinkPanel with one device, two records and two calls under way:  *)
(* a record can be issued while the calls for the one before are not over. *)
(***************************************************************************)
EXTENDS DesktopLinkPanel
===============================================================================
