------------------------- MODULE MCVirtualMicControl -------------------------
(***************************************************************************)
(* VirtualMicControl with two requests at a time, on two file objects,     *)
(* from two processes (one may use the other's file object) and with two   *)
(* generations (one may be stale).  One section is enough: a section is    *)
(* created only while there is no connection.                              *)
(***************************************************************************)
EXTENDS VirtualMicControl
=============================================================================
