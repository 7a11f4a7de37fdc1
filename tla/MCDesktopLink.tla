---------------------------- MODULE MCDesktopLink ----------------------------
(***************************************************************************)
(* DesktopLink with two users of an organization, one device and two       *)
(* requests at a time, on clocks that differ.                              *)
(***************************************************************************)
EXTENDS DesktopLink, TLC

CONSTANTS alice, bob, acme, laptop, r1, c1, c2
Users == {alice, bob}
Tenants == {acme}
Machines == {laptop}
Ids == {r1}
Slots == {c1, c2}
SlotSymmetry == Permutations(Slots)
==============================================================================
