---------------------------- MODULE MCWorkspaceApi ----------------------------
(***************************************************************************)
(* WorkspaceApi with two subjects of an organization and two requests at a *)
(* time: managers, ordinary members, and members with a permission of a    *)
(* manager, active or suspended.                                           *)
(***************************************************************************)
EXTENDS WorkspaceApi, TLC

CONSTANTS alice, bob, acme, r1, r2, v1
Users == {alice, bob}
Tenants == {acme}
Slots == {r1, r2}
Texts == {v1}
Ordinary == {"conversation.read", "team.read", "device.link"}
Kept == {[status |-> "active", roles |-> {"manager"}, permissions |-> Ordinary \cup {"team.manage"}],
         [status |-> "active", roles |-> {"member"}, permissions |-> Ordinary],
         [status |-> "active", roles |-> {"member"}, permissions |-> {"team.manage"}]}
Symmetry == Permutations(Users) \cup Permutations(Slots)
===============================================================================
