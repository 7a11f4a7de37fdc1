---------------------------- MODULE MCWebSession ----------------------------
(***************************************************************************)
(* WebSession with two logins and two requests under way, a transaction of *)
(* one second and tokens of one or two, under every configuration.         *)
(***************************************************************************)
EXTENDS WebSession, TLC

CONSTANTS l1, l2, r1, r2, k1
Begun == {l1, l2}
Slots == {r1, r2}
Kids == {k1}
Symmetry == Permutations(Begun) \cup Permutations(Slots)
=============================================================================
