-------------------------- MODULE MCWorkspacePanels --------------------------
(***************************************************************************)
(* WorkspacePanels with two organizations, each panel in turn, and as many *)
(* calls under way as let a save be overtaken by the next visit.           *)
(***************************************************************************)
EXTENDS WorkspacePanels, TLC

CONSTANTS acme, beta, s1, s2, s3
Tenants == {acme, beta}
Two == {s1, s2}
Three == {s1, s2, s3}
Symmetry == Permutations(Tenants) \cup Permutations(Three)
==============================================================================
