------------------------------- MODULE Workspaces -------------------------------
(***************************************************************************)
(* What the API of the workspaces and the page over it have in common.     *)
(***************************************************************************)
CONSTANTS
  Organizations,
  None           \* no organization, no row, no value

\* "None" stands for the absence of an organization, not for one.
ASSUME OrganizationsAssumption == None \notin Organizations
================================================================================
