----------------------------- MODULE WorkspacePage -----------------------------
(***************************************************************************)
(* What the workspace page promises, over the part of its state that a     *)
(* promise speaks of.  WorkspacePanels is the page that keeps it.          *)
(***************************************************************************)
EXTENDS Workspaces

VARIABLES
  directory,   \* the directory panel, and its call
  selected,    \* organizationId of the workspace
  panel,
  stored       \* per organization, what the API holds of the panel's data

\* A refresh hides the selection until it is confirmed.
AuthorizedOrganizationId(view, organization) == IF view = "ready" THEN organization ELSE None

\* What a panel shows, and what it lets the user do, is of the organization
\* that is selected and that the directory confirmed: a save that is answered
\* after another organization was selected, or while the directory is asked
\* again, changes nothing.
ShownIsSelected ==
  /\ panel.from \subseteq {AuthorizedOrganizationId(directory.view, selected)}
  /\ panel.org = AuthorizedOrganizationId(directory.view, selected)

\* A panel that says its form was saved shows what the API holds, unless someone
\* else wrote since, or a save that the page had given up arrived after it:
\* saves that a panel waits for cannot overtake each other.
SavedIsStored ==
  panel.save = "saved" => panel.value = stored[panel.org].value \/ ~stored[panel.org].awaited
================================================================================
