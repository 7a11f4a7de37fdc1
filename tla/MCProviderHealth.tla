--------------------------- MODULE MCProviderHealth ---------------------------
(***************************************************************************)
(* ProviderHealth with two providers and two goroutines.  Serial gives the *)
(* reports on a provider to one goroutine, Shared to both.                 *)
(***************************************************************************)
EXTENDS ProviderHealth

Serial == [t \in Threads |-> {t}]
Shared == [t \in Threads |-> {1}]
Ranking == [p \in Providers |-> p]
===============================================================================
