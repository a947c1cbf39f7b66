--------------------------- MODULE MCAcmeAccounts ---------------------------
(***************************************************************************)
(* AcmeAccounts for TLC.  Two requests and two deactivations are the       *)
(* fewest that overlap; a third account lets a request that finds the      *)
(* mapping empty create one beside two others.                             *)
(***************************************************************************)
EXTENDS AcmeAccounts, TLC

Symmetric == Permutations(Accounts) \cup Permutations(Requests) \cup Permutations(Deactivations)
=============================================================================
