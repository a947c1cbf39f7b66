---------------------------- MODULE MCAcmeOrder -----------------------------
(***************************************************************************)
(* AcmeOrder for TLC.  Two identifiers let one goroutine scan while the    *)
(* other still writes; two validations are the fewest that overlap on one  *)
(* file; one certificate for each finalize lets a retry issue a second.    *)
(***************************************************************************)
EXTENDS AcmeOrder, TLC

Symmetric == Permutations(Validations) \cup Permutations(Finalizes) \cup Permutations(Certs)
=============================================================================
