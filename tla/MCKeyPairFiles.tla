--------------------------- MODULE MCKeyPairFiles ---------------------------
(***************************************************************************)
(* KeyPairFiles for TLC.  Two handlers are the fewest that overlap; with   *)
(* three versions a time-stamping key can be new although certificate and  *)
(* key in the store differ.  One root has signed them all, another one has *)
(* not.                                                                    *)
(***************************************************************************)
EXTENDS KeyPairFiles, TLC

CONSTANT
    Own             \* the root that has signed the intermediates

IssuedByOwn == [v \in Versions |-> Own]

Symmetry == Permutations(Handlers) \cup Permutations(Versions)
=============================================================================
