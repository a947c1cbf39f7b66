---------------------------- MODULE MCCrlWorker -----------------------------
(***************************************************************************)
(* CrlWorker for TLC.  With two intermediates one can be refused while the *)
(* other is served; two legible entries, which both of them may hold, let  *)
(* a list grow twice; a third cannot be parsed and is taken for the first. *)
(***************************************************************************)
EXTENDS CrlWorker

SerialsOfEntries == [e \in Entries |-> IF e = "1a:2b" THEN "1a2b" ELSE e]

NumbersOfEntries == [e \in Entries |-> IF e = "1a:2b" THEN "1a" ELSE e]
=============================================================================
