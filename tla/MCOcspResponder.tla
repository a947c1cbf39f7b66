-------------------------- MODULE MCOcspResponder ---------------------------
(***************************************************************************)
(* OcspResponder for TLC.  Two requests are the fewest that overlap on the *)
(* map; two intermediates with the same serial number tell the cache's     *)
(* keys apart; one of the two entries cannot be parsed and is taken for    *)
(* the other; with a lifetime of two, responses differ in age.             *)
(***************************************************************************)
EXTENDS OcspResponder

SerialsOfEntries == [e \in Entries |-> IF e = "1a:2b" THEN "1a2b" ELSE e]

NumbersOfEntries == [e \in Entries |-> IF e = "1a:2b" THEN "1a" ELSE e]

AskedFor == Intermediates \X {"1a"}
=============================================================================
