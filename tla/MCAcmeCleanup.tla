--------------------------- MODULE MCAcmeCleanup ----------------------------
(***************************************************************************)
(* AcmeCleanup for TLC.  One identifier with one challenge has a file in   *)
(* every directory; with a limit of one night there are files too young,   *)
(* just young enough, and due, and an order can be written a night after   *)
(* its parts and outlive them.                                             *)
(***************************************************************************)
EXTENDS AcmeCleanup
=============================================================================
