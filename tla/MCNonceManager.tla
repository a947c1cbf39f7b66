--------------------------- MODULE MCNonceManager ---------------------------
(***************************************************************************)
(* NonceManager for TLC.  Two requests are enough for two consumers of one *)
(* nonce and a cleanup between them; three nonces let a request present    *)
(* one nonce, be answered with a second, while a third ages.  Liveness is  *)
(* checked, so there is no symmetry.                                       *)
(***************************************************************************)
EXTENDS NonceManager
=============================================================================
