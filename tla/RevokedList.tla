---------------------------- MODULE RevokedList -----------------------------
(***************************************************************************)
(* The backend's list of revoked certificates as FetchRevokedCertificates  *)
(* reads it (ca/crl.go), for the OCSP responder and for the CRL worker.    *)
(* An entry says in a text which certificate it means.  The text is parsed *)
(* as a hexadecimal number and the entry kept whether or not it is one:    *)
(* of "1a:2b" the prefix 1a is left, of what begins with no digit 0.       *)
(***************************************************************************)

CONSTANTS
    Intermediates,  \* the issuers; the backend keeps a list for each
    Serials,        \* serial numbers, of which two issuers may use the same
    Entries,        \* the texts that stand on the lists
    Meant,          \* the serial number of the certificate an entry is about
    Value           \* the number the parser leaves

ASSUME ListAssumption ==
    /\ Meant \in [Entries -> Serials]
    /\ Value \in [Entries -> Serials]

(* The entries that are parsed as what they mean.                          *)
Legible == {e \in Entries : Value[e] = Meant[e]}

(* What FetchRevokedCertificates makes of a list.                          *)
Numbers(E) == {Value[e] : e \in E}
=============================================================================
