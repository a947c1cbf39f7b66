---------------------------- MODULE OrderPromise ----------------------------
(***************************************************************************)
(* What the CA promises about one order, whatever files and handlers it    *)
(* needs for that: identifiers pass once and for all; the order may be     *)
(* unreadable at any time, and says "ready" or names a certificate only    *)
(* with reason; each certificate is signed once, is kept before it is      *)
(* named, and is reported to the backend once or is known to be lost to    *)
(* it.  That certificates wait for "ready" is not promised.                *)
(***************************************************************************)
CONSTANTS
    Identifier,   \* the identifiers of the order
    Cert,         \* the certificates that may be signed for it
    NoCert,       \* an order without a certificate
    Hidden        \* an order that cannot be read

VARIABLES
    proved,       \* the identifiers that have passed a validation
    order,        \* what a client reads
    stage,        \* how far each certificate has come
    report        \* and what becomes of its report

promised == << proved, order, stage, report >>

Init ==
    /\ proved = {}
    /\ order = Hidden
    /\ stage = [c \in Cert |-> "none"]
    /\ report = [c \in Cert |-> "none"]

Kept == {c \in Cert : stage[c] \in {"kept", "named"}}

Sound(doc) ==
    /\ doc.status = "ready" => proved = Identifier
    /\ doc.status = "valid" => doc.cert # NoCert
    /\ doc.cert = NoCert \/ doc.cert \in Kept

Present == order' = Hidden \/ Sound(order')

Pass(i) ==
    /\ proved' = proved \cup {i}
    /\ UNCHANGED << order, stage, report >>

Show ==
    /\ Present
    /\ UNCHANGED << proved, stage, report >>

(* Signed once, and from then on owed to the backend or lost to it.        *)
Sign(c) ==
    /\ stage[c] = "none" /\ report[c] = "none"
    /\ stage' = [stage EXCEPT ![c] = "signed"]
    /\ report' \in {[report EXCEPT ![c] = r] : r \in {"owed", "lost"}}
    /\ UNCHANGED << proved, order >>

Keep(c) ==
    /\ stage[c] = "signed"
    /\ stage' = [stage EXCEPT ![c] = "kept"]
    /\ UNCHANGED << proved, order, report >>

(* The client is told of the certificate, and the order may tell so, too.  *)
Name(c) ==
    /\ c \in Kept
    /\ stage' = [stage EXCEPT ![c] = "named"]
    /\ order' = order \/ Present
    /\ UNCHANGED << proved, report >>

Report(c) ==
    /\ report[c] = "owed"
    /\ report' = [report EXCEPT ![c] = "told"]
    /\ UNCHANGED << proved, order, stage >>

Lose(C) ==
    /\ \A c \in C : report[c] = "owed"
    /\ report' = [c \in Cert |-> IF c \in C THEN "lost" ELSE report[c]]
    /\ UNCHANGED << proved, order, stage >>

Next ==
    \/ \E i \in Identifier : Pass(i)
    \/ Show
    \/ \E c \in Cert : Sign(c) \/ Keep(c) \/ Name(c) \/ Report(c)
    \/ \E C \in SUBSET Cert : Lose(C)

Spec == Init /\ [][Next]_promised
=============================================================================
