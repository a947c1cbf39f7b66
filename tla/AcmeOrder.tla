----------------------------- MODULE AcmeOrder ------------------------------
(***************************************************************************)
(* The life of one ACME order: its JSON file, the files of its             *)
(* authorizations, the handlers and validation goroutines that read and    *)
(* rewrite them without any lock (acme_handler.go, order.go, challenge.go, *)
(* storage.go), and the certificates a finalize leaves behind (sign.go).   *)
(* No code path touches the files of two orders, so one order is the whole *)
(* story.                                                                  *)
(*                                                                         *)
(* A file is rewritten by os.WriteFile: truncate, then write.  A reader in *)
(* between finds no document; a crash in between leaves none; two writers  *)
(* that overlap may leave a mixture no reader can parse.                   *)
(***************************************************************************)
EXTENDS Integers, FiniteSets

CONSTANTS
    N,            \* number of identifiers, hence of authorizations
    Wildcard,     \* the identifiers that are wildcards
    Validations,  \* validation goroutines that can run at the same time
    Finalizes,    \* finalize requests handled at the same time
    Certs,        \* bound: the certificates that can be issued for the order
    NoCert,       \* an empty CertificateURL
    Absent,       \* a file that does not exist
    Empty,        \* a file truncated and not written
    Garbled,      \* a file two overlapping writers left unparsable
    MaxFaults     \* bound: storage errors, lost notices and crashes

ASSUME OrderAssumption ==
    /\ N \in Nat \ {0}
    /\ Wildcard \subseteq 1..N
    /\ NoCert \notin Certs
    /\ MaxFaults \in Nat

Identifiers == 1..N

(* dns-01 is always offered, http-01 unless the identifier is a wildcard.  *)
Offered(i) == IF i \in Wildcard THEN {"dns-01"} ELSE {"dns-01", "http-01"}

ChallengeIds == {c \in Identifiers \X {"dns-01", "http-01"} : c[2] \in Offered(c[1])}

OrderDoc == [status : {"pending", "ready", "valid", "invalid"}, cert : Certs \cup {NoCert}]

AuthzDoc(i) ==
    [status    : {"pending", "valid", "invalid"},
     challenge : [Offered(i) -> {"pending", "processing", "valid", "invalid"}]]

NoDoc == {Absent, Empty, Garbled}

ASSUME FileAssumption ==
    /\ Absent # Empty /\ Empty # Garbled /\ Absent # Garbled
    /\ NoDoc \cap OrderDoc = {}
    /\ \A i \in Identifiers : NoDoc \cap AuthzDoc(i) = {}

VARIABLES
    orderFile,    \* orders/{id}.json: a document or one of NoDoc
    authzFile,    \* authz/{id}.json of each identifier
    challengeMap, \* challenges/{id}: the challenges that can be found
    certFiles,    \* certs/{id}.pem
    issued,       \* certificates signed and stored under issued/
    notices,      \* notifyLaravel goroutines on their way
    backend,      \* certificates the backend has been told of
    create,       \* the new-order handler
    validation,   \* the validation goroutines
    finalize,     \* the finalize handlers
    delivered,    \* history: certificates named in a finalize response
    proved,       \* history: challenges whose validation succeeded
    unreported,   \* history: certificates whose notice was lost or never sent
    faults        \* faults so far

files == << orderFile, authzFile, challengeMap >>
pki == << certFiles, issued, notices, backend, unreported >>
vars == << files, pki, create, validation, finalize, delivered, proved, faults >>

IdleJob == [pc |-> "idle", ix |-> 1, type |-> "dns-01", authz |-> Absent,
            order |-> Absent, next |-> 1, allValid |-> TRUE, anyInvalid |-> FALSE]

Job(i) == [pc : {"idle", "validate", "saveAuthz", "writeAuthz", "loadOrder",
                 "scan", "saveOrder", "writeOrder"},
           ix : {i},
           type : {"dns-01", "http-01"},
           authz : AuthzDoc(i) \cup {Absent},
           order : OrderDoc \cup {Absent},
           next : 1..(N + 1),
           allValid : BOOLEAN,
           anyInvalid : BOOLEAN]

IdleFinalize == [pc |-> "idle", cert |-> NoCert]

Readable(file) == file \notin NoDoc

TypeOK ==
    /\ orderFile \in OrderDoc \cup NoDoc
    /\ DOMAIN authzFile = Identifiers
    /\ \A i \in Identifiers : authzFile[i] \in AuthzDoc(i) \cup NoDoc
    /\ challengeMap \subseteq ChallengeIds
    /\ \A C \in {certFiles, issued, notices, backend, delivered, unreported} :
          C \subseteq Certs
    /\ create \in [pc : {"authz", "order", "done", "failed"}, next : 1..(N + 1)]
    /\ DOMAIN validation = Validations
    /\ \A v \in Validations :
          validation[v] \in UNION {Job(i) : i \in Identifiers}
    /\ finalize \in [Finalizes -> [pc : {"idle", "sign", "chain", "saveOrder", "writeOrder"},
                                   cert : Certs \cup {NoCert}]]
    /\ proved \subseteq ChallengeIds
    /\ faults \in 0..MaxFaults

Init ==
    /\ orderFile = Absent
    /\ authzFile = [i \in Identifiers |-> Absent]
    /\ challengeMap = {}
    /\ certFiles = {} /\ issued = {} /\ notices = {} /\ backend = {} /\ unreported = {}
    /\ create = [pc |-> "authz", next |-> 1]
    /\ validation = [v \in Validations |-> IdleJob]
    /\ finalize = [f \in Finalizes |-> IdleFinalize]
    /\ delivered = {}
    /\ proved = {}
    /\ faults = 0

Fault == faults < MaxFaults /\ faults' = faults + 1
-----------------------------------------------------------------------------
(* Files.                                                                  *)

(* What can be in the file once a truncating writer has written new over   *)
(* whatever others wrote since its truncation: new, or, where a longer     *)
(* document sticks out behind it, nothing that can be parsed.  Which of    *)
(* two is the longer one is left open.  Order documents that are equal     *)
(* here are equal byte for byte ...                                        *)
LandingOrder(file, new) == IF file \in {Empty, new} THEN {new} ELSE {new, Garbled}

(* ... but authorizations are not: each goroutine stamps the challenge     *)
(* with a time of its own, and times differ in length.                     *)
LandingAuthz(file, new) == IF file = Empty THEN {new} ELSE {new, Garbled}
-----------------------------------------------------------------------------
(* new-order: authorizations one by one, each followed by its challenge    *)
(* mappings, the order last.                                               *)

NewAuthz(i) == [status |-> "pending", challenge |-> [t \in Offered(i) |-> "pending"]]

NewOrder == [status |-> "pending", cert |-> NoCert]

MappingsOf(i) == {i} \X Offered(i)

SaveNewAuthz ==
    /\ create.pc = "authz"
    /\ authzFile' = [authzFile EXCEPT ![create.next] = NewAuthz(create.next)]
    /\ challengeMap' = challengeMap \cup MappingsOf(create.next)
    /\ create' = [pc |-> IF create.next = N THEN "order" ELSE "authz",
                  next |-> create.next + 1]
    /\ UNCHANGED << orderFile, pki, validation, finalize, delivered, proved, faults >>

(* Mutant of SaveNewOrder: the order goes first.                           *)
SaveNewOrderEarly ==
    /\ create.pc # "done"
    /\ orderFile' = NewOrder
    /\ create' = [create EXCEPT !.pc = "done"]
    /\ UNCHANGED << authzFile, challengeMap, pki, validation, finalize, delivered, proved,
                    faults >>

SaveNewOrder ==
    /\ create.pc = "order"
    /\ orderFile' = NewOrder
    /\ create' = [create EXCEPT !.pc = "done"]
    /\ UNCHANGED << authzFile, challengeMap, pki, validation, finalize, delivered, proved,
                    faults >>

(* A storage error, or the process dies: the rest is never written.  The   *)
(* file being written may stay behind empty, with some of its mappings.    *)
NewOrderFails ==
    /\ Fault
    /\ \/ /\ create.pc = "authz"
          /\ \E file \in {Absent, Empty, NewAuthz(create.next)} :
                authzFile' = [authzFile EXCEPT ![create.next] = file]
          /\ \E M \in SUBSET MappingsOf(create.next) :
                /\ M # {} => Readable(authzFile'[create.next])
                /\ challengeMap' = challengeMap \cup M
          /\ UNCHANGED orderFile
       \/ /\ create.pc = "order"
          /\ orderFile' \in {Absent, Empty}
          /\ UNCHANGED << authzFile, challengeMap >>
    /\ create' = [create EXCEPT !.pc = "failed"]
    /\ UNCHANGED << pki, validation, finalize, delivered, proved >>
-----------------------------------------------------------------------------
(* challenge: the handler finds the challenge and keeps the document it    *)
(* read; it marks the challenge processing in memory only and starts the   *)
(* goroutine.  A request refused after the lookup (bad nonce, malformed    *)
(* JWS) has no effect.                                                     *)

Marked(doc, t) == [doc EXCEPT !.status = "pending", !.challenge[t] = "processing"]

PostChallenge(v, i, t) ==
    /\ create.pc = "done"                    \* no id is known to anyone before
    /\ validation[v].pc = "idle"
    /\ << i, t >> \in challengeMap
    /\ Readable(authzFile[i])
    /\ validation' = [validation EXCEPT ![v] =
                        [IdleJob EXCEPT !.pc = "validate", !.ix = i, !.type = t,
                                        !.authz = Marked(authzFile[i], t)]]
    /\ UNCHANGED << files, pki, create, finalize, delivered, proved, faults >>

(* Mutants of Judged: one of the two statuses is forgotten.                *)
JudgedAuthzOnly(doc, t, ok) == [doc EXCEPT !.status = IF ok THEN "valid" ELSE "invalid"]
JudgedChallengeOnly(doc, t, ok) ==
    [doc EXCEPT !.challenge[t] = IF ok THEN "valid" ELSE "invalid"]

Judged(doc, t, ok) ==
    LET s == IF ok THEN "valid" ELSE "invalid"
    IN  [doc EXCEPT !.status = s, !.challenge[t] = s]

(* Mutant of Validate: the goroutine returns on an error.                  *)
ValidateOrQuit(v, ok) ==
    /\ validation[v].pc = "validate"
    /\ validation' = [validation EXCEPT ![v] =
                        IF ok THEN [@ EXCEPT !.pc = "saveAuthz",
                                             !.authz = Judged(@, validation[v].type, ok)]
                              ELSE IdleJob]
    /\ proved' = IF ok THEN proved \cup {<< validation[v].ix, validation[v].type >>} ELSE proved
    /\ UNCHANGED << files, pki, create, finalize, delivered, faults >>

(* ValidateHTTP01 or ValidateDNS01 returns.                                *)
Validate(v, ok) ==
    LET job == validation[v]
    IN  /\ job.pc = "validate"
        /\ validation' = [validation EXCEPT ![v] =
                            [job EXCEPT !.pc = "saveAuthz",
                                        !.authz = Judged(job.authz, job.type, ok)]]
        /\ proved' = IF ok THEN proved \cup {<< job.ix, job.type >>} ELSE proved
        /\ UNCHANGED << files, pki, create, finalize, delivered, faults >>

TruncateAuthz(v) ==
    /\ validation[v].pc = "saveAuthz"
    /\ authzFile' = [authzFile EXCEPT ![validation[v].ix] = Empty]
    /\ validation' = [validation EXCEPT ![v].pc = "writeAuthz"]
    /\ UNCHANGED << orderFile, challengeMap, pki, create, finalize, delivered,
                    proved, faults >>

WriteAuthz(v) ==
    LET job == validation[v]
    IN  /\ job.pc = "writeAuthz"
        /\ \E file \in LandingAuthz(authzFile[job.ix], job.authz) :
              authzFile' = [authzFile EXCEPT ![job.ix] = file]
        /\ validation' = [validation EXCEPT ![v] = [IdleJob EXCEPT !.pc = "loadOrder"]]
        /\ UNCHANGED << orderFile, challengeMap, pki, create, finalize, delivered,
                        proved, faults >>

(* SaveAuthz fails before or after the truncation; nobody looks at the     *)
(* error.                                                                  *)
SaveAuthzFails(v) ==
    /\ Fault
    /\ validation[v].pc \in {"saveAuthz", "writeAuthz"}
    /\ validation' = [validation EXCEPT ![v] = [IdleJob EXCEPT !.pc = "loadOrder"]]
    /\ UNCHANGED << files, pki, create, finalize, delivered, proved >>
-----------------------------------------------------------------------------
(* UpdateOrderStatus, at the end of the goroutine: load the order, scan    *)
(* the authorizations one file after the other, save the order.            *)

(* Mutant of LoadOrder: only the status is taken over.                     *)
LoadStatusOnly(v) ==
    /\ validation[v].pc = "loadOrder"
    /\ validation' = [validation EXCEPT ![v] =
                        IF Readable(orderFile)
                        THEN [IdleJob EXCEPT !.pc = "scan",
                                             !.order = [status |-> orderFile.status,
                                                        cert |-> NoCert]]
                        ELSE IdleJob]
    /\ UNCHANGED << files, pki, create, finalize, delivered, proved, faults >>

LoadOrder(v) ==
    /\ validation[v].pc = "loadOrder"
    /\ validation' = [validation EXCEPT ![v] =
                        IF Readable(orderFile)
                        THEN [IdleJob EXCEPT !.pc = "scan", !.order = orderFile]
                        ELSE IdleJob]
    /\ UNCHANGED << files, pki, create, finalize, delivered, proved, faults >>

(* Mutant of CountsAsValid: whatever has not failed will do.               *)
CountsUnlessInvalid(file) == Readable(file) /\ file.status # "invalid"

(* Mutant of CountsAsValid: an authorization that is not there is skipped.  *)
CountsIfThere(file) == Readable(file) => file.status = "valid"

CountsAsValid(file) == Readable(file) /\ file.status = "valid"

(* Mutant of CountsAsInvalid: not valid is taken for invalid.              *)
CountsUnlessValid(file) == Readable(file) /\ file.status # "valid"

CountsAsInvalid(file) == Readable(file) /\ file.status = "invalid"

ScanAuthz(v) ==
    LET job  == validation[v]
        file == authzFile[job.next]
    IN  /\ job.pc = "scan"
        /\ validation' = [validation EXCEPT ![v] =
              [job EXCEPT !.pc = IF job.next = N THEN "saveOrder" ELSE "scan",
                          !.next = job.next + 1,
                          !.allValid = job.allValid /\ CountsAsValid(file),
                          !.anyInvalid = job.anyInvalid \/ CountsAsInvalid(file)]]
        /\ UNCHANGED << files, pki, create, finalize, delivered, proved, faults >>

(* Mutant of Verdict: ready as soon as nothing is invalid.                 *)
VerdictWithoutAll(status, allValid, anyInvalid) ==
    IF anyInvalid THEN "invalid" ELSE "ready"

(* The status the scan leads to: neither all valid nor any invalid leaves  *)
(* it as it was loaded.                                                    *)
Verdict(status, allValid, anyInvalid) ==
    IF anyInvalid THEN "invalid" ELSE IF allValid THEN "ready" ELSE status

TruncateOrder(v) ==
    LET job == validation[v]
    IN  /\ job.pc = "saveOrder"
        /\ orderFile' = Empty
        /\ validation' = [validation EXCEPT ![v] =
              [IdleJob EXCEPT
                 !.pc = "writeOrder",
                 !.order = [job.order EXCEPT
                              !.status = Verdict(@, job.allValid, job.anyInvalid)]]]
        /\ UNCHANGED << authzFile, challengeMap, pki, create, finalize, delivered,
                        proved, faults >>

(* Mutant of WriteOrder: a write that never happens.                       *)
WriteOrderNever(v) ==
    /\ validation[v].pc = "writeOrder"
    /\ validation' = [validation EXCEPT ![v] = IdleJob]
    /\ UNCHANGED << files, pki, create, finalize, delivered, proved, faults >>

WriteOrder(v) ==
    /\ validation[v].pc = "writeOrder"
    /\ orderFile' \in LandingOrder(orderFile, validation[v].order)
    /\ validation' = [validation EXCEPT ![v] = IdleJob]
    /\ UNCHANGED << authzFile, challengeMap, pki, create, finalize, delivered,
                    proved, faults >>

SaveOrderFails(v) ==
    /\ Fault
    /\ validation[v].pc \in {"saveOrder", "writeOrder"}
    /\ validation' = [validation EXCEPT ![v] = IdleJob]
    /\ UNCHANGED << files, pki, create, finalize, delivered, proved >>
-----------------------------------------------------------------------------
(* finalize: the handler loads the order, does not look at its status, and *)
(* saves it again when it has a certificate.  Of what it loaded only       *)
(* status and certificate ever change, and it overwrites both.             *)

Finalized(c) == [status |-> "valid", cert |-> c]

StartFinalize(f) ==
    /\ create.pc = "done"
    /\ finalize[f].pc = "idle"
    /\ Readable(orderFile)
    /\ finalize' = [finalize EXCEPT ![f].pc = "sign"]
    /\ UNCHANGED << files, pki, create, validation, delivered, proved, faults >>

(* Bad nonce, unknown account, bad signature or CSR, or ca.SignCSR fails.  *)
RejectFinalize(f) ==
    /\ finalize[f].pc = "sign"
    /\ finalize' = [finalize EXCEPT ![f] = IdleFinalize]
    /\ UNCHANGED << files, pki, create, validation, delivered, proved, faults >>

(* ca.SignCSR: a certificate of its own for every finalize, told apart by  *)
(* a random serial number of 62 bits.                                      *)
NewSerial(c) == c \notin issued

(* Mutant of Sign: the notice is left for the end of a finalize.           *)
SignQuietly(f, c) ==
    /\ finalize[f].pc = "sign"
    /\ NewSerial(c)
    /\ issued' = issued \cup {c}
    /\ finalize' = [finalize EXCEPT ![f].pc = "chain", ![f].cert = c]
    /\ UNCHANGED << files, certFiles, notices, backend, unreported, create, validation,
                    delivered, proved, faults >>

(* acme.SignCSR up to the notice: signed, stored under issued/, and the    *)
(* notice to the backend on its way before the chain is built.             *)
Sign(f, c) ==
    /\ finalize[f].pc = "sign"
    /\ NewSerial(c)
    /\ issued' = issued \cup {c}
    /\ notices' = notices \cup {c}
    /\ finalize' = [finalize EXCEPT ![f].pc = "chain", ![f].cert = c]
    /\ UNCHANGED << files, certFiles, backend, unreported, create, validation, delivered,
                    proved, faults >>

(* StoreCertificate fails after its first file: the certificate is on      *)
(* disk, the client gets a 500 and the backend hears nothing.              *)
StoreFails(f, c) ==
    /\ Fault
    /\ finalize[f].pc = "sign"
    /\ NewSerial(c)
    /\ issued' = issued \cup {c}
    /\ unreported' = unreported \cup {c}
    /\ finalize' = [finalize EXCEPT ![f] = IdleFinalize]
    /\ UNCHANGED << files, certFiles, notices, backend, create, validation, delivered, proved >>

(* BuildChain or SaveCertificate fails: a 500 for an issued certificate.   *)
ChainFails(f) ==
    /\ Fault
    /\ finalize[f].pc = "chain"
    /\ finalize' = [finalize EXCEPT ![f] = IdleFinalize]
    /\ UNCHANGED << files, pki, create, validation, delivered, proved >>

(* Mutant of SaveCert: its error is not looked at.                         *)
SaveCertUnchecked(f) ==
    /\ finalize[f].pc = "chain"
    /\ \E C \in SUBSET {finalize[f].cert} : certFiles' = certFiles \cup C
    /\ finalize' = [finalize EXCEPT ![f].pc = "saveOrder"]
    /\ UNCHANGED << files, issued, notices, backend, unreported, create, validation,
                    delivered, proved, faults >>

(* BuildChain and SaveCertificate.                                         *)
SaveCert(f) ==
    /\ finalize[f].pc = "chain"
    /\ certFiles' = certFiles \cup {finalize[f].cert}
    /\ finalize' = [finalize EXCEPT ![f].pc = "saveOrder"]
    /\ UNCHANGED << files, issued, notices, backend, unreported, create, validation,
                    delivered, proved, faults >>

TruncateFinalized(f) ==
    /\ finalize[f].pc = "saveOrder"
    /\ orderFile' = Empty
    /\ finalize' = [finalize EXCEPT ![f].pc = "writeOrder"]
    /\ UNCHANGED << authzFile, challengeMap, pki, create, validation, delivered,
                    proved, faults >>

(* The response names the certificate, whether or not SaveOrder succeeded. *)
Respond(f) ==
    /\ delivered' = delivered \cup {finalize[f].cert}
    /\ finalize' = [finalize EXCEPT ![f] = IdleFinalize]

WriteFinalized(f) ==
    /\ finalize[f].pc = "writeOrder"
    /\ orderFile' \in LandingOrder(orderFile, Finalized(finalize[f].cert))
    /\ Respond(f)
    /\ UNCHANGED << authzFile, challengeMap, pki, create, validation, proved, faults >>

SaveFinalizedFails(f) ==
    /\ Fault
    /\ finalize[f].pc \in {"saveOrder", "writeOrder"}
    /\ Respond(f)
    /\ UNCHANGED << files, pki, create, validation, proved >>

(* notifyLaravel: one POST, no retry.                                      *)
Notified(c) ==
    /\ c \in notices
    /\ notices' = notices \ {c}
    /\ backend' = backend \cup {c}
    /\ UNCHANGED << files, certFiles, issued, unreported, create, validation, finalize,
                    delivered, proved, faults >>

NotifyLost(c) ==
    /\ Fault
    /\ c \in notices
    /\ notices' = notices \ {c}
    /\ unreported' = unreported \cup {c}
    /\ UNCHANGED << files, certFiles, issued, backend, create, validation, finalize,
                    delivered, proved >>
-----------------------------------------------------------------------------
(* The process dies and starts again: nothing resumes what was running.    *)
Crash ==
    /\ Fault
    /\ create.pc = "done"
    /\ validation' = [v \in Validations |-> IdleJob]
    /\ finalize' = [f \in Finalizes |-> IdleFinalize]
    /\ notices' = {}
    /\ unreported' = unreported \cup notices
    /\ UNCHANGED << files, certFiles, issued, backend, create, delivered, proved >>

Next ==
    \/ SaveNewAuthz \/ SaveNewOrder \/ NewOrderFails
    \/ \E v \in Validations :
          \/ \E c \in ChallengeIds : PostChallenge(v, c[1], c[2])
          \/ \E ok \in BOOLEAN : Validate(v, ok)
          \/ TruncateAuthz(v) \/ WriteAuthz(v) \/ SaveAuthzFails(v)
          \/ LoadOrder(v) \/ ScanAuthz(v)
          \/ TruncateOrder(v) \/ WriteOrder(v) \/ SaveOrderFails(v)
    \/ \E f \in Finalizes :
          \/ StartFinalize(f) \/ RejectFinalize(f)
          \/ \E c \in Certs : Sign(f, c) \/ StoreFails(f, c)
          \/ ChainFails(f) \/ SaveCert(f)
          \/ TruncateFinalized(f) \/ WriteFinalized(f) \/ SaveFinalizedFails(f)
    \/ \E c \in Certs : Notified(c) \/ NotifyLost(c)
    \/ Crash

Spec == Init /\ [][Next]_vars

(* A goroutine or handler that only computes and writes files runs on, and *)
(* an http-01 validation ends: its client has a timeout of ten seconds.    *)
(* Nothing is assumed of what waits for the backend without a timeout:     *)
(* dns-01 (it asks for the resolvers first), signing, the notice.          *)
Proceeds(v) ==
    \/ validation[v].type = "http-01" /\ \E ok \in BOOLEAN : Validate(v, ok)
    \/ TruncateAuthz(v) \/ WriteAuthz(v)
    \/ LoadOrder(v) \/ ScanAuthz(v) \/ TruncateOrder(v) \/ WriteOrder(v)

Completes(f) == SaveCert(f) \/ TruncateFinalized(f) \/ WriteFinalized(f)

FairSpec ==
    /\ Spec
    /\ \A v \in Validations : WF_vars(Proceeds(v))
    /\ \A f \in Finalizes : WF_vars(Completes(f))
-----------------------------------------------------------------------------
(* Properties.                                                             *)

Proved(i) == \E t \in Offered(i) : << i, t >> \in proved

AllProved == \A i \in Identifiers : Proved(i)

(* However the goroutines of the identifiers overlap, and whatever they    *)
(* read half written, an order is only ever ready once every identifier    *)
(* has passed a validation (UpdateOrderStatus, order.go:124-156).          *)
ReadyMeansProved ==
    Readable(orderFile) /\ orderFile.status = "ready" => AllProved

HoldsOlderCopy(job) ==
    job.pc \in {"scan", "saveOrder", "writeOrder"} /\ job.order.cert = NoCert

Settled ==
    /\ create.pc = "done"
    /\ Readable(orderFile) => orderFile.cert # NoCert
    /\ \A v \in Validations : ~ HoldsOlderCopy(validation[v])

(* A finalized order loses its certificate again only to a goroutine that  *)
(* loaded the order before the finalize saved it: once no goroutine holds  *)
(* such a copy, whatever is posted, validated, finalized again, lost or    *)
(* written half, the order names a certificate whenever it can be read     *)
(* (order.go:124-156, acme_handler.go:593, 726-731).                       *)
NamedForGood == [][Settled => Settled']_vars

(* Neither a failing finalize nor a goroutine that writes the order back   *)
(* leaves a certificate URL behind that leads nowhere, in the file or with *)
(* a client; a valid order has one (acme_handler.go:716-731, 593).         *)
CertUrlResolves ==
    /\ Readable(orderFile) => /\ orderFile.cert # NoCert => orderFile.cert \in certFiles
                              /\ orderFile.status = "valid" => orderFile.cert # NoCert
    /\ delivered \subseteq certFiles \cap issued

ValidIsProved(i, doc) ==
    \A t \in Offered(i) : doc.challenge[t] = "valid" => << i, t >> \in proved

Explained(i, doc) ==
    /\ ValidIsProved(i, doc)
    /\ doc.status = "pending" => doc = NewAuthz(i)
    /\ doc.status # "pending" => \E t \in Offered(i) : doc.challenge[t] = doc.status

(* What an authorization says on disk has its reason: a valid challenge    *)
(* has passed, a decided authorization names the challenge that decided    *)
(* it, an undecided one is as new; "processing" stays in memory            *)
(* (acme_handler.go:560-592).                                              *)
AuthzExplained ==
    \A i \in Identifiers : Readable(authzFile[i]) => Explained(i, authzFile[i])

(* The result of a validation is not forgotten: once a challenge has       *)
(* passed and no goroutine has yet to write the authorization, the file    *)
(* is decided, unless a storage error or a crash intervened; a slower      *)
(* goroutine with an older copy may overturn the decision but not undo it  *)
(* (acme_handler.go:518, 576-592).                                         *)
DecisionReachesDisk ==
    \A i \in Identifiers :
        /\ faults = 0
        /\ Proved(i)
        /\ \A v \in Validations : ~ /\ validation[v].pc \in {"saveAuthz", "writeAuthz"}
                                    /\ validation[v].ix = i
        => /\ authzFile[i] # Empty
           /\ Readable(authzFile[i]) => authzFile[i].status # "pending"

(* An order that exists can be completed: wherever new-order stops, the    *)
(* order is not there before all its authorizations and all their          *)
(* challenge mappings are (acme_handler.go:411-430).                       *)
OrderIsComplete ==
    orderFile # Absent =>
        /\ challengeMap = ChallengeIds
        /\ \A i \in Identifiers : authzFile[i] # Absent

(* Every certificate under issued/ becomes known to the backend, which     *)
(* alone can revoke it, unless its notice was lost on the way; that the    *)
(* finalize fails afterwards does not matter (sign.go:54-64).              *)
IssuedIsReported == issued \subseteq notices \cup backend \cup unreported

AtRest ==
    /\ create.pc = "done"
    /\ \A v \in Validations : validation[v].pc = "idle"
    /\ \A f \in Finalizes : finalize[f].pc = "idle"

SomeInvalid == \E i \in Identifiers : CountsAsInvalid(authzFile[i])
AllValid == \A i \in Identifiers : CountsAsValid(authzFile[i])

(* One validation at a time: between them, and until there is a            *)
(* certificate, the order says what its authorizations say                 *)
(* (order.go:124-156).                                                     *)
StatusFollowsAuthz ==
    AtRest /\ faults = 0 /\ issued = {} =>
        /\ SomeInvalid => orderFile.status = "invalid"
        /\ AllValid => orderFile.status = "ready"
        /\ ~ SomeInvalid /\ ~ AllValid => orderFile.status \in {"pending", "invalid"}

(* docs/CA.md:299-301: "`invalid` if any authorization is invalid, `ready` *)
(* if all are valid, otherwise stays `pending`".  The last part, for one   *)
(* validation at a time (order.go:149-153).                                *)
OtherwisePending ==
    AtRest /\ ~ SomeInvalid /\ ~ AllValid => orderFile.status = "pending"

(* The middle part, for the validations of two identifiers at a time, when *)
(* all goroutines are done and every file is readable (order.go:125-155).  *)
ReadyIfAllValid ==
    AtRest /\ Readable(orderFile) /\ AllValid => orderFile.status = "ready"

(* The client polls the authorization: an http-01 validation that has been *)
(* started shows there in the end, unless two writers garbled the file or  *)
(* a fault took the result away (acme_handler.go:565-592).                 *)
PostedIsDecided ==
    \A v \in Validations, i \in Identifiers :
        (/\ validation[v].pc = "validate"
         /\ validation[v].ix = i
         /\ validation[v].type = "http-01")
        ~> \/ authzFile[i] = Garbled
           \/ faults > 0
           \/ Readable(authzFile[i]) /\ authzFile[i].status # "pending"

(* Without faults a reader that finds a file truncated need only try       *)
(* again (storage.go:88-94).                                               *)
TruncatedIsRewritten ==
    /\ orderFile = Empty ~> orderFile # Empty \/ faults > 0
    /\ \A i \in Identifiers : authzFile[i] = Empty ~> authzFile[i] # Empty \/ faults > 0
-----------------------------------------------------------------------------
(* How OrderPromise reads the state: the files as a client sees them.      *)

Shown == IF Readable(orderFile) THEN orderFile ELSE Absent

ProvedSet == {i \in Identifiers : Proved(i)}

Stages ==
    [c \in Certs |-> IF c \in delivered THEN "named"
                     ELSE IF c \in certFiles THEN "kept"
                     ELSE IF c \in issued THEN "signed" ELSE "none"]

Reports ==
    [c \in Certs |-> IF c \in backend THEN "told"
                     ELSE IF c \in unreported THEN "lost"
                     ELSE IF c \in notices THEN "owed" ELSE "none"]

Promise == INSTANCE OrderPromise WITH
    Identifier <- Identifiers, Cert <- Certs, Hidden <- Absent,
    proved <- ProvedSet, order <- Shown,
    stage <- Stages, report <- Reports

(* All the files, goroutines and handlers do no more than OrderPromise     *)
(* allows: a certificate is signed once, is stored before the order or a   *)
(* response names it, and the backend is told of it once or never will be, *)
(* whatever crashes or is written half (acme_handler.go:590-744,           *)
(* sign.go:42-64).                                                         *)
KeepsPromise == Promise!Spec
=============================================================================
