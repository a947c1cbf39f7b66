---------------------------- MODULE KeyPairFiles ----------------------------
(***************************************************************************)
(* The files every signature of this CA rests on, and the handlers that    *)
(* share them without a lock: the root certificate, the certificate and    *)
(* the key of an intermediate (storage/root.go, intermediate.go), those of *)
(* the time-stamping authority (storage_tsa.go), which are replaced one    *)
(* file after the other and in place; and the signers of certificates,     *)
(* CRLs, OCSP responses and time stamps (ca/sign.go, chain.go, loader.go,  *)
(* crl.go, tsa.go, sign_handler.go, timestamp_handler.go), which read them *)
(* one after the other.                                                    *)
(***************************************************************************)
EXTENDS Integers

CONSTANTS
    Handlers,       \* the requests, and rounds of the CRL worker, at one time
    Versions,       \* key pairs; in a file: the certificate or the key of one
    Roots,          \* root certificates
    Issuer,         \* the root that has signed the certificate of a version
    Junk,           \* bytes that are no root certificate
    Absent,         \* no such file
    Truncated,      \* a file that was opened for writing and not written
    None,
    Asked,          \* the numbers of days that are asked for
    MaxFaults       \* bound: failed writes, failed signers, ends of the process

(* What root.crt may hold.                                                 *)
RootBytes == Roots \cup {Junk}

ASSUME FilesAssumption ==
    /\ ({Absent, Truncated, None} \cup RootBytes) \cap Versions = {}
    /\ Truncated # Absent /\ {Truncated, Absent} \cap RootBytes = {}
    /\ Issuer \in [Versions -> Roots]
    /\ Asked \subseteq Int
    /\ MaxFaults \in Nat

VARIABLES
    crtFile,    \* by store: root.crt, intermediate.crt, tsa.crt
    keyFile,    \* by store: intermediate.key, tsa.key; the root has none
    handler,    \* the handlers
    broken,     \* history: stores left by a failed or an overlapped writer
    faults

vars == << crtFile, keyFile, handler, broken, faults >>

Stores == {"root", "int", "tsa"}

(* The administration's two ways to a certificate, and the ACME one; the   *)
(* CRL and OCSP responses, which differ in nothing that matters here.      *)
Certifiers == {"csr", "data", "acme"}

Signers == Certifiers \cup {"status", "timestamp"}

Readers == Signers \cup {"generate"}

Idle == [pc |-> "idle", kind |-> None, store |-> None, crt |-> None, key |-> None,
         chain |-> None, root |-> None, asked |-> 0, days |-> 0, told |-> 0, quiet |-> FALSE]

Days == Asked \cup {0, 90, 365}

Handler ==
    [pc : {"idle", "crt", "key", "chain", "root", "reply",
           "openCrt", "writeCrt", "openKey", "writeKey"},
     kind : Readers \cup {"import", None},
     store : Stores \cup {None},
     crt : Versions \cup RootBytes \cup {None},
     key : Versions \cup {None},
     chain : Versions \cup {Absent, Truncated, None},
     root : RootBytes \cup {Truncated, None},
     asked : Days, days : Days, told : Days,
     quiet : BOOLEAN]

TypeOK ==
    /\ crtFile \in [Stores -> Versions \cup RootBytes \cup {Absent, Truncated}]
    /\ keyFile \in [Stores -> Versions \cup {Absent, Truncated}]
    /\ handler \in [Handlers -> Handler]
    /\ broken \subseteq Stores
    /\ faults \in 0..MaxFaults

Init ==
    /\ crtFile = [s \in Stores |-> Absent]
    /\ keyFile = [s \in Stores |-> Absent]
    /\ handler = [h \in Handlers |-> Idle]
    /\ broken = {}
    /\ faults = 0

Fault == faults < MaxFaults /\ faults' = faults + 1

Finish(h) == handler' = [handler EXCEPT ![h] = Idle]
-----------------------------------------------------------------------------
(* Writers: an import of an intermediate or of a root, and the generation  *)
(* of a time-stamping certificate once it has one.                         *)

IsWriter(g) == g.pc \in {"openCrt", "writeCrt", "openKey", "writeKey"}

Busy(s) == \E h \in Handlers : IsWriter(handler[h]) /\ handler[h].store = s

(* The stores a signer reads.                                              *)
Needs(k) ==
    CASE k \in Certifiers             -> {"int", "root"}
      [] k \in {"status", "generate"} -> {"int"}
      [] k = "timestamp"              -> {"tsa"}
      [] OTHER                        -> {}

Uses(g) == IF IsWriter(g) THEN {g.store} ELSE Needs(g.kind)

(* h begins to store a certificate and its key in s: nobody who reads or   *)
(* writes s is undisturbed any more.                                       *)
BeginStore(h, s, crt, key) ==
    /\ handler' =
          [g \in Handlers |->
              IF g = h
              THEN [Idle EXCEPT !.pc = "openCrt", !.kind = "import", !.store = s,
                                !.crt = crt, !.key = key, !.quiet = ~ Busy(s)]
              ELSE [handler[g] EXCEPT !.quiet = @ /\ s \notin Uses(handler[g])]]
    /\ broken' = IF Busy(s) THEN broken \cup {s} ELSE broken

(* Mutant of KeyMatches: the uploaded key is only parsed.                  *)
AnyKey(crt, key) == TRUE

KeyMatches(crt, key) == key = crt

(* An intermediate that the root uploaded with it has not signed, or whose *)
(* key is another's, is refused; that root is then forgotten, and the one  *)
(* in the store not looked at.  A root is stored whatever its bytes are.   *)
Import(h) ==
    /\ handler[h].pc = "idle"
    /\ \/ \E root \in Roots, crt, key \in Versions :
              Issuer[crt] = root /\ KeyMatches(crt, key) /\ BeginStore(h, "int", crt, key)
       \/ \E bytes \in RootBytes : BeginStore(h, "root", bytes, None)
    /\ UNCHANGED << crtFile, keyFile, faults >>

OpenCrt(h) ==
    /\ handler[h].pc = "openCrt"
    /\ crtFile' = [crtFile EXCEPT ![handler[h].store] = Truncated]
    /\ handler' = [handler EXCEPT ![h].pc = "writeCrt"]
    /\ UNCHANGED << keyFile, broken, faults >>

(* A writer that was alone leaves the store whole.                         *)
Stored(g) == broken' = IF g.quiet THEN broken \ {g.store} ELSE broken

(* Two writers of one file: the first document in the file counts, and it  *)
(* is the one written last.                                                *)
WriteCrt(h) ==
    LET g == handler[h]
    IN  /\ g.pc = "writeCrt"
        /\ crtFile' = [crtFile EXCEPT ![g.store] = g.crt]
        /\ \/ g.store = "root" /\ Finish(h) /\ Stored(g)
           \/ /\ g.store # "root"
              /\ handler' = [handler EXCEPT ![h].pc = "openKey"]
              /\ UNCHANGED broken
        /\ UNCHANGED << keyFile, faults >>

OpenKey(h) ==
    /\ handler[h].pc = "openKey"
    /\ keyFile' = [keyFile EXCEPT ![handler[h].store] = Truncated]
    /\ handler' = [handler EXCEPT ![h].pc = "writeKey"]
    /\ UNCHANGED << crtFile, broken, faults >>

WriteKey(h) ==
    LET g == handler[h]
    IN  /\ g.pc = "writeKey"
        /\ keyFile' = [keyFile EXCEPT ![g.store] = g.key]
        /\ Finish(h) /\ Stored(g)
        /\ UNCHANGED << crtFile, faults >>

(* Only a failure before the first file is opened leaves the store as it   *)
(* was.                                                                    *)
WriteFails(h) ==
    LET g == handler[h]
    IN  /\ Fault
        /\ IsWriter(g)
        /\ broken' = IF g.pc = "openCrt" THEN broken ELSE broken \cup {g.store}
        /\ Finish(h)
        /\ UNCHANGED << crtFile, keyFile >>
-----------------------------------------------------------------------------
(* Signers.                                                                *)

Begin(h) ==
    /\ handler[h].pc = "idle"
    /\ \E k \in Readers : \E a \in IF k \in Certifiers THEN Asked ELSE {0} :
          handler' = [handler EXCEPT ![h] =
              [Idle EXCEPT !.pc = "crt", !.kind = k, !.asked = a,
                           !.quiet = \A s \in Needs(k) : ~ Busy(s) /\ s \notin broken]]
    /\ UNCHANGED << crtFile, keyFile, broken, faults >>

CrtStore(k) == IF k = "timestamp" THEN "tsa" ELSE "int"

(* Mutant of KeyStore: the path of the other key.                          *)
IntermediateKey(k) == "int"

KeyStore(k) == IF k = "timestamp" THEN "tsa" ELSE "int"

(* Mutant of Readable: an empty file is taken for a document.              *)
NotAbsent(doc) == doc # Absent

Readable(doc) == doc \in Versions

ReadCrt(h) ==
    LET crt == crtFile[CrtStore(handler[h].kind)]
    IN  /\ handler[h].pc = "crt"
        /\ IF ~ Readable(crt) THEN Finish(h)
           ELSE handler' = [handler EXCEPT ![h].pc = "key", ![h].crt = crt]
        /\ UNCHANGED << crtFile, keyFile, broken, faults >>

(* Mutant of Corrected: what the JSON body asks for is passed on.          *)
CorrectedForAcme(k, a) == IF a <= 0 /\ k = "acme" THEN 90 ELSE a

(* The days a handler passes to ca.SignCSR: the form's as they are.        *)
Corrected(k, a) ==
    IF a > 0 THEN a
    ELSE CASE k = "acme" -> 90 [] k = "data" -> 365 [] OTHER -> a

Certified(k, a) == IF Corrected(k, a) <= 0 THEN 365 ELSE Corrected(k, a)

(* The key is read and used.  x509.CreateCertificate refuses a pair that   *)
(* does not match; CRLs, OCSP responses and time stamps are signed with    *)
(* whatever key there is.                                                  *)
ReadKey(h) ==
    LET g == handler[h]
        key == keyFile[KeyStore(g.kind)]
    IN  /\ g.pc = "key" /\ g.kind # "generate"
        /\ IF ~ Readable(key) \/ (g.kind \in Certifiers /\ key # g.crt)
           THEN Finish(h)
           ELSE \/ /\ g.kind \notin Certifiers
                   /\ handler' = [handler EXCEPT ![h].pc = "reply", ![h].key = key]
                \/ /\ g.kind \in Certifiers
                   /\ handler' = [handler EXCEPT ![h].pc = "chain", ![h].key = key,
                                                 ![h].days = Certified(g.kind, g.asked)]
        /\ UNCHANGED << crtFile, keyFile, broken, faults >>

(* openssl, which refuses a pair that does not match either, makes a       *)
(* certificate for a new key, and the handler stores them.                 *)
GenerateTsa(h) ==
    /\ handler[h].pc = "key" /\ handler[h].kind = "generate"
    /\ IF keyFile["int"] # handler[h].crt THEN Finish(h) /\ UNCHANGED broken
       ELSE \E v \in Versions \ {crtFile["tsa"], keyFile["tsa"]} : BeginStore(h, "tsa", v, v)
    /\ UNCHANGED << crtFile, keyFile, faults >>

(* BuildChain reads the certificate again, and takes any file for one.     *)
ReadChain(h) ==
    /\ handler[h].pc = "chain"
    /\ handler' = [handler EXCEPT ![h].pc = "root", ![h].chain = crtFile["int"]]
    /\ UNCHANGED << crtFile, keyFile, broken, faults >>

(* The certificate is stored in a directory of its own, and the validity   *)
(* that was passed on is told to the client, or to the backend.            *)
ReadRoot(h) ==
    LET g == handler[h]
    IN  /\ g.pc = "root"
        /\ IF crtFile["root"] = Absent THEN Finish(h)
           ELSE handler' = [handler EXCEPT ![h].pc = "reply", ![h].root = crtFile["root"],
                                           ![h].told = Corrected(g.kind, g.asked)]
        /\ UNCHANGED << crtFile, keyFile, broken, faults >>

SignerFails(h) ==
    /\ Fault
    /\ handler[h].pc \in {"crt", "key", "chain", "root"}
    /\ Finish(h)
    /\ UNCHANGED << crtFile, keyFile, broken >>

Reply(h) ==
    /\ handler[h].pc = "reply"
    /\ Finish(h)
    /\ UNCHANGED << crtFile, keyFile, broken, faults >>

(* The process ends and starts again.                                      *)
Restart ==
    /\ Fault
    /\ broken' = broken \cup {s \in Stores : Busy(s)}
    /\ handler' = [h \in Handlers |-> Idle]
    /\ UNCHANGED << crtFile, keyFile >>

Next ==
    \/ \E h \in Handlers :
          \/ Import(h) \/ OpenCrt(h) \/ WriteCrt(h) \/ OpenKey(h) \/ WriteKey(h)
          \/ WriteFails(h)
          \/ Begin(h) \/ ReadCrt(h) \/ ReadKey(h) \/ GenerateTsa(h)
          \/ ReadChain(h) \/ ReadRoot(h) \/ SignerFails(h) \/ Reply(h)
    \/ Restart

Spec == Init /\ [][Next]_vars
-----------------------------------------------------------------------------
(* Properties.                                                             *)

Whole(s) ==
    /\ crtFile[s] # Truncated
    /\ s # "root" => keyFile[s] = crtFile[s]

(* A store at rest is whole: the key is the certificate's, and no file is  *)
(* truncated; unless two writers overlapped, or one failed half-way, and   *)
(* no later one has been alone and complete (intermediate.go:23-32,        *)
(* storage_tsa.go:27-37).                                                  *)
PairsMatch == \A s \in Stores \ broken : ~ Busy(s) => Whole(s)

(* The stored root has signed the stored intermediate.  No handler makes   *)
(* it so, or looks whether it is so.                                       *)
RootFits == crtFile["int"] \in Versions /\ crtFile["root"] = Issuer[crtFile["int"]]

(* A signature that is handed out verifies under the certificate handed    *)
(* out with it, and a chain leads from the new certificate over the        *)
(* intermediate that signed it to the root that signed that one, if it is  *)
(* this root that is stored, and to some uploaded bytes otherwise; unless  *)
(* one of the stores it was read from was being replaced in the meantime   *)
(* or was broken before.  Signers never look whether the key matches, and  *)
(* BuildChain never looks at the files at all (loader_pem.go:9-49,         *)
(* chain.go:10-37, crl.go:65-90, timestamp_handler.go:36-66,               *)
(* root_handler.go:18-20, import_handler.go:57).                           *)
AnswersVerify ==
    \A h \in Handlers :
        LET g == handler[h]
        IN  g.pc = "reply" /\ g.quiet
            => /\ g.crt = g.key
               /\ g.kind \in Certifiers
                  => /\ g.chain = g.crt
                     /\ g.root \in RootBytes
                     /\ RootFits => g.root = Issuer[g.crt]

(* The validity that is told is the certificate's, except where a form     *)
(* asks for no days or fewer (sign_handler.go:74-77, 135, 190-192, 308,    *)
(* acme/sign.go:32-34, 80, ca/sign.go:55-57).                              *)
ToldIsCertified ==
    \A h \in Handlers :
        LET g == handler[h]
        IN  g.pc = "reply" /\ g.kind \in Certifiers /\ g.told # g.days
            => g.kind = "csr" /\ g.asked <= 0
=============================================================================
