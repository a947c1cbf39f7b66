---------------------------- MODULE AcmeAccounts ----------------------------
(***************************************************************************)
(* The accounts of one key: new-account looks the key up in its mapping    *)
(* file accounts/by-key/{thumbprint}, returns the account it names or      *)
(* creates one and then the mapping; the administrator deactivates         *)
(* accounts (acme_handler.go, account.go, storage.go).  Nothing is locked, *)
(* and files are truncated before they are written.  Accounts of different *)
(* keys share no file, so one key is the whole story.                      *)
(***************************************************************************)
EXTENDS Integers, FiniteSets

CONSTANTS
    Accounts,       \* bound: the account ids that can be drawn for the key
    Requests,       \* new-account requests handled at the same time
    Deactivations,  \* deactivate requests handled at the same time
    NoAccount,      \* a handler that has no account yet
    Absent,         \* a file that does not exist
    Empty,          \* a file truncated, or written in part
    MaxFaults       \* bound: storage errors, of reads and of writes, and crashes

ASSUME AccountAssumption ==
    /\ {NoAccount, Absent, Empty} \cap Accounts = {}
    /\ Absent # Empty
    /\ {Absent, Empty} \cap {"valid", "deactivated"} = {}
    /\ MaxFaults \in Nat

VARIABLES
    accountFile,  \* accounts/{id}.json: the status in it
    keyFile,      \* accounts/by-key/{thumbprint}: the account id in it
    request,      \* the new-account handlers
    deactivate,   \* the deactivate handlers
    answered,     \* history: the accounts named in answers to new-account
    retired,      \* history: the accounts a deactivation was confirmed for
    disturbed,    \* history: requests overlapped, or a deactivation began
    misreads,     \* history: the read errors new-account took for "no account"
    faults        \* faults so far, these included

vars == << accountFile, keyFile, request, deactivate, answered, retired, disturbed, misreads,
           faults >>

Idle == [pc |-> "idle", acc |-> NoAccount]

Readable(a) == accountFile[a] \in {"valid", "deactivated"}

TypeOK ==
    /\ accountFile \in [Accounts -> {"valid", "deactivated", Absent, Empty}]
    /\ keyFile \in Accounts \cup {Absent, Empty}
    /\ request \in [Requests -> [pc : {"idle", "load", "create", "saveKey", "writeKey"},
                                 acc : Accounts \cup {NoAccount}]]
    /\ deactivate \in [Deactivations -> [pc : {"idle", "save", "write"},
                                         acc : Accounts \cup {NoAccount}]]
    /\ answered \subseteq Accounts
    /\ retired \subseteq Accounts
    /\ disturbed \in BOOLEAN
    /\ misreads \in 0..MaxFaults
    /\ faults \in 0..MaxFaults

Init ==
    /\ accountFile = [a \in Accounts |-> Absent]
    /\ keyFile = Absent
    /\ request = [r \in Requests |-> Idle]
    /\ deactivate = [d \in Deactivations |-> Idle]
    /\ answered = {}
    /\ retired = {}
    /\ disturbed = FALSE
    /\ misreads = 0
    /\ faults = 0

Fault == faults < MaxFaults /\ faults' = faults + 1

Misread == Fault /\ misreads' = misreads + 1
-----------------------------------------------------------------------------
(* new-account, once the request is accepted.                              *)

Goto(r, pc, a) == request' = [request EXCEPT ![r] = [pc |-> pc, acc |-> a]]

Answer(r, a) ==
    /\ answered' = answered \cup {a}
    /\ request' = [request EXCEPT ![r] = Idle]

(* A request that is looked up while another is handled disturbs it.       *)
Note(r) == disturbed' = (disturbed \/ \E q \in Requests \ {r} : request[q].pc # "idle")

(* Mutants of LookUpKey: an empty mapping is taken for an account; the     *)
(* handler creates without looking.                                        *)
LookUpAnything(r) ==
    /\ request[r].pc = "idle"
    /\ IF keyFile = Absent THEN Goto(r, "create", NoAccount) ELSE Goto(r, "load", keyFile)
    /\ Note(r)
    /\ UNCHANGED << accountFile, keyFile, deactivate, answered, retired, misreads, faults >>
LookUpNothing(r) ==
    /\ request[r].pc = "idle"
    /\ Goto(r, "create", NoAccount)
    /\ Note(r)
    /\ UNCHANGED << accountFile, keyFile, deactivate, answered, retired, misreads, faults >>

(* FindAccountByKey reads the mapping; an empty one names no account.      *)
LookUpKey(r) ==
    /\ request[r].pc = "idle"
    /\ IF keyFile \in Accounts THEN Goto(r, "load", keyFile) ELSE Goto(r, "create", NoAccount)
    /\ Note(r)
    /\ UNCHANGED << accountFile, keyFile, deactivate, answered, retired, misreads, faults >>

(* Any error of the read, not only a missing file, is "not found" ...      *)
LookUpKeyFails(r) ==
    /\ Misread
    /\ request[r].pc = "idle"
    /\ Goto(r, "create", NoAccount)
    /\ Note(r)
    /\ UNCHANGED << accountFile, keyFile, deactivate, answered, retired >>

(* Mutant of ReturnExisting: the account is saved again, and valid.        *)
ReturnRefreshed(r) ==
    LET a == request[r].acc
    IN  /\ request[r].pc = "load"
        /\ Readable(a)
        /\ accountFile' = [accountFile EXCEPT ![a] = "valid"]
        /\ Answer(r, a)
        /\ UNCHANGED << keyFile, deactivate, retired, disturbed, misreads, faults >>

(* The account the mapping names is loaded and returned, whatever its      *)
(* status.                                                                 *)
ReturnExisting(r) ==
    /\ request[r].pc = "load"
    /\ Readable(request[r].acc)
    /\ Answer(r, request[r].acc)
    /\ UNCHANGED << accountFile, keyFile, deactivate, retired, disturbed, misreads, faults >>

(* The handler ignores the error of a file without a document: no account  *)
(* ...                                                                     *)
MissExisting(r) ==
    /\ request[r].pc = "load"
    /\ ~ Readable(request[r].acc)
    /\ Goto(r, "create", NoAccount)
    /\ UNCHANGED << accountFile, keyFile, deactivate, answered, retired, disturbed, misreads,
                    faults >>

(* ... and that of a document it fails to read.                            *)
LoadExistingFails(r) ==
    /\ Misread
    /\ request[r].pc = "load"
    /\ Goto(r, "create", NoAccount)
    /\ UNCHANGED << accountFile, keyFile, deactivate, answered, retired, disturbed >>

(* onlyReturnExisting: the client is told that there is no account.        *)
OnlyReturnExisting(r) ==
    /\ request[r].pc = "create"
    /\ request' = [request EXCEPT ![r] = Idle]
    /\ UNCHANGED << accountFile, keyFile, deactivate, answered, retired, disturbed, misreads,
                    faults >>

(* Mutant of SaveAccount: its error is not looked at.                      *)
SaveAccountUnchecked(r, a) ==
    /\ request[r].pc = "create"
    /\ accountFile[a] = Absent
    /\ \E file \in {Absent, "valid"} : accountFile' = [accountFile EXCEPT ![a] = file]
    /\ Goto(r, "saveKey", a)
    /\ UNCHANGED << keyFile, deactivate, answered, retired, disturbed, misreads,
                    faults >>

(* NewAccount draws an id and SaveAccount writes the file, of whose name   *)
(* nobody knows before it is complete.                                     *)
SaveAccount(r, a) ==
    /\ request[r].pc = "create"
    /\ accountFile[a] = Absent
    /\ accountFile' = [accountFile EXCEPT ![a] = "valid"]
    /\ Goto(r, "saveKey", a)
    /\ UNCHANGED << keyFile, deactivate, answered, retired, disturbed, misreads,
                    faults >>

SaveAccountFails(r, a) ==
    /\ Fault
    /\ request[r].pc = "create"
    /\ accountFile[a] = Absent
    /\ \E file \in {Absent, Empty} : accountFile' = [accountFile EXCEPT ![a] = file]
    /\ request' = [request EXCEPT ![r] = Idle]
    /\ UNCHANGED << keyFile, deactivate, answered, retired, disturbed, misreads >>

(* SaveAccountKeyMapping truncates the mapping ...                         *)
TruncateKey(r) ==
    /\ request[r].pc = "saveKey"
    /\ keyFile' = Empty
    /\ Goto(r, "writeKey", request[r].acc)
    /\ UNCHANGED << accountFile, deactivate, answered, retired, disturbed, misreads,
                    faults >>

(* Mutant of WriteKey: its error is not looked at.                         *)
WriteKeyUnchecked(r) ==
    /\ request[r].pc = "writeKey"
    /\ keyFile' \in {keyFile, request[r].acc}
    /\ Answer(r, request[r].acc)
    /\ UNCHANGED << accountFile, deactivate, retired, disturbed, misreads, faults >>

(* ... and writes the id.  All ids have the same length, so of overlapping *)
(* writers the last one wins.                                              *)
WriteKey(r) ==
    /\ request[r].pc = "writeKey"
    /\ keyFile' = request[r].acc
    /\ Answer(r, request[r].acc)
    /\ UNCHANGED << accountFile, deactivate, retired, disturbed, misreads, faults >>

(* The client gets a 500; the account stays behind, and the mapping empty  *)
(* if it is truncated (an id is so short that none or all of it is         *)
(* written).                                                               *)
SaveKeyFails(r) ==
    /\ Fault
    /\ request[r].pc \in {"saveKey", "writeKey"}
    /\ request' = [request EXCEPT ![r] = Idle]
    /\ UNCHANGED << accountFile, keyFile, deactivate, answered, retired, disturbed, misreads >>
-----------------------------------------------------------------------------
(* Deactivation of an account the administrator has seen in the list: a    *)
(* read-modify-write of its file.                                          *)

LoadForDeactivation(d, a) ==
    /\ deactivate[d].pc = "idle"
    /\ Readable(a)
    /\ deactivate' = [deactivate EXCEPT ![d] = [pc |-> "save", acc |-> a]]
    /\ disturbed' = TRUE
    /\ UNCHANGED << accountFile, keyFile, request, answered, retired, misreads, faults >>

TruncateAccount(d) ==
    /\ deactivate[d].pc = "save"
    /\ accountFile' = [accountFile EXCEPT ![deactivate[d].acc] = Empty]
    /\ deactivate' = [deactivate EXCEPT ![d].pc = "write"]
    /\ UNCHANGED << keyFile, request, answered, retired, disturbed, misreads,
                    faults >>

(* Two deactivations of one account write the same document.               *)
WriteDeactivated(d) ==
    LET a == deactivate[d].acc
    IN  /\ deactivate[d].pc = "write"
        /\ accountFile' = [accountFile EXCEPT ![a] = "deactivated"]
        /\ deactivate' = [deactivate EXCEPT ![d] = Idle]
        /\ retired' = retired \cup {a}
        /\ UNCHANGED << keyFile, request, answered, disturbed, misreads, faults >>

DeactivationFails(d) ==
    /\ Fault
    /\ deactivate[d].pc \in {"save", "write"}
    /\ deactivate' = [deactivate EXCEPT ![d] = Idle]
    /\ UNCHANGED << accountFile, keyFile, request, answered, retired, disturbed, misreads >>

(* The process dies and starts again.                                      *)
Crash ==
    /\ Fault
    /\ request' = [r \in Requests |-> Idle]
    /\ deactivate' = [d \in Deactivations |-> Idle]
    /\ UNCHANGED << accountFile, keyFile, answered, retired, disturbed, misreads >>

Next ==
    \/ \E r \in Requests :
          \/ LookUpKey(r) \/ LookUpKeyFails(r)
          \/ ReturnExisting(r) \/ MissExisting(r) \/ LoadExistingFails(r)
          \/ OnlyReturnExisting(r)
          \/ \E a \in Accounts : SaveAccount(r, a) \/ SaveAccountFails(r, a)
          \/ TruncateKey(r) \/ WriteKey(r) \/ SaveKeyFails(r)
    \/ \E d \in Deactivations :
          \/ \E a \in Accounts : LoadForDeactivation(d, a)
          \/ TruncateAccount(d) \/ WriteDeactivated(d) \/ DeactivationFails(d)
    \/ Crash

Spec == Init /\ [][Next]_vars
-----------------------------------------------------------------------------
(* Properties.                                                             *)

BeingDeactivated(a) ==
    \E d \in Deactivations : deactivate[d].pc = "write" /\ deactivate[d].acc = a

(* The mapping never names, and no client ever gets, an account without a  *)
(* document, however the creators overlap and wherever they fail; only a   *)
(* deactivation hides the document for a moment, or for good if it fails   *)
(* (SaveAccount before SaveAccountKeyMapping, acme_handler.go:226-233).    *)
AccountResolves ==
    \A a \in Accounts : a = keyFile \/ a \in answered =>
        \/ Readable(a)
        \/ accountFile[a] = Empty /\ (BeingDeactivated(a) \/ faults > misreads)

(* An account is deactivated for good: no handler that loaded it earlier   *)
(* and no second creator makes it valid again                              *)
(* (acme_handler.go:937-945, 202-226).                                     *)
RetiredForGood == \A a \in retired : accountFile[a] \in {"deactivated", Empty}

AtRest ==
    /\ \A r \in Requests : request[r].pc = "idle"
    /\ \A d \in Deactivations : deactivate[d].pc = "idle"

(* However many creators overlap, and whatever they fail to read: when all *)
(* are done and no write has failed, the key leads to an account some      *)
(* client was told of (acme_handler.go:202-240).                           *)
KeyLeadsToAClient == AtRest /\ faults = misreads /\ answered # {} => keyFile \in answered

(* docs/CA.md:289-291: "`new-account` returns the existing account (200 +  *)
(* Location) if the key is already registered": every answer for the key   *)
(* names the same account (acme_handler.go:202-212).                       *)
OneAccountPerKey == \A a, b \in answered : a = b

(* While requests come one after the other and nobody is deactivated, each *)
(* further account a client is told of costs an error in reading the       *)
(* mapping or the account, which new-account takes for "no account"        *)
(* (account.go:63-66, acme_handler.go:203).  Failing writes and crashes    *)
(* cost nothing: they may make it forget an account no client was told of, *)
(* never one that was (acme_handler.go:201-240).                           *)
FurtherAccountsAreMisreads == ~ disturbed => Cardinality(answered) <= 1 + misreads

(* In the same circumstances failures leave accounts behind that no key    *)
(* leads to, but one for each failure at the most                          *)
(* (acme_handler.go:226-233).                                              *)
OrphansAreFaults ==
    ~ disturbed => Cardinality({a \in Accounts : accountFile[a] # Absent}) <= 1 + faults
=============================================================================
