---------------------------- MODULE AcmeCleanup -----------------------------
(***************************************************************************)
(* AcmeOrder together with the worker that removes files of orders,        *)
(* authorizations and challenge mappings at 02:00 when nobody has written  *)
(* them for thirty days (acme_cleanup_worker.go), directory by directory   *)
(* and with nothing but the modification time to go by: an order may be in *)
(* use while its parts go, and a file may be rewritten after the worker    *)
(* has looked at it.                                                       *)
(*                                                                         *)
(* A writer that has the file open when it is removed writes into a file   *)
(* without a name.                                                         *)
(***************************************************************************)
EXTENDS AcmeOrder, Sequences

CONSTANT Limit        \* the nights a file is kept after it was written

ASSUME CleanupAssumption ==
    /\ Limit \in Nat
    /\ Validations \cap Finalizes = {}

OrderFile == << "orders", 0 >>

AuthzFile(i) == << "authz", i >>

ChallengeFiles == {"challenges"} \X ChallengeIds

Parts == {AuthzFile(i) : i \in Identifiers} \cup ChallengeFiles

Files == {OrderFile} \cup Parts

(* Mutant of Directories: the parts before what they belong to.            *)
DirectoriesPartsFirst == << "authz", "challenges", "orders" >>

(* Mutant of Directories: one is forgotten.                                *)
DirectoriesWithoutAuthz == << "orders", "challenges" >>

(* The order in which a pass goes through them.                            *)
Directories == << "orders", "authz", "challenges" >>

VARIABLES
    age,        \* nights since the file was last written, at most Limit + 1
    cleaner,    \* the worker: its next directory, the entries left to look at,
                \*             the file it removes
    due,        \* files older than the pass's cutoff and not written since
    unlinked,   \* writers whose open file has been removed
    apart,      \* history: parts last written a night or more before the order
    exempt      \* history: files removed although just rewritten, or spared
                \*          because of an error

cleanup == << age, cleaner, due, unlinked, apart, exempt >>
cleanupVars == << vars, cleanup >>

Asleep == [pc |-> "asleep", next |-> 1, left |-> {}, file |-> OrderFile]

CleanupTypeOK ==
    /\ TypeOK
    /\ age \in [Files -> 0..(Limit + 1)]
    /\ cleaner \in [pc : {"asleep", "look", "remove"}, next : 1..(Len(Directories) + 1),
                    left : SUBSET Files, file : Files]
    /\ due \subseteq Files
    /\ unlinked \subseteq Validations \cup Finalizes
    /\ apart \subseteq Parts
    /\ exempt \subseteq Files

CleanupInit ==
    /\ Init
    /\ age = [f \in Files |-> 0]
    /\ cleaner = Asleep
    /\ due = {} /\ unlinked = {} /\ apart = {} /\ exempt = {}

Existing ==
    {f \in {OrderFile} : orderFile # Absent}
    \cup {AuthzFile(i) : i \in {j \in Identifiers : authzFile[j] # Absent}}
    \cup {<< "challenges", c >> : c \in challengeMap}
-----------------------------------------------------------------------------
(* The steps of AcmeOrder, with the modification times they leave behind.  *)

WritesTo(w, f) ==
    \/ /\ w \in Validations
       /\ \/ validation[w].pc = "writeOrder" /\ f = OrderFile
          \/ validation[w].pc = "writeAuthz" /\ f = AuthzFile(validation[w].ix)
    \/ w \in Finalizes /\ finalize[w].pc = "writeOrder" /\ f = OrderFile

Writers == {w \in Validations \cup Finalizes : \E f \in Files : WritesTo(w, f)}

Stamped(F) ==
    /\ age' = [f \in Files |-> IF f \in F THEN 0 ELSE age[f]]
    /\ due' = due \ F
    /\ apart' = IF OrderFile \in F THEN {p \in Parts : age[p] > 0} ELSE apart \ F
    /\ exempt' = exempt \ F
    /\ unlinked' = unlinked \cap Writers'

Written(F) == Stamped(F) /\ UNCHANGED cleaner

(* new-order; where it fails because the process dies, the worker dies too. *)
Create ==
    \/ SaveNewAuthz /\ Written({AuthzFile(create.next)} \cup
                               {<< "challenges", c >> : c \in MappingsOf(create.next)})
    \/ SaveNewOrder /\ Written({OrderFile})

CreateFails ==
    /\ NewOrderFails
    /\ Stamped(Existing' \ Existing)
    /\ cleaner' \in {cleaner, Asleep}

Rewrite ==
    \/ \E v \in Validations :
          \/ TruncateAuthz(v) /\ Written({AuthzFile(validation[v].ix)})
          \/ v \notin unlinked /\ WriteAuthz(v) /\ Written({AuthzFile(validation[v].ix)})
          \/ TruncateOrder(v) /\ Written({OrderFile})
          \/ v \notin unlinked /\ WriteOrder(v) /\ Written({OrderFile})
    \/ \E f \in Finalizes :
          \/ TruncateFinalized(f) /\ Written({OrderFile})
          \/ f \notin unlinked /\ WriteFinalized(f) /\ Written({OrderFile})

(* The write goes to the removed file: the same step without a trace.      *)
WriteUnlinked(w) ==
    /\ w \in unlinked \cap Writers
    /\ \/ /\ w \in Validations
          /\ validation' = [validation EXCEPT ![w] =
                IF validation[w].pc = "writeAuthz" THEN [IdleJob EXCEPT !.pc = "loadOrder"]
                                                   ELSE IdleJob]
          /\ UNCHANGED << delivered, finalize >>
       \/ w \in Finalizes /\ Respond(w) /\ UNCHANGED validation
    /\ Written({})
    /\ UNCHANGED << files, pki, create, proved, faults >>

(* Whatever writes none of the worker's files.                             *)
Otherwise ==
    /\ \/ \E v \in Validations :
             \/ \E c \in ChallengeIds : PostChallenge(v, c[1], c[2])
             \/ \E ok \in BOOLEAN : Validate(v, ok)
             \/ SaveAuthzFails(v) \/ LoadOrder(v) \/ ScanAuthz(v) \/ SaveOrderFails(v)
       \/ \E f \in Finalizes :
             \/ StartFinalize(f) \/ RejectFinalize(f)
             \/ \E c \in Certs : Sign(f, c) \/ StoreFails(f, c)
             \/ ChainFails(f) \/ SaveCert(f) \/ SaveFinalizedFails(f)
       \/ \E c \in Certs : Notified(c) \/ NotifyLost(c)
    /\ Written({})

CrashAll ==
    /\ Crash
    /\ cleaner' = Asleep
    /\ due' = {} /\ unlinked' = {}
    /\ UNCHANGED << age, apart, exempt >>
-----------------------------------------------------------------------------
(* The worker.                                                             *)

(* Mutant of Older: no bound.                                              *)
OlderForEver == [f \in Files |-> age[f] + 1]

(* Beyond the limit ages are not told apart.                               *)
Older == [f \in Files |-> IF age[f] > Limit THEN age[f] ELSE age[f] + 1]

(* 02:00: everything is a night older and the worker, unless it is still   *)
(* busy with the last pass, wakes and takes the time for its cutoff.       *)
Night ==
    /\ age' = Older
    /\ \/ /\ cleaner.pc = "asleep"
          /\ cleaner' = [Asleep EXCEPT !.pc = "look"]
          /\ due' = {f \in Existing : Older[f] > Limit}
       \/ /\ cleaner.pc # "asleep"
          /\ UNCHANGED << cleaner, due >>
    /\ UNCHANGED << vars, unlinked, apart, exempt >>

Entries == {f \in Existing : f[1] = Directories[cleaner.next]}

ReadDir ==
    /\ cleaner.pc = "look" /\ cleaner.left = {} /\ cleaner.next <= Len(Directories)
    /\ cleaner' = [cleaner EXCEPT !.next = @ + 1, !.left = Entries]
    /\ UNCHANGED << vars, age, due, unlinked, apart, exempt >>

(* entry.Info and the comparison with the cutoff.                          *)
Look(f) ==
    /\ cleaner.pc = "look" /\ f \in cleaner.left
    /\ cleaner' = [cleaner EXCEPT !.left = @ \ {f},
                                  !.pc = IF f \in due THEN "remove" ELSE "look",
                                  !.file = IF f \in due THEN f ELSE @]
    /\ UNCHANGED << vars, age, due, unlinked, apart, exempt >>

(* os.Remove, of whatever the file is by now.                              *)
Remove ==
    LET f == cleaner.file
    IN  /\ cleaner.pc = "remove"
        /\ orderFile' = IF f = OrderFile THEN Absent ELSE orderFile
        /\ authzFile' = [i \in Identifiers |->
                            IF f = AuthzFile(i) THEN Absent ELSE authzFile[i]]
        /\ challengeMap' = {c \in challengeMap : f # << "challenges", c >>}
        /\ exempt' = IF f \in due THEN exempt \ {f} ELSE exempt \cup {f}
        /\ due' = due \ {f}
        /\ unlinked' = unlinked \cup {w \in Validations \cup Finalizes : WritesTo(w, f)}
        /\ cleaner' = [cleaner EXCEPT !.pc = "look", !.file = OrderFile]
        /\ UNCHANGED << age, apart, pki, create, validation, finalize, delivered, proved, faults >>

(* ReadDir, Info or Remove fails: on to the next directory or entry.       *)
CleanupFails ==
    /\ Fault
    /\ \/ /\ cleaner.pc = "look" /\ cleaner.left = {} /\ cleaner.next <= Len(Directories)
          /\ cleaner' = [cleaner EXCEPT !.next = @ + 1]
          /\ exempt' = exempt \cup Entries
       \/ \E f \in cleaner.left :
          /\ cleaner.pc = "look"
          /\ cleaner' = [cleaner EXCEPT !.left = @ \ {f}]
          /\ exempt' = exempt \cup {f}
       \/ /\ cleaner.pc = "remove"
          /\ cleaner' = [cleaner EXCEPT !.pc = "look", !.file = OrderFile]
          /\ exempt' = exempt \cup {cleaner.file}
    /\ UNCHANGED << files, pki, create, validation, finalize, delivered, proved,
                    age, due, unlinked, apart >>

EndPass ==
    /\ cleaner.pc = "look" /\ cleaner.left = {} /\ cleaner.next > Len(Directories)
    /\ cleaner' = Asleep
    /\ due' = {}
    /\ UNCHANGED << vars, age, unlinked, apart, exempt >>

Pass == ReadDir \/ Remove \/ EndPass \/ \E f \in Files : Look(f)

CleanupNext ==
    \/ Create \/ CreateFails \/ Rewrite \/ Otherwise \/ CrashAll
    \/ \E w \in unlinked : WriteUnlinked(w)
    \/ Night \/ Pass \/ CleanupFails

CleanupSpec == CleanupInit /\ [][CleanupNext]_cleanupVars

(* Nights pass, and the worker, which waits for nothing but the disk, gets *)
(* through its pass.  The last conjunct is weak fairness of Pass with its  *)
(* ENABLED spelled out, which spares TLC much time: a step of Pass is      *)
(* enabled if and only if the worker is awake.  Nothing is assumed of      *)
(* handlers and goroutines.                                                *)
CleanupFairSpec ==
    /\ CleanupSpec
    /\ []<><< Night >>_<< age, cleaner >>
    /\ []<>(cleaner.pc = "asleep") \/ []<><< Pass >>_cleaner
-----------------------------------------------------------------------------
(* Properties.                                                             *)

(* An order that a client can still load has all its authorizations and    *)
(* challenge mappings, but for those that were last written a night or     *)
(* more before the order was saved again, and but for files removed in the *)
(* instant they were rewritten: the pass takes orders before their parts,  *)
(* whatever is written meanwhile (acme_cleanup_worker.go:34-54).           *)
PartsOutliveOrder ==
    OrderFile \in Existing \ exempt => Parts \subseteq Existing \cup apart \cup exempt

(* Whatever is left behind goes: by an order nobody finalizes any more, by *)
(* a new-order that failed, by a goroutine that writes its old copy back   *)
(* after a year (acme_cleanup_worker.go:15-60).                            *)
AllIsRemoved == <>[](Existing = {})
=============================================================================
