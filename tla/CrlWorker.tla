----------------------------- MODULE CrlWorker ------------------------------
(***************************************************************************)
(* The CRL worker (crl-worker.go, ca/crl.go) and the files it keeps for    *)
(* CRLHandler: every five minutes it asks the backend for the revoked      *)
(* certificates of one intermediate after the other, signs a list of them  *)
(* and overwrites the intermediate's CRL file in place.  A pass goes on    *)
(* after an intermediate that cannot be served, but waits for ever for a   *)
(* backend that neither answers nor closes the connection.                 *)
(***************************************************************************)
EXTENDS Integers, RevokedList

CONSTANTS
    Nobody,         \* the pass is at no intermediate
    MaxFaults       \* bound: files that cannot be read or written, crashes, hangs

ASSUME CrlAssumption ==
    /\ MaxFaults \in Nat
    /\ Nobody \notin Intermediates

VARIABLES
    revoked,    \* the entries of the backend's list of an intermediate
    refused,    \* the intermediates for which the backend answers with an error
    crl,        \* crl_<id>.pem: its state and the serial numbers it lists
    worker,     \* the goroutine of StartCRLWorker
    published,  \* history: the serial numbers a complete file has listed
    faults

vars == << revoked, refused, crl, worker, published, faults >>

Lists == SUBSET Serials

File == [state : {"absent", "truncated", "complete"}, list : Lists]

TypeOK ==
    /\ revoked \in [Intermediates -> SUBSET Entries]
    /\ refused \subseteq Intermediates
    /\ crl \in [Intermediates -> File]
    /\ worker \in [pc : {"load", "loop", "fetch", "hung", "generate", "open", "write"},
                   todo : SUBSET Intermediates,
                   at : Intermediates \cup {Nobody},
                   list : Lists]
    /\ published \in [Intermediates -> Lists]
    /\ faults \in 0..MaxFaults

Start == [pc |-> "load", todo |-> {}, at |-> Nobody, list |-> {}]

Init ==
    /\ revoked = [i \in Intermediates |-> {}]
    /\ refused = {}
    /\ crl = [i \in Intermediates |-> [state |-> "absent", list |-> {}]]
    /\ worker = Start
    /\ published = [i \in Intermediates |-> {}]
    /\ faults = 0

Fault == faults < MaxFaults /\ faults' = faults + 1
-----------------------------------------------------------------------------
(* The backend.  A revocation is final: no code here takes one back.       *)

Revoke(i, e) ==
    /\ e \notin revoked[i]
    /\ revoked' = [revoked EXCEPT ![i] = @ \cup {e}]
    /\ UNCHANGED << refused, crl, worker, published, faults >>

(* The backend begins or ceases to answer for i with what is not a list.   *)
Refuse(i) ==
    /\ refused' \in {refused \cup {i}, refused \ {i}}
    /\ UNCHANGED << revoked, crl, worker, published, faults >>
-----------------------------------------------------------------------------
(* One pass of the worker.                                                 *)

Truncated == [state |-> "truncated", list |-> {}]

Goto(pc) == worker' = [worker EXCEPT !.pc = pc]

(* Intermediates whose files cannot be read are left out.                  *)
Load ==
    /\ worker.pc = "load"
    /\ \/ /\ worker' = [worker EXCEPT !.pc = "loop", !.todo = Intermediates]
          /\ UNCHANGED faults
       \/ /\ Fault
          /\ \E I \in SUBSET Intermediates :
                worker' = [worker EXCEPT !.pc = "loop", !.todo = I]
    /\ UNCHANGED << revoked, refused, crl, published >>

(* The directory cannot be read: another attempt a minute later.           *)
LoadFails ==
    /\ Fault
    /\ worker.pc = "load"
    /\ UNCHANGED << revoked, refused, crl, worker, published >>

(* Mutant of Ask: the file is opened before there is anything to write.    *)
AskWithOpenFile(i) ==
    /\ worker.pc = "loop" /\ i \in worker.todo
    /\ worker' = [worker EXCEPT !.pc = "fetch", !.at = i, !.todo = @ \ {i}]
    /\ crl' = [crl EXCEPT ![i] = Truncated]
    /\ UNCHANGED << revoked, refused, published, faults >>

Ask(i) ==
    /\ worker.pc = "loop" /\ i \in worker.todo
    /\ worker' = [worker EXCEPT !.pc = "fetch", !.at = i, !.todo = @ \ {i}]
    /\ UNCHANGED << revoked, refused, crl, published, faults >>

(* Mutant of Answer: the request does not name the intermediate.           *)
AnswerOfAll ==
    /\ worker.pc = "fetch" /\ worker.at \notin refused
    /\ worker' = [worker EXCEPT !.pc = "generate",
                                !.list = UNION {Numbers(revoked[i]) : i \in Intermediates}]
    /\ UNCHANGED << revoked, refused, crl, published, faults >>

Answer ==
    /\ worker.pc = "fetch" /\ worker.at \notin refused
    /\ worker' = [worker EXCEPT !.pc = "generate", !.list = Numbers(revoked[worker.at])]
    /\ UNCHANGED << revoked, refused, crl, published, faults >>

(* Mutant of Refusal: what cannot be decoded is taken for an empty list.   *)
RefusalIgnored ==
    /\ worker.pc = "fetch" /\ worker.at \in refused
    /\ worker' = [worker EXCEPT !.pc = "generate", !.list = {}]
    /\ UNCHANGED << revoked, refused, crl, published, faults >>

(* Mutant of Refusal: the error's own entries are passed on as the list.   *)
RefusalPassedOn ==
    /\ worker.pc = "fetch" /\ worker.at \in refused
    /\ worker' = [worker EXCEPT !.pc = "generate", !.list = {Nobody}]
    /\ UNCHANGED << revoked, refused, crl, published, faults >>

(* Mutant of Refusal: it ends the pass.                                    *)
RefusalEndsPass ==
    /\ worker.pc = "fetch" /\ worker.at \in refused
    /\ worker' = Start
    /\ UNCHANGED << revoked, refused, crl, published, faults >>

(* The backend refuses, or its answer cannot be decoded.                   *)
Refusal ==
    /\ worker.pc = "fetch" /\ worker.at \in refused
    /\ Goto("loop")
    /\ UNCHANGED << revoked, refused, crl, published, faults >>

(* The client has no timeout.                                              *)
Hang ==
    /\ Fault
    /\ worker.pc = "fetch"
    /\ Goto("hung")
    /\ UNCHANGED << revoked, refused, crl, published >>

Generate ==
    /\ worker.pc = "generate"
    /\ Goto("open")
    /\ UNCHANGED << revoked, refused, crl, published, faults >>

(* The pair of files, read once more, cannot be read, or the list not      *)
(* signed; or the CRL file cannot be opened.                               *)
GenerateFails ==
    /\ Fault
    /\ worker.pc \in {"generate", "open"}
    /\ Goto("loop")
    /\ UNCHANGED << revoked, refused, crl, published >>

(* os.WriteFile truncates the file that is being served ...                *)
Open ==
    /\ worker.pc = "open"
    /\ crl' = [crl EXCEPT ![worker.at] = Truncated]
    /\ Goto("write")
    /\ UNCHANGED << revoked, refused, published, faults >>

(* ... and then writes it.                                                 *)
Write ==
    /\ worker.pc = "write"
    /\ crl' = [crl EXCEPT ![worker.at] = [state |-> "complete", list |-> worker.list]]
    /\ published' = [published EXCEPT ![worker.at] = @ \cup worker.list]
    /\ Goto("loop")
    /\ UNCHANGED << revoked, refused, faults >>

WriteFails ==
    /\ Fault
    /\ worker.pc = "write"
    /\ Goto("loop")
    /\ UNCHANGED << revoked, refused, crl, published >>

(* The pass is over: the next one is five minutes away.                    *)
Sleep ==
    /\ worker.pc = "loop" /\ worker.todo = {}
    /\ worker' = Start
    /\ UNCHANGED << revoked, refused, crl, published, faults >>

(* The process ends and starts again: a new worker on the old files.       *)
Restart ==
    /\ Fault
    /\ worker' = Start
    /\ UNCHANGED << revoked, refused, crl, published >>

Pass ==
    \/ Load
    \/ \E i \in Intermediates : Ask(i)
    \/ Answer \/ Refusal \/ Generate \/ Open \/ Write \/ Sleep

Next ==
    \/ \E i \in Intermediates : Refuse(i) \/ \E e \in Entries : Revoke(i, e)
    \/ Pass
    \/ LoadFails \/ Hang \/ GenerateFails \/ WriteFails \/ Restart

Spec == Init /\ [][Next]_vars

(* The worker runs on: os calls return and the backend answers or refuses. *)
(* That it does not answer at all is Hang.                                 *)
FairSpec == Spec /\ WF_vars(Pass)
-----------------------------------------------------------------------------
(* Properties.                                                             *)

(* CRLHandler serves the file as it is, an empty one too.                  *)
Serves(i, state) == crl[i].state = state

(* Every number on a list is read from an entry of the intermediate's own  *)
(* list, although lists of several intermediates, which number their       *)
(* certificates independently, pass through one worker.  It is the number  *)
(* of a certificate the intermediate has revoked where the entry is        *)
(* legible; of an illegible one whatever number is left is listed          *)
(* (crl-worker.go:47-57, crl.go:44-55).                                    *)
ListsItsOwn ==
    \A i \in Intermediates : Serves(i, "complete") =>
        \A n \in crl[i].list : \E e \in revoked[i] : Value[e] = n

(* What a CRL has once listed, every later one lists: no refusal, no       *)
(* failure and no restart between fetch and write makes a revoked          *)
(* certificate valid again (crl-worker.go:49-67).                          *)
NeverForgets ==
    \A i \in Intermediates : Serves(i, "complete") => published[i] \subseteq crl[i].list

(* As long as nothing at all has failed, what is served can be read, but   *)
(* while the very file is being written (crl_handler.go:27-34,             *)
(* crl-worker.go:63).                                                      *)
ServedIsReadable ==
    \A i \in Intermediates :
        Serves(i, "truncated")
        => faults > 0 \/ (worker.pc = "write" /\ worker.at = i)

(* A revocation with a legible entry gets onto the list of its             *)
(* intermediate, whatever illegible ones stand beside it, whatever the     *)
(* backend refuses for the others, whatever failed earlier and even if it  *)
(* left a truncated file, once the backend serves this intermediate and as *)
(* long as no fetch hangs (crl-worker.go:28-74, crl.go:42-57).             *)
RevocationIsListed ==
    \A i \in Intermediates : \A e \in Legible :
        <>[](i \notin refused /\ worker.pc # "hung")
        => (e \in revoked[i] ~> Serves(i, "complete") /\ Meant[e] \in crl[i].list)
=============================================================================
