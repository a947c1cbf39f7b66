-------------------------- MODULE CrlWorkerProofs ---------------------------
(***************************************************************************)
(* Proofs about CrlWorker, for any intermediates, entries, readings of     *)
(* them and faults.  The argument: the list under the worker's hands was   *)
(* true when it was fetched and revocations are final, so it stays true    *)
(* (Held); and as no one else publishes for that intermediate in the       *)
(* meantime, it covers all that was published (Covers).                    *)
(***************************************************************************)
EXTENDS CrlWorker, TLAPS

Carrying == worker.pc \in {"generate", "open", "write"}

At == worker.pc \in {"fetch", "hung", "generate", "open", "write"} => worker.at \in Intermediates

Held == Carrying => worker.list \subseteq Numbers(revoked[worker.at])

Covers == Carrying => published[worker.at] \subseteq worker.list

FileOK(i) ==
    /\ published[i] \subseteq Numbers(revoked[i])
    /\ crl[i].state = "complete" => /\ crl[i].list \subseteq Numbers(revoked[i])
                                    /\ published[i] \subseteq crl[i].list

FilesOK == \A i \in Intermediates : FileOK(i)

IInv == TypeOK /\ At /\ Held /\ Covers /\ FilesOK

Worker ==
    [pc : {"load", "loop", "fetch", "hung", "generate", "open", "write"},
     todo : SUBSET Intermediates,
     at : Intermediates \cup {Nobody},
     list : Lists]

LEMMA StartType == Start \in Worker /\ Start.pc = "load"
    BY DEF Start, Worker, Lists

LEMMA FaultType == ASSUME TypeOK, Fault PROVE faults' \in 0..MaxFaults
    BY CrlAssumption DEF TypeOK, Fault

LEMMA InitOK == Init => IInv
<1> SUFFICES ASSUME Init PROVE IInv
    OBVIOUS
<1>1. worker = Start /\ worker \in Worker
    BY StartType DEF Init
<1>2. /\ revoked \in [Intermediates -> SUBSET Entries]
      /\ published \in [Intermediates -> Lists]
      /\ refused \subseteq Intermediates
    BY DEF Init, Lists
<1>3. crl \in [Intermediates -> File]
    BY DEF Init, File, Lists
<1>4. faults \in 0..MaxFaults
    BY CrlAssumption DEF Init
<1>5. TypeOK
    BY <1>1, <1>2, <1>3, <1>4 DEF TypeOK, Worker
<1>6. At /\ Held /\ Covers
    BY <1>1, StartType DEF At, Held, Covers, Carrying
<1>7. FilesOK
    BY DEF Init, FilesOK, FileOK
<1> QED
    BY <1>5, <1>6, <1>7 DEF IInv

(* A step of the worker that leaves the files alone and ends up without a  *)
(* list.                                                                   *)
LEMMA Empty ==
    ASSUME IInv,
           UNCHANGED << revoked, crl, published >>,
           refused' \subseteq Intermediates,
           faults' \in 0..MaxFaults,
           worker' \in Worker,
           worker'.pc \in {"load", "loop", "fetch", "hung"},
           worker'.pc \in {"fetch", "hung"} => worker'.at \in Intermediates
    PROVE  IInv'
<1>1. TypeOK'
    BY DEF IInv, TypeOK, Worker
<1>2. At' /\ Held' /\ Covers'
    BY DEF At, Held, Covers, Carrying
<1>3. FilesOK'
    BY DEF IInv, FilesOK, FileOK
<1> QED
    BY <1>1, <1>2, <1>3 DEF IInv

(* A step that keeps the list the worker carries, or fetches it.           *)
LEMMA Carried ==
    ASSUME IInv,
           UNCHANGED << revoked, refused, crl, published >>,
           faults' \in 0..MaxFaults,
           worker' \in Worker,
           Carrying',
           worker'.at \in Intermediates,
           worker'.list \subseteq Numbers(revoked[worker'.at]),
           published[worker'.at] \subseteq worker'.list
    PROVE  IInv'
<1>1. TypeOK'
    BY DEF IInv, TypeOK, Worker
<1>2. At' /\ Held' /\ Covers'
    BY DEF At, Held, Covers, Carrying
<1>3. FilesOK'
    BY DEF IInv, FilesOK, FileOK
<1> QED
    BY <1>1, <1>2, <1>3 DEF IInv

LEMMA NumbersType == ASSUME NEW E \in SUBSET Entries PROVE Numbers(E) \in Lists
    BY ListAssumption DEF Numbers, Lists

LEMMA StepRevoke == ASSUME IInv, NEW i \in Intermediates, NEW e \in Entries, Revoke(i, e)
                    PROVE  IInv'
<1>1. /\ revoked' = [revoked EXCEPT ![i] = @ \cup {e}]
      /\ UNCHANGED << refused, crl, worker, published, faults >>
    BY DEF Revoke
<1>2. revoked' \in [Intermediates -> SUBSET Entries]
    BY <1>1 DEF IInv, TypeOK
<1>3. ASSUME NEW j \in Intermediates PROVE Numbers(revoked[j]) \subseteq Numbers(revoked'[j])
    <2>1. revoked[j] \subseteq revoked'[j]
        BY <1>1 DEF IInv, TypeOK
    <2> QED
        BY <2>1 DEF Numbers
<1>4. TypeOK'
    BY <1>1, <1>2 DEF IInv, TypeOK
<1>5. At'
    BY <1>1 DEF IInv, At
<1>6. Held' /\ Covers'
    BY <1>1, <1>3 DEF IInv, At, Held, Covers, Carrying
<1>7. FilesOK'
    BY <1>1, <1>3 DEF IInv, FilesOK, FileOK
<1> QED
    BY <1>4, <1>5, <1>6, <1>7 DEF IInv

LEMMA StepRefuse == ASSUME IInv, NEW i \in Intermediates, Refuse(i) PROVE IInv'
<1>1. refused' \subseteq Intermediates /\ UNCHANGED << revoked, crl, worker, published, faults >>
    BY DEF Refuse, IInv, TypeOK
<1>2. TypeOK'
    BY <1>1 DEF IInv, TypeOK
<1>3. (At /\ Held /\ Covers /\ FilesOK)'
    BY <1>1 DEF IInv, At, Held, Covers, Carrying, FilesOK, FileOK
<1> QED
    BY <1>2, <1>3 DEF IInv

LEMMA StepLoad == ASSUME IInv, Load PROVE IInv'
<1>1. worker \in Worker /\ UNCHANGED << revoked, refused, crl, published >>
    BY DEF IInv, TypeOK, Worker, Load
<1>2. faults' \in 0..MaxFaults
    BY FaultType DEF Load, IInv, TypeOK
<1>3. worker' \in Worker /\ worker'.pc = "loop"
    BY <1>1 DEF Load, Worker
<1> QED
    BY <1>1, <1>2, <1>3, Empty DEF IInv, TypeOK

LEMMA StepAsk == ASSUME IInv, NEW i \in Intermediates, Ask(i) PROVE IInv'
<1>1. worker \in Worker /\ UNCHANGED << revoked, refused, crl, published, faults >>
    BY DEF IInv, TypeOK, Worker, Ask
<1>2. worker' \in Worker /\ worker'.pc = "fetch" /\ worker'.at = i
    BY <1>1 DEF Ask, Worker
<1> QED
    BY <1>1, <1>2, Empty DEF IInv, TypeOK

LEMMA StepAnswer == ASSUME IInv, Answer PROVE IInv'
<1>1. /\ worker \in Worker /\ worker.at \in Intermediates
      /\ UNCHANGED << revoked, refused, crl, published, faults >>
    BY DEF IInv, TypeOK, Worker, At, Answer
<1>2. Numbers(revoked[worker.at]) \in Lists
    BY <1>1, NumbersType DEF IInv, TypeOK
<1>3. /\ worker' \in Worker
      /\ worker'.pc = "generate" /\ worker'.at = worker.at
      /\ worker'.list = Numbers(revoked[worker.at])
    BY <1>1, <1>2 DEF Answer, Worker
<1>4. published[worker.at] \subseteq Numbers(revoked[worker.at])
    BY <1>1 DEF IInv, FilesOK, FileOK
<1>5. Carrying'
    BY <1>3 DEF Carrying
<1>6. faults' \in 0..MaxFaults
    BY <1>1 DEF IInv, TypeOK
<1> QED
    BY <1>1, <1>3, <1>4, <1>5, <1>6, Carried

LEMMA StepOut ==
    ASSUME IInv, Refusal \/ Hang \/ GenerateFails \/ WriteFails
    PROVE  IInv'
<1>1. worker \in Worker /\ UNCHANGED << revoked, refused, crl, published >>
    BY DEF IInv, TypeOK, Worker, Refusal, Hang, GenerateFails, WriteFails
<1>2. faults' \in 0..MaxFaults
    BY FaultType DEF IInv, TypeOK, Refusal, Hang, GenerateFails, WriteFails
<1>3. worker' \in Worker /\ worker'.pc \in {"loop", "hung"} /\ worker'.at = worker.at
    BY <1>1 DEF Worker, Refusal, Hang, GenerateFails, WriteFails, Goto
<1>4. worker'.pc = "hung" => worker.at \in Intermediates
    BY <1>1, <1>3 DEF IInv, At, Refusal, Hang, GenerateFails, WriteFails, Goto, Worker
<1> QED
    BY <1>1, <1>2, <1>3, <1>4, Empty DEF IInv, TypeOK

LEMMA StepGenerate == ASSUME IInv, Generate PROVE IInv'
<1>1. /\ worker \in Worker /\ Carrying
      /\ UNCHANGED << revoked, refused, crl, published, faults >>
    BY DEF IInv, TypeOK, Worker, Generate, Carrying
<1>2. /\ worker' \in Worker /\ worker'.pc = "open"
      /\ worker'.at = worker.at /\ worker'.list = worker.list
    BY <1>1 DEF Generate, Goto, Worker
<1>3. worker.at \in Intermediates
    BY <1>1 DEF IInv, At, Carrying
<1>4. worker.list \subseteq Numbers(revoked[worker.at]) /\ published[worker.at] \subseteq worker.list
    BY <1>1 DEF IInv, Held, Covers
<1>5. Carrying'
    BY <1>2 DEF Carrying
<1>6. faults' \in 0..MaxFaults
    BY <1>1 DEF IInv, TypeOK
<1> QED
    BY <1>1, <1>2, <1>3, <1>4, <1>5, <1>6, Carried

LEMMA StepOpen == ASSUME IInv, Open PROVE IInv'
<1>1. /\ worker \in Worker /\ worker.pc = "open"
      /\ crl' = [crl EXCEPT ![worker.at] = Truncated]
      /\ UNCHANGED << revoked, refused, published, faults >>
    BY DEF IInv, TypeOK, Worker, Open
<1>2. /\ worker' \in Worker /\ worker'.pc = "write"
      /\ worker'.at = worker.at /\ worker'.list = worker.list
    BY <1>1 DEF Open, Goto, Worker
<1>3. Truncated \in File /\ Truncated.state # "complete"
    BY DEF Truncated, File, Lists
<1>4. crl' \in [Intermediates -> File]
    BY <1>1, <1>3 DEF IInv, TypeOK
<1>5. \A i \in Intermediates : crl'[i] = crl[i] \/ crl'[i].state # "complete"
    BY <1>1, <1>3 DEF IInv, TypeOK
<1>6. TypeOK'
    BY <1>1, <1>2, <1>4 DEF IInv, TypeOK, Worker
<1>7. At' /\ Held' /\ Covers'
    BY <1>1, <1>2 DEF IInv, At, Held, Covers, Carrying
<1>8. FilesOK'
    BY <1>1, <1>5 DEF IInv, FilesOK, FileOK
<1> QED
    BY <1>6, <1>7, <1>8 DEF IInv

LEMMA StepWrite == ASSUME IInv, Write PROVE IInv'
<1> DEFINE i == worker.at
           l == worker.list
<1>1. /\ worker \in Worker /\ worker.pc = "write"
      /\ crl' = [crl EXCEPT ![i] = [state |-> "complete", list |-> l]]
      /\ published' = [published EXCEPT ![i] = @ \cup l]
      /\ UNCHANGED << revoked, refused, faults >>
    BY DEF IInv, TypeOK, Worker, Write
<1>2. worker' \in Worker /\ worker'.pc = "loop"
    BY <1>1 DEF Write, Goto, Worker
<1>3. i \in Intermediates /\ l \in Lists /\ l \subseteq Numbers(revoked[i]) /\ published[i] \subseteq l
    BY <1>1 DEF IInv, At, Held, Covers, Carrying, Worker
<1>4. [state |-> "complete", list |-> l] \in File
    BY <1>3 DEF File
<1>5. crl' \in [Intermediates -> File]
    BY <1>1, <1>4 DEF IInv, TypeOK
<1>6. published[i] \cup l = l
    BY <1>3
<1>7. published' = [published EXCEPT ![i] = l]
    BY <1>1, <1>6
<1>8. published' \in [Intermediates -> Lists]
    BY <1>3, <1>7 DEF IInv, TypeOK
<1>9. TypeOK'
    BY <1>1, <1>2, <1>5, <1>8 DEF IInv, TypeOK, Worker
<1>10. At' /\ Held' /\ Covers'
    BY <1>2 DEF At, Held, Covers, Carrying
<1>11. ASSUME NEW j \in Intermediates PROVE FileOK(j)'
    <2>1. CASE j = i
        <3>1. crl'[j] = [state |-> "complete", list |-> l] /\ published'[j] = l
            BY <1>1, <1>3, <1>7, <2>1 DEF IInv, TypeOK
        <3> QED
            BY <1>1, <1>3, <2>1, <3>1 DEF FileOK
    <2>2. CASE j # i
        <3>1. crl'[j] = crl[j] /\ published'[j] = published[j] /\ FileOK(j)
            BY <1>1, <1>7, <2>2 DEF IInv, TypeOK, FilesOK
        <3> QED
            BY <1>1, <3>1 DEF FileOK
    <2> QED
        BY <2>1, <2>2
<1> QED
    BY <1>9, <1>10, <1>11 DEF IInv, FilesOK

LEMMA StepStart == ASSUME IInv, LoadFails \/ Sleep \/ Restart PROVE IInv'
<1>1. worker \in Worker /\ UNCHANGED << revoked, refused, crl, published >>
    BY DEF IInv, TypeOK, Worker, LoadFails, Sleep, Restart
<1>2. faults' \in 0..MaxFaults
    BY FaultType DEF IInv, TypeOK, LoadFails, Sleep, Restart
<1>3. worker' \in Worker /\ worker'.pc = "load"
    BY <1>1, StartType DEF LoadFails, Sleep, Restart
<1> QED
    BY <1>1, <1>2, <1>3, Empty DEF IInv, TypeOK

LEMMA Stutter == ASSUME IInv, UNCHANGED vars PROVE IInv'
    BY DEF IInv, vars, TypeOK, At, Held, Covers, Carrying, FilesOK, FileOK

LEMMA Invariance == Spec => []IInv
<1>1. ASSUME IInv, [Next]_vars PROVE IInv'
    BY <1>1, StepRevoke, StepRefuse, StepLoad, StepAsk, StepAnswer, StepOut, StepGenerate,
       StepOpen, StepWrite, StepStart, Stutter DEF Next, Pass
<1> QED
    BY <1>1, InitOK, PTL DEF Spec

(* The worker's state and the files have their types.                      *)
THEOREM TypeCorrect == Spec => []TypeOK
<1>1. IInv => TypeOK
    BY DEF IInv
<1> QED
    BY <1>1, Invariance, PTL

(* Every number on a CRL is read from an entry of its own intermediate's   *)
(* list (crl-worker.go:47-57, crl.go:44-55).                               *)
THEOREM AlwaysListsItsOwn == Spec => []ListsItsOwn
<1>1. IInv => ListsItsOwn
    <2> SUFFICES ASSUME IInv, NEW i \in Intermediates, Serves(i, "complete")
                 PROVE  \A n \in crl[i].list : \E e \in revoked[i] : Value[e] = n
        BY DEF ListsItsOwn
    <2>1. crl[i].list \subseteq Numbers(revoked[i])
        BY DEF IInv, FilesOK, FileOK, Serves
    <2> QED
        BY <2>1 DEF Numbers
<1> QED
    BY <1>1, Invariance, PTL

(* What was once on a CRL is on every later one (crl-worker.go:49-67).     *)
THEOREM NeverForgetsARevocation == Spec => []NeverForgets
<1>1. IInv => NeverForgets
    BY DEF IInv, FilesOK, FileOK, NeverForgets, Serves
<1> QED
    BY <1>1, Invariance, PTL

(* Before the first fault, a file that cannot be read is the one under the *)
(* worker's hands.                                                         *)
ReadableInv ==
    /\ TypeOK /\ At
    /\ \A i \in Intermediates :
          crl[i].state = "truncated"
          => faults > 0 \/ (worker.pc = "write" /\ worker.at = i)

(* A CRL that is served can be read, but while it is being written or      *)
(* after a fault (crl_handler.go:27-34, crl-worker.go:63).                 *)
THEOREM ServedAlwaysReadable == Spec => []ServedIsReadable
<1>1. Init => ReadableInv
    BY InitOK DEF Init, IInv, ReadableInv
<1>2. ASSUME IInv, IInv', ReadableInv, [Next]_vars PROVE ReadableInv'
    <2> DEFINE Under(i) == faults > 0 \/ (worker.pc = "write" /\ worker.at = i)
    <2>1. SUFFICES ASSUME NEW i \in Intermediates, (crl[i].state = "truncated")'
                   PROVE  Under(i)'
        BY <1>2 DEF IInv, ReadableInv
    <2>2. CASE Open
        BY <1>2, <2>1, <2>2 DEF Open, Goto, IInv, TypeOK, At, ReadableInv
    <2>3. CASE Write
        BY <1>2, <2>1, <2>3 DEF Write, Goto, IInv, TypeOK, At, ReadableInv
    <2>4. CASE Fault
        BY <1>2, <2>4 DEF Fault, IInv, TypeOK
    <2>5. CASE ~ Fault /\ worker.pc # "write" /\ UNCHANGED << crl, faults >>
        BY <1>2, <2>1, <2>5 DEF ReadableInv
    <2>6. CASE UNCHANGED << crl, worker, faults >>
        BY <1>2, <2>1, <2>6 DEF ReadableInv
    <2> QED
        BY <1>2, <2>2, <2>3, <2>4, <2>5, <2>6
        DEF Next, Pass, Revoke, Refuse, Load, LoadFails, Ask, Answer, Refusal, Hang,
            Generate, GenerateFails, WriteFails, Sleep, Restart, vars
<1>3. ReadableInv => ServedIsReadable
    BY DEF ReadableInv, ServedIsReadable, Serves
<1> QED
    BY <1>1, <1>2, <1>3, Invariance, PTL DEF Spec
=============================================================================
