-------------------------- MODULE AcmeOutcomeProofs --------------------------
(***************************************************************************)
(* What becomes of the results of validations in AcmeOrder when no storage *)
(* error and no crash intervenes: they reach the files of the              *)
(* authorizations, however the goroutines overlap, and, as long as one     *)
(* goroutine runs at a time, the status of the order.  The last part is    *)
(* about the result of a finalize, with errors and crashes: the order      *)
(* names a certificate for good.                                           *)
(***************************************************************************)
EXTENDS AcmeOrderProofs

(* What each step of a goroutine does to it, field by field.               *)
Others(v) == \A w \in Validations \ {v} : validation'[w] = validation[w]

LEMMA JobPicked ==
  ASSUME Shape, NEW v \in Validations
  PROVE  /\ validation[v] \in Job(validation[v].ix)
         /\ validation[v].ix \in Identifiers
         /\ \A new : validation' = [validation EXCEPT ![v] = new] =>
               validation'[v] = new /\ Others(v)
BY DEF Shape, TypeOK, JobShape, Others

LEMMA PostMoves ==
  ASSUME Shape, NEW v \in Validations, NEW c \in ChallengeIds, PostChallenge(v, c[1], c[2])
  PROVE  /\ Others(v) /\ validation[v].pc = "idle" /\ validation'[v].pc = "validate"
         /\ create.pc = "done"
         /\ UNCHANGED << files, issued, create, finalize, proved, faults >>
<1>1. PICK doc : validation' = [validation EXCEPT ![v] =
                   [IdleJob EXCEPT !.pc = "validate", !.ix = c[1], !.type = c[2], !.authz = doc]]
  BY DEF PostChallenge
<1>2. validation'[v] = [IdleJob EXCEPT !.pc = "validate", !.ix = c[1], !.type = c[2],
                                       !.authz = doc] /\ Others(v)
  BY <1>1, JobPicked
<1>3. validation'[v].pc = "validate"
  BY <1>2, IdleShape DEF Job
<1> QED BY <1>2, <1>3 DEF PostChallenge, pki

LEMMA ValidateMoves ==
  ASSUME Shape, NEW v \in Validations, NEW ok \in BOOLEAN, Validate(v, ok)
  PROVE  /\ Others(v) /\ validation[v].pc = "validate" /\ validation'[v].pc = "saveAuthz"
         /\ validation'[v].ix = validation[v].ix
         /\ validation'[v].authz.status # "pending"
         /\ \E t : proved' = proved \/ proved' = proved \cup {<< validation[v].ix, t >>}
         /\ UNCHANGED << files, issued, create, finalize, faults >>
<1>0. PICK job, doc : job = validation[v] /\ doc = Judged(job.authz, job.type, ok)
  OBVIOUS
<1>1. /\ job \in Job(job.ix) /\ job.ix \in Identifiers
      /\ job.authz \in AuthzDoc(job.ix) /\ job.type \in Offered(job.ix)
  BY <1>0 DEF Validate, Shape, JobShape
<1>2. doc.status # "pending"
  BY <1>0, <1>1, JudgedType
<1>3. validation'[v] = [job EXCEPT !.pc = "saveAuthz", !.authz = doc] /\ Others(v)
  BY <1>0, JobPicked DEF Validate
<1>4. /\ validation'[v].pc = "saveAuthz" /\ validation'[v].ix = job.ix
      /\ validation'[v].authz = doc
  BY <1>1, <1>3 DEF Job
<1>5. proved' = proved \/ proved' = proved \cup {<< job.ix, job.type >>}
  BY <1>0 DEF Validate
<1> QED BY <1>0, <1>2, <1>3, <1>4, <1>5 DEF Validate, pki

LEMMA TruncateMoves ==
  ASSUME Shape, NEW v \in Validations, TruncateAuthz(v)
  PROVE  /\ Others(v) /\ validation[v].pc = "saveAuthz" /\ validation'[v].pc = "writeAuthz"
         /\ validation'[v].ix = validation[v].ix
         /\ validation'[v].authz = validation[v].authz
         /\ authzFile'[validation[v].ix] = Empty
         /\ \A i \in Identifiers \ {validation[v].ix} : authzFile'[i] = authzFile[i]
         /\ UNCHANGED << orderFile, issued, create, finalize, proved, faults >>
BY JobPicked DEF TruncateAuthz, Shape, TypeOK, Job, pki

LEMMA WriteMoves ==
  ASSUME Shape, NEW v \in Validations, WriteAuthz(v)
  PROVE  /\ Others(v) /\ validation[v].pc = "writeAuthz" /\ validation'[v].pc = "loadOrder"
         /\ authzFile'[validation[v].ix] \in {validation[v].authz, Garbled}
         /\ authzFile[validation[v].ix] = Empty =>
               authzFile'[validation[v].ix] = validation[v].authz
         /\ validation[v].authz \in AuthzDoc(validation[v].ix)
         /\ \A i \in Identifiers \ {validation[v].ix} : authzFile'[i] = authzFile[i]
         /\ UNCHANGED << orderFile, issued, create, finalize, proved, faults >>
<1>1. PICK job : job = validation[v]
  OBVIOUS
<1>2. job.ix \in Identifiers /\ job.authz \in AuthzDoc(job.ix)
  BY <1>1 DEF WriteAuthz, Shape, JobShape
<1>3. PICK file \in LandingAuthz(authzFile[job.ix], job.authz) :
           authzFile' = [authzFile EXCEPT ![job.ix] = file]
  BY <1>1 DEF WriteAuthz
<1>4. file \in {job.authz, Garbled} /\ (authzFile[job.ix] = Empty => file = job.authz)
  BY <1>3 DEF LandingAuthz
<1>5. validation'[v] = [IdleJob EXCEPT !.pc = "loadOrder"] /\ Others(v)
  BY JobPicked DEF WriteAuthz
<1>6. validation'[v].pc = "loadOrder"
  BY <1>5, IdleShape DEF Job
<1> QED BY <1>1, <1>2, <1>3, <1>4, <1>5, <1>6 DEF WriteAuthz, Shape, TypeOK, pki

LEMMA LoadMoves ==
  ASSUME Shape, NEW v \in Validations, LoadOrder(v)
  PROVE  /\ Others(v) /\ validation[v].pc = "loadOrder"
         /\ \/ ~ Readable(orderFile) /\ validation'[v].pc = "idle"
            \/ /\ Readable(orderFile) /\ validation'[v].pc = "scan"
               /\ validation'[v].order = orderFile /\ validation'[v].next = 1
               /\ validation'[v].allValid = TRUE /\ validation'[v].anyInvalid = FALSE
         /\ UNCHANGED << files, issued, create, finalize, proved, faults >>
<1>1. CASE Readable(orderFile)
  <2>1. validation'[v] = [IdleJob EXCEPT !.pc = "scan", !.order = orderFile] /\ Others(v)
    BY <1>1, JobPicked DEF LoadOrder
  <2>2. IdleJob.next = 1 /\ IdleJob.allValid = TRUE /\ IdleJob.anyInvalid = FALSE
    BY DEF IdleJob
  <2>3. /\ validation'[v].pc = "scan" /\ validation'[v].order = orderFile
        /\ validation'[v].next = 1
        /\ validation'[v].allValid = TRUE /\ validation'[v].anyInvalid = FALSE
    BY <2>1, <2>2, IdleShape DEF Job
  <2> QED BY <1>1, <2>1, <2>3 DEF LoadOrder, pki
<1>2. CASE ~ Readable(orderFile)
  BY <1>2, JobPicked, IdlePc DEF LoadOrder, pki
<1> QED BY <1>1, <1>2

LEMMA ScanMoves ==
  ASSUME Shape, NEW v \in Validations, ScanAuthz(v)
  PROVE  LET job == validation[v]
             new == validation'[v]
         IN  /\ Others(v) /\ job.pc = "scan"
             /\ new.pc = (IF job.next = N THEN "saveOrder" ELSE "scan")
             /\ job.next \in Identifiers /\ new.next = job.next + 1
             /\ new.order = job.order
             /\ new.allValid <=> job.allValid /\ CountsAsValid(authzFile[job.next])
             /\ new.anyInvalid <=> job.anyInvalid \/ CountsAsInvalid(authzFile[job.next])
             /\ UNCHANGED << files, issued, create, finalize, proved, faults >>
<1>1. PICK job, a, b, pc :
         /\ job = validation[v]
         /\ a = (job.allValid /\ CountsAsValid(authzFile[job.next]))
         /\ b = (job.anyInvalid \/ CountsAsInvalid(authzFile[job.next]))
         /\ pc = IF job.next = N THEN "saveOrder" ELSE "scan"
  OBVIOUS
<1>2. job \in Job(job.ix) /\ job.pc = "scan" /\ job.next <= N
  BY <1>1 DEF ScanAuthz, Shape, JobShape
<1>3. validation'[v] = [job EXCEPT !.pc = pc, !.next = job.next + 1,
                                   !.allValid = a, !.anyInvalid = b] /\ Others(v)
  BY <1>1, JobPicked DEF ScanAuthz
<1>4. /\ validation'[v].pc = pc /\ validation'[v].next = job.next + 1
      /\ validation'[v].order = job.order
      /\ validation'[v].allValid = a /\ validation'[v].anyInvalid = b
  BY <1>2, <1>3 DEF Job
<1>5. job.next \in Identifiers
  BY <1>2, OrderAssumption DEF Job, Identifiers
<1>6. UNCHANGED << files, issued, create, finalize, proved, faults >>
  BY DEF ScanAuthz, pki
<1> QED BY <1>1, <1>2, <1>3, <1>4, <1>5, <1>6

LEMMA TruncateOrderMoves ==
  ASSUME Shape, NEW v \in Validations, TruncateOrder(v)
  PROVE  LET job == validation[v]
             new == validation'[v]
         IN  /\ Others(v) /\ job.pc = "saveOrder" /\ new.pc = "writeOrder"
             /\ new.order.status = Verdict(job.order.status, job.allValid, job.anyInvalid)
             /\ orderFile' = Empty
             /\ UNCHANGED << authzFile, issued, create, finalize, proved, faults >>
<1>1. PICK job, s, order :
         /\ job = validation[v]
         /\ s = Verdict(job.order.status, job.allValid, job.anyInvalid)
         /\ order = [job.order EXCEPT !.status = s]
  OBVIOUS
<1>2. job.order \in OrderDoc
  BY <1>1 DEF TruncateOrder, Shape, JobShape
<1>3. order.status = s
  BY <1>1, <1>2 DEF OrderDoc
<1>4. validation'[v] = [IdleJob EXCEPT !.pc = "writeOrder", !.order = order] /\ Others(v)
  BY <1>1, JobPicked DEF TruncateOrder
<1>5. validation'[v].pc = "writeOrder" /\ validation'[v].order = order
  BY <1>4, IdleShape DEF Job
<1>6. UNCHANGED << authzFile, issued, create, finalize, proved, faults >>
  BY DEF TruncateOrder, pki
<1> QED BY <1>1, <1>3, <1>4, <1>5, <1>6 DEF TruncateOrder

LEMMA WriteOrderMoves ==
  ASSUME Shape, NEW v \in Validations, WriteOrder(v)
  PROVE  /\ Others(v) /\ validation[v].pc = "writeOrder" /\ validation'[v].pc = "idle"
         /\ orderFile' \in {validation[v].order, Garbled}
         /\ orderFile = Empty => orderFile' = validation[v].order
         /\ validation[v].order \in OrderDoc
         /\ UNCHANGED << authzFile, issued, create, finalize, proved, faults >>
BY JobPicked, IdlePc DEF WriteOrder, LandingOrder, Shape, JobShape, pki

(* Everything else a step can do, if it is not a fault.                    *)
FinalizeStep ==
  \E f \in Finalizes :
     \/ StartFinalize(f) \/ RejectFinalize(f)
     \/ \E c \in Certs : Sign(f, c) \/ StoreFails(f, c)
     \/ ChainFails(f) \/ SaveCert(f)
     \/ TruncateFinalized(f) \/ WriteFinalized(f) \/ SaveFinalizedFails(f)

LEMMA FinalizeMoves ==
  ASSUME Shape, FinalizeStep
  PROVE  /\ UNCHANGED << authzFile, create, validation, proved >>
         /\ create.pc = "done" \/ \E f \in Finalizes : finalize[f].pc # "idle"
         /\ \/ UNCHANGED << orderFile, issued, faults >>
            \/ faults' = faults + 1
            \/ issued' # {}
            \/ \E f \in Finalizes : finalize[f].pc \in {"chain", "saveOrder", "writeOrder"}
BY DEF FinalizeStep, StartFinalize, RejectFinalize, Sign, StoreFails, ChainFails, SaveCert,
       TruncateFinalized, WriteFinalized, SaveFinalizedFails, Fault, files, pki

LEMMA IssuedOnlyGrows == [Next]_vars => issued \subseteq issued'
BY DEF Next, vars, pki, SaveNewAuthz, SaveNewOrder, NewOrderFails, PostChallenge, Validate,
       TruncateAuthz, WriteAuthz, SaveAuthzFails, LoadOrder, ScanAuthz, TruncateOrder,
       WriteOrder, SaveOrderFails, StartFinalize, RejectFinalize, Sign, StoreFails, ChainFails,
       SaveCert, TruncateFinalized, WriteFinalized, SaveFinalizedFails, Notified, NotifyLost,
       Crash

LEMMA FinalizeFaults == FinalizeStep => faults' \in {faults, faults + 1}
BY DEF FinalizeStep, StartFinalize, RejectFinalize, Sign, StoreFails, ChainFails, SaveCert,
       TruncateFinalized, WriteFinalized, SaveFinalizedFails, Fault

LEMMA NextDivided ==
  ASSUME Next
  PROVE  \/ SaveNewAuthz \/ SaveNewOrder
         \/ \E v \in Validations, c \in ChallengeIds : PostChallenge(v, c[1], c[2])
         \/ \E v \in Validations, ok \in BOOLEAN : Validate(v, ok)
         \/ \E v \in Validations : TruncateAuthz(v) \/ WriteAuthz(v)
         \/ \E v \in Validations : LoadOrder(v) \/ ScanAuthz(v)
         \/ \E v \in Validations : TruncateOrder(v) \/ WriteOrder(v)
         \/ FinalizeStep
         \/ (\E c \in Certs : Notified(c))
         \/ faults' = faults + 1
BY DEF Next, FinalizeStep, NewOrderFails, SaveAuthzFails, SaveOrderFails, NotifyLost, Crash,
       Fault

(* What the invariants here say of a run without faults holds again after  *)
(* a fault because it is one.                                              *)
LEMMA FaultsOnlyGrow == Shape /\ [Next]_vars => faults \in Nat /\ faults' \in {faults, faults + 1}
<1> SUFFICES ASSUME Shape, [Next]_vars
             PROVE  faults \in Nat /\ faults' \in {faults, faults + 1}
  OBVIOUS
<1>1. faults \in Nat
  BY OrderAssumption DEF Shape, TypeOK
<1>2. CASE UNCHANGED vars
  BY <1>1, <1>2 DEF vars
<1>3. CASE Next
  BY <1>1, <1>3, NextDivided, FinalizeFaults
  DEF SaveNewAuthz, SaveNewOrder, PostChallenge, Validate, TruncateAuthz, WriteAuthz,
      LoadOrder, ScanAuthz, TruncateOrder, WriteOrder, Notified
<1> QED BY <1>1, <1>2, <1>3
-----------------------------------------------------------------------------
(* A result that is not on disk yet is held by a goroutine that has        *)
(* decided; a file is truncated only while such a goroutine is about to    *)
(* write it.                                                               *)
Writing(i) ==
    \E v \in Validations :
       validation[v].pc \in {"saveAuthz", "writeAuthz"} /\ validation[v].ix = i

Decided(file) == file # Empty /\ (Readable(file) => file.status # "pending")

Landed ==
    /\ create.pc # "done" => proved = {} /\ \A i \in Identifiers : authzFile[i] # Empty
    /\ \A v \in Validations : validation[v].pc \in {"saveAuthz", "writeAuthz"} =>
          validation[v].authz.status # "pending"
    /\ \A i \in Identifiers :
          /\ authzFile[i] = Empty => \E v \in Validations : /\ validation[v].pc = "writeAuthz"
                                                          /\ validation[v].ix = i
          /\ Proved(i) => Writing(i) \/ Decided(authzFile[i])

LandedInv == faults = 0 => Landed

LEMMA LandedUntouched ==
  ASSUME Landed, UNCHANGED << authzFile, proved >>, create' = create \/ create'.pc = "done",
         \A v \in Validations :
            \/ validation'[v] = validation[v]
            \/ /\ validation[v].pc \notin {"saveAuthz", "writeAuthz"}
               /\ validation'[v].pc \notin {"saveAuthz", "writeAuthz"}
  PROVE  Landed'
<1>1. \A i \in Identifiers : Writing(i) => Writing(i)'
  BY DEF Writing
<1>2. \A i \in Identifiers : Proved(i)' => Proved(i)
  BY DEF Proved
<1>3. \A i \in Identifiers : Decided(authzFile[i]) => Decided(authzFile[i])'
  BY DEF Decided, Readable
<1> QED BY <1>1, <1>2, <1>3 DEF Landed

LEMMA NextLanded == Shape /\ CompleteInv /\ LandedInv /\ [Next]_vars => LandedInv'
<1> SUFFICES ASSUME Shape, CompleteInv, LandedInv, [Next]_vars, faults' = 0
             PROVE  Landed'
  BY DEF LandedInv
<1>0. Landed /\ faults = 0
  BY FaultsOnlyGrow DEF LandedInv
<1>1. CASE SaveNewAuthz
  <2>1. PICK k : k = create.next
    OBVIOUS
  <2>2. k \in Identifiers /\ NewAuthz(k) \in AuthzDoc(k)
    BY <1>1, <2>1, NewAuthzType DEF SaveNewAuthz, Shape, TypeOK, Identifiers
  <2>3. NewAuthz(k) # Empty
    BY <2>2, FileAssumption DEF NoDoc
  <2>4. \A i \in Identifiers : authzFile'[i] # Empty
    BY <1>0, <1>1, <2>1, <2>2, <2>3 DEF SaveNewAuthz, Landed, Shape, TypeOK
  <2>5. \A i \in Identifiers : ~ Proved(i)'
    BY <1>0, <1>1 DEF SaveNewAuthz, Landed, Proved
  <2> QED BY <1>0, <1>1, <2>4, <2>5 DEF SaveNewAuthz, Landed
<1>2. CASE SaveNewOrder
  <2>1. create'.pc = "done"
    BY <1>2 DEF SaveNewOrder, Shape, TypeOK
  <2> QED BY <1>0, <1>2, <2>1, LandedUntouched DEF SaveNewOrder
<1>3. ASSUME NEW v \in Validations, NEW c \in ChallengeIds, PostChallenge(v, c[1], c[2])
      PROVE  Landed'
  BY <1>0, <1>3, PostMoves, LandedUntouched DEF Others, files
<1>4. ASSUME NEW v \in Validations, NEW ok \in BOOLEAN, Validate(v, ok) PROVE Landed'
  <2>0. PICK k : k = validation[v].ix
    OBVIOUS
  <2>1. /\ Others(v) /\ validation[v].ix = k
        /\ validation[v].pc = "validate" /\ validation'[v].pc = "saveAuthz"
        /\ validation'[v].ix = k /\ validation'[v].authz.status # "pending"
        /\ UNCHANGED << authzFile, create >>
    BY <1>4, <2>0, ValidateMoves DEF files
  <2>2. create.pc = "done"
    BY <2>1 DEF CompleteInv, Busy
  <2>3. \A i \in Identifiers : Writing(i) => Writing(i)'
    BY <2>1 DEF Writing, Others
  <2>4. Writing(k)'
    BY <2>1 DEF Writing
  <2>5. \A i \in Identifiers \ {k} : Proved(i)' => Proved(i)
    BY <1>4, <2>0, ValidateMoves DEF Proved
  <2>6. \A i \in Identifiers : Proved(i)' => Writing(i)' \/ Decided(authzFile[i])'
    BY <1>0, <2>1, <2>3, <2>4, <2>5 DEF Landed, Decided, Readable
  <2>7. \A i \in Identifiers : authzFile'[i] = Empty =>
           \E w \in Validations : validation'[w].pc = "writeAuthz" /\ validation'[w].ix = i
    BY <1>0, <2>1 DEF Landed, Others
  <2>8. \A w \in Validations : validation'[w].pc \in {"saveAuthz", "writeAuthz"} =>
           validation'[w].authz.status # "pending"
    BY <1>0, <2>1 DEF Landed, Others
  <2> QED BY <2>1, <2>2, <2>6, <2>7, <2>8 DEF Landed
<1>5. ASSUME NEW v \in Validations, TruncateAuthz(v) PROVE Landed'
  <2>0. PICK k : k = validation[v].ix
    OBVIOUS
  <2>1. /\ Others(v) /\ validation[v].ix = k
        /\ validation[v].pc = "saveAuthz" /\ validation'[v].pc = "writeAuthz"
        /\ validation'[v].ix = k /\ validation'[v].authz = validation[v].authz
        /\ authzFile'[k] = Empty
        /\ \A i \in Identifiers \ {k} : authzFile'[i] = authzFile[i]
        /\ UNCHANGED << create, proved >>
    BY <1>5, <2>0, TruncateMoves
  <2>2. create.pc = "done"
    BY <2>1 DEF CompleteInv, Busy
  <2>3. \A i \in Identifiers : Writing(i) => Writing(i)'
    BY <2>1 DEF Writing, Others
  <2>4. Writing(k)' /\ \A i \in Identifiers : Proved(i)' => Proved(i)
    BY <2>1 DEF Writing, Proved
  <2>5. \A i \in Identifiers : Proved(i)' => Writing(i)' \/ Decided(authzFile[i])'
    BY <1>0, <2>1, <2>3, <2>4 DEF Landed, Decided, Readable
  <2>6. \A i \in Identifiers : authzFile'[i] = Empty =>
           \E w \in Validations : validation'[w].pc = "writeAuthz" /\ validation'[w].ix = i
    BY <1>0, <2>1 DEF Landed, Others
  <2>7. \A w \in Validations : validation'[w].pc \in {"saveAuthz", "writeAuthz"} =>
           validation'[w].authz.status # "pending"
    BY <1>0, <2>1 DEF Landed, Others
  <2> QED BY <2>1, <2>2, <2>5, <2>6, <2>7 DEF Landed
<1>6. ASSUME NEW v \in Validations, WriteAuthz(v) PROVE Landed'
  <2>0. PICK k : k = validation[v].ix
    OBVIOUS
  <2>1. /\ Others(v) /\ validation[v].ix = k
        /\ validation[v].pc = "writeAuthz" /\ validation'[v].pc = "loadOrder"
        /\ authzFile'[k] \in {validation[v].authz, Garbled}
        /\ validation[v].authz \in AuthzDoc(k) /\ k \in Identifiers
        /\ \A i \in Identifiers \ {k} : authzFile'[i] = authzFile[i]
        /\ UNCHANGED << create, proved >>
    BY <1>6, <2>0, WriteMoves, JobPicked
  <2>2. create.pc = "done"
    BY <2>1 DEF CompleteInv, Busy
  <2>3. \A i \in Identifiers \ {k} : Writing(i) => Writing(i)'
    BY <2>1 DEF Writing, Others
  <2>4. \A i \in Identifiers : Proved(i)' => Proved(i)
    BY <2>1 DEF Proved
  <2>5. Decided(authzFile[k])'
    <3>1. validation[v].authz # Empty /\ validation[v].authz.status # "pending"
      BY <1>0, <2>1, FileAssumption DEF Landed, NoDoc
    <3>2. Garbled # Empty /\ ~ Readable(Garbled)
      BY FileAssumption DEF Readable, NoDoc
    <3> QED BY <2>1, <3>1, <3>2 DEF Decided, Readable
  <2>6. \A i \in Identifiers : Proved(i)' => Writing(i)' \/ Decided(authzFile[i])'
    BY <1>0, <2>1, <2>3, <2>4, <2>5 DEF Landed, Decided, Readable
  <2>7. \A i \in Identifiers : authzFile'[i] = Empty =>
           \E w \in Validations : validation'[w].pc = "writeAuthz" /\ validation'[w].ix = i
    BY <1>0, <2>1, <2>5 DEF Landed, Others, Decided
  <2>8. \A w \in Validations : validation'[w].pc \in {"saveAuthz", "writeAuthz"} =>
           validation'[w].authz.status # "pending"
    BY <1>0, <2>1 DEF Landed, Others
  <2> QED BY <2>1, <2>2, <2>6, <2>7, <2>8 DEF Landed
<1>7. ASSUME NEW v \in Validations, LoadOrder(v) \/ ScanAuthz(v) PROVE Landed'
  <2>1. CASE LoadOrder(v)
    BY <1>0, <2>1, LoadMoves, LandedUntouched DEF Others, files
  <2>2. CASE ScanAuthz(v)
    BY <1>0, <2>2, ScanMoves, LandedUntouched DEF Others, files
  <2> QED BY <1>7, <2>1, <2>2
<1>8. ASSUME NEW v \in Validations, TruncateOrder(v) \/ WriteOrder(v) PROVE Landed'
  <2>1. CASE TruncateOrder(v)
    BY <1>0, <2>1, TruncateOrderMoves, LandedUntouched DEF Others
  <2>2. CASE WriteOrder(v)
    BY <1>0, <2>2, WriteOrderMoves, LandedUntouched DEF Others
  <2> QED BY <1>8, <2>1, <2>2
<1>9. CASE FinalizeStep
  BY <1>0, <1>9, FinalizeMoves, LandedUntouched
<1>10. CASE (\E c \in Certs : Notified(c)) \/ UNCHANGED vars
  BY <1>0, <1>10, LandedUntouched DEF Notified, vars, files
<1> QED
  BY <1>0, <1>1, <1>2, <1>3, <1>4, <1>5, <1>6, <1>7, <1>8, <1>9, <1>10, NextDivided

LEMMA InitLanded == Init => LandedInv
<1> SUFFICES ASSUME Init PROVE Landed
  BY DEF LandedInv
<1>1. \A i \in Identifiers : authzFile[i] # Empty
  BY FileAssumption DEF Init
<1> QED BY <1>1, IdlePc DEF Init, Landed, Proved

(* A validation that has passed is on disk as a decision once no goroutine *)
(* has yet to write the authorization, unless a fault intervened           *)
(* (acme_handler.go:518, 576-592).                                         *)
THEOREM DecisionAlwaysReachesDisk == Spec => []DecisionReachesDisk
<1>1. LandedInv => DecisionReachesDisk
  BY DEF LandedInv, Landed, Writing, Decided, DecisionReachesDisk
<1> QED
  BY InitLanded, NextLanded, <1>1, ShapeInvariance, CompleteInvariance, PTL DEF Spec
-----------------------------------------------------------------------------
(* One goroutine at a time, whichever it is.                               *)
OneAtATime ==
    \A v, w \in Validations : validation[v].pc # "idle" /\ validation[w].pc # "idle" => v = w

(* What StatusFollowsAuthz asks of a status.                               *)
Follows(s) ==
    /\ SomeInvalid => s = "invalid"
    /\ AllValid => s = "ready"
    /\ ~ SomeInvalid /\ ~ AllValid => s \in {"pending", "invalid"}

(* What is left of it while an authorization has changed and the order has *)
(* not: a status that a scan may carry over, because "ready" is only ever  *)
(* carried over by a scan that finds everything valid.                     *)
Tame(s) ==
    /\ s # "valid"
    /\ s = "ready" => \A i \in Identifiers : Readable(authzFile[i]) => authzFile[i].status # "pending"

(* A scan has counted what is on disk: nobody writes beside it.            *)
Counted(job) ==
    /\ job.allValid <=> \A k \in Identifiers : k < job.next => CountsAsValid(authzFile[k])
    /\ job.anyInvalid <=> \E k \in Identifiers : k < job.next /\ CountsAsInvalid(authzFile[k])

(* The files and the only goroutine that may run, point by point of its    *)
(* way: only the file it is about to write is truncated, it carries the    *)
(* order that is on disk, and the status it will write follows.            *)
CreatedFor(job) ==
    /\ \A i \in Identifiers : Readable(authzFile[i]) \/ (job.pc = "writeAuthz" /\ job.ix = i)
    /\ (Readable(orderFile) /\ Tame(orderFile.status)) \/ job.pc = "writeOrder"
    /\ job.pc \in {"validate", "saveAuthz"} => Follows(orderFile.status)
    /\ job.pc \in {"saveAuthz", "writeAuthz"} => job.authz.status # "pending"
    /\ job.pc = "writeAuthz" => authzFile[job.ix] = Empty
    /\ job.pc \in {"scan", "saveOrder"} => job.order = orderFile /\ Counted(job)
    /\ job.pc = "writeOrder" => orderFile = Empty /\ Follows(job.order.status)

(* The same where nobody runs.                                             *)
CreatedForNone ==
    /\ \A i \in Identifiers : Readable(authzFile[i])
    /\ Readable(orderFile) /\ Tame(orderFile.status) /\ Follows(orderFile.status)

Created ==
    /\ \A v \in Validations : validation[v].pc # "idle" => CreatedFor(validation[v])
    /\ (\A v \in Validations : validation[v].pc = "idle") => CreatedForNone

FollowInv ==
    faults = 0 /\ issued = {} =>
        /\ create.pc # "failed"
        /\ create.pc # "done" => \A i \in Identifiers : authzFile[i] \in {Absent, NewAuthz(i)}
        /\ create.pc = "done" => Created

(* A status that follows may be carried over.                              *)
LEMMA FollowsIsTame ==
  ASSUME NEW s, Follows(s)
  PROVE  Tame(s)
<1>1. SomeInvalid \/ AllValid \/ (~ SomeInvalid /\ ~ AllValid)
  OBVIOUS
<1>2. s \in {"invalid", "ready", "pending"} /\ (s = "ready" => AllValid)
  BY DEF Follows
<1> QED BY <1>2 DEF Tame, AllValid, CountsAsValid

(* The rule of UpdateOrderStatus on what a whole scan has counted.         *)
LEMMA VerdictFollows ==
  ASSUME Shape, NEW s, Tame(s), s \in {"pending", "ready", "valid", "invalid"},
         \A i \in Identifiers : Readable(authzFile[i]),
         NEW allValid, allValid <=> AllValid, NEW anyInvalid, anyInvalid <=> SomeInvalid
  PROVE  Follows(Verdict(s, allValid, anyInvalid))
<1>1. \A i \in Identifiers : authzFile[i].status \in {"pending", "valid", "invalid"}
  BY DEF Shape, TypeOK, Readable, AuthzDoc
<1>2. 1 \in Identifiers
  BY IdleShape
<1>3. ~ (SomeInvalid /\ AllValid)
  BY DEF SomeInvalid, AllValid, CountsAsInvalid, CountsAsValid
<1>4. s = "ready" => SomeInvalid \/ AllValid
  BY <1>1 DEF Tame, SomeInvalid, AllValid, CountsAsInvalid, CountsAsValid
<1> QED BY <1>3, <1>4 DEF Follows, Verdict, Tame

(* One file more has been counted.                                         *)
LEMMA CountOneMore ==
  ASSUME NEW job, NEW new, Counted(job), job.next \in Identifiers, new.next = job.next + 1,
         new.allValid <=> job.allValid /\ CountsAsValid(authzFile[job.next]),
         new.anyInvalid <=> job.anyInvalid \/ CountsAsInvalid(authzFile[job.next])
  PROVE  Counted(new)
<1>1. \A k \in Identifiers : k < new.next <=> k < job.next \/ k = job.next
  BY OrderAssumption DEF Identifiers
<1> QED BY <1>1 DEF Counted

LEMMA CountedAll ==
  ASSUME NEW job, Counted(job), job.next = N + 1
  PROVE  (job.allValid <=> AllValid) /\ (job.anyInvalid <=> SomeInvalid)
<1>1. \A k \in Identifiers : k < job.next
  BY OrderAssumption DEF Identifiers
<1> QED BY <1>1 DEF Counted, AllValid, SomeInvalid

(* Two states with the same files say the same of a job.                   *)
LEMMA SameFiles ==
  ASSUME UNCHANGED << authzFile, orderFile >>
  PROVE  /\ \A job : CreatedFor(job) => CreatedFor(job)'
         /\ \A job : Counted(job) => Counted(job)'
         /\ \A s : Tame(s) => Tame(s)'
         /\ \A s : Follows(s) => Follows(s)'
         /\ CreatedForNone => CreatedForNone'
<1>1. (SomeInvalid' <=> SomeInvalid) /\ (AllValid' <=> AllValid)
  BY DEF SomeInvalid, AllValid, CountsAsInvalid, CountsAsValid, Readable
<1>2. \A job : Counted(job) => Counted(job)'
  BY DEF Counted, CountsAsInvalid, CountsAsValid, Readable
<1>3. \A s : Tame(s) => Tame(s)'
  BY DEF Tame, Readable
<1>4. \A s : Follows(s) => Follows(s)'
  BY <1>1 DEF Follows
<1>5. \A job : CreatedFor(job) => CreatedFor(job)'
  BY <1>2, <1>3, <1>4 DEF CreatedFor, Readable
<1>6. CreatedForNone => CreatedForNone'
  BY <1>3, <1>4 DEF CreatedForNone, Readable
<1> QED BY <1>2, <1>3, <1>4, <1>5, <1>6

(* The other goroutines are idle, so it is enough to follow the one.       *)
LEMMA OneIsEnough ==
  ASSUME NEW v \in Validations, Others(v), OneAtATime, OneAtATime',
         validation[v].pc # "idle" \/ validation'[v].pc # "idle",
         validation'[v].pc # "idle" => CreatedFor(validation[v])',
         validation'[v].pc = "idle" => CreatedForNone'
  PROVE  Created'
<1>1. \A w \in Validations \ {v} : validation'[w].pc = "idle"
  BY DEF Others, OneAtATime
<1> QED BY <1>1 DEF Created

(* One step of the goroutine that runs alone.                              *)
LEMMA JobCreated ==
  ASSUME Shape, OrderInv, Created, OneAtATime, OneAtATime', NEW v \in Validations,
         \/ \E c \in ChallengeIds : PostChallenge(v, c[1], c[2])
         \/ \E ok \in BOOLEAN : Validate(v, ok)
         \/ TruncateAuthz(v) \/ WriteAuthz(v) \/ LoadOrder(v) \/ ScanAuthz(v)
         \/ TruncateOrder(v) \/ WriteOrder(v)
  PROVE  Created'
<1> USE FileAssumption
<1>0. PICK job, new : job = validation[v] /\ new = validation'[v]
  OBVIOUS
<1>1. job.pc # "idle" => CreatedFor(job)
  BY <1>0 DEF Created
<1>2. job.ix \in Identifiers
  BY <1>0, JobPicked
<1>3. ASSUME NEW c \in ChallengeIds, PostChallenge(v, c[1], c[2]) PROVE Created'
  <2>1. /\ Others(v) /\ job.pc = "idle" /\ new.pc = "validate"
        /\ UNCHANGED << authzFile, orderFile >>
    BY <1>0, <1>3, PostMoves DEF files
  <2>2. CreatedForNone
    BY <1>0, <2>1 DEF Created, Others, OneAtATime
  <2>3. CreatedFor(new)
    BY <2>1, <2>2 DEF CreatedFor, CreatedForNone
  <2>4. CreatedFor(new)'
    BY <2>1, <2>3, SameFiles
  <2> QED BY <1>0, <2>1, <2>4, OneIsEnough DEF CreatedFor, Counted
<1>4. ASSUME NEW ok \in BOOLEAN, Validate(v, ok) PROVE Created'
  <2>1. /\ Others(v) /\ job.pc = "validate" /\ new.pc = "saveAuthz"
        /\ new.authz.status # "pending"
        /\ UNCHANGED << authzFile, orderFile >>
    BY <1>0, <1>4, ValidateMoves DEF files
  <2>2. CreatedFor(new)
    BY <1>1, <2>1 DEF CreatedFor
  <2>3. CreatedFor(new)'
    BY <2>1, <2>2, SameFiles
  <2> QED BY <1>0, <2>1, <2>3, OneIsEnough DEF CreatedFor, Counted
<1>5. CASE TruncateAuthz(v)
  <2>1. /\ Others(v) /\ job.pc = "saveAuthz" /\ new.pc = "writeAuthz"
        /\ new.ix = job.ix /\ new.authz = job.authz /\ orderFile' = orderFile
        /\ authzFile'[job.ix] = Empty
        /\ \A i \in Identifiers \ {job.ix} : authzFile'[i] = authzFile[i]
    BY <1>0, <1>5, TruncateMoves
  <2>2. CreatedFor(job)
    BY <1>1, <2>1
  <2>3. Readable(orderFile)' /\ Tame(orderFile.status)'
    BY <2>1, <2>2 DEF CreatedFor, Tame, Readable, NoDoc
  <2>4. CreatedFor(new)'
    BY <1>2, <2>1, <2>2, <2>3 DEF CreatedFor, Readable
  <2> QED BY <1>0, <2>1, <2>4, OneIsEnough DEF CreatedFor, Counted
<1>6. CASE WriteAuthz(v)
  <2>1. /\ Others(v) /\ job.pc = "writeAuthz" /\ new.pc = "loadOrder"
        /\ orderFile' = orderFile
        /\ authzFile[job.ix] = Empty => authzFile'[job.ix] = job.authz
        /\ job.authz \in AuthzDoc(job.ix)
        /\ \A i \in Identifiers \ {job.ix} : authzFile'[i] = authzFile[i]
    BY <1>0, <1>6, WriteMoves
  <2>2. CreatedFor(job)
    BY <1>1, <2>1
  <2>3. authzFile'[job.ix] = job.authz /\ job.authz.status # "pending"
    BY <2>1, <2>2 DEF CreatedFor
  <2>4. job.authz \notin NoDoc
    BY <1>2, <2>1
  <2>5. Readable(orderFile)' /\ Tame(orderFile.status)'
    BY <2>1, <2>2, <2>3 DEF CreatedFor, Tame, Readable
  <2>6. CreatedFor(new)'
    BY <2>1, <2>2, <2>3, <2>4, <2>5 DEF CreatedFor, Readable
  <2> QED BY <1>0, <2>1, <2>6, OneIsEnough DEF CreatedFor, Counted
<1>7. CASE LoadOrder(v)
  <2>1. /\ Others(v) /\ job.pc = "loadOrder" /\ UNCHANGED << authzFile, orderFile >>
        /\ Readable(orderFile) =>
              /\ new.pc = "scan" /\ new.order = orderFile /\ new.next = 1
              /\ new.allValid = TRUE /\ new.anyInvalid = FALSE
    BY <1>0, <1>7, LoadMoves DEF files
  <2>2. CreatedFor(job)
    BY <1>1, <2>1
  <2>3. Readable(orderFile)
    BY <2>1, <2>2 DEF CreatedFor
  <2>4. Counted(new)
    BY <2>1, <2>3, OrderAssumption DEF Counted, Identifiers
  <2>5. CreatedFor(new)
    BY <2>1, <2>2, <2>3, <2>4 DEF CreatedFor
  <2>6. CreatedFor(new)'
    BY <2>1, <2>5, SameFiles
  <2> QED BY <1>0, <2>1, <2>3, <2>6, OneIsEnough DEF CreatedFor, Counted
<1>8. CASE ScanAuthz(v)
  <2>1. /\ Others(v) /\ job.pc = "scan" /\ UNCHANGED << authzFile, orderFile >>
        /\ new.pc \in {"scan", "saveOrder"} /\ new.order = job.order
    BY <1>0, <1>8, ScanMoves DEF files
  <2>2. CreatedFor(job)
    BY <1>1, <2>1
  <2>3. Counted(new)
    BY <1>0, <1>8, <2>1, <2>2, ScanMoves, CountOneMore DEF CreatedFor
  <2>4. CreatedFor(new)
    BY <2>1, <2>2, <2>3 DEF CreatedFor
  <2>5. CreatedFor(new)'
    BY <2>1, <2>4, SameFiles
  <2> QED BY <1>0, <2>1, <2>5, OneIsEnough DEF CreatedFor, Counted
<1>9. CASE TruncateOrder(v)
  <2>1. /\ Others(v) /\ job.pc = "saveOrder" /\ new.pc = "writeOrder"
        /\ new.order.status = Verdict(job.order.status, job.allValid, job.anyInvalid)
        /\ orderFile' = Empty /\ authzFile' = authzFile
    BY <1>0, <1>9, TruncateOrderMoves
  <2>2. CreatedFor(job) /\ job.next = N + 1 /\ job.order \in OrderDoc
    BY <1>0, <1>1, <2>1 DEF OrderInv, JobOrder, Shape, JobShape
  <2>3. Follows(new.order.status)
    <3>1. job.order = orderFile /\ Counted(job) /\ Tame(orderFile.status)
          /\ \A i \in Identifiers : Readable(authzFile[i])
      BY <2>1, <2>2 DEF CreatedFor
    <3>2. (job.allValid <=> AllValid) /\ (job.anyInvalid <=> SomeInvalid)
      BY <2>2, <3>1, CountedAll
    <3>3. job.order.status \in {"pending", "ready", "valid", "invalid"}
      BY <2>2 DEF OrderDoc
    <3> QED BY <2>1, <3>1, <3>2, <3>3, VerdictFollows
  <2>4. Follows(new.order.status)'
    BY <2>1, <2>3 DEF Follows, SomeInvalid, AllValid, CountsAsInvalid, CountsAsValid, Readable
  <2>5. CreatedFor(new)'
    BY <2>1, <2>2, <2>4 DEF CreatedFor, Readable
  <2> QED BY <1>0, <2>1, <2>5, OneIsEnough DEF CreatedFor, Counted
<1>10. CASE WriteOrder(v)
  <2>1. /\ Others(v) /\ job.pc = "writeOrder" /\ new.pc = "idle"
        /\ orderFile = Empty => orderFile' = job.order
        /\ job.order \in OrderDoc /\ authzFile' = authzFile
    BY <1>0, <1>10, WriteOrderMoves
  <2>2. CreatedFor(job)
    BY <1>1, <2>1
  <2>3. orderFile' = job.order /\ job.order \notin NoDoc /\ Follows(job.order.status)
    BY <2>1, <2>2 DEF CreatedFor
  <2>4. Tame(job.order.status)
    BY <2>3, FollowsIsTame
  <2>5. Follows(orderFile.status)' /\ Tame(orderFile.status)'
    BY <2>1, <2>3, <2>4
    DEF Follows, Tame, SomeInvalid, AllValid, CountsAsInvalid, CountsAsValid, Readable
  <2>6. CreatedForNone'
    BY <2>1, <2>2, <2>3, <2>5 DEF CreatedFor, CreatedForNone, Readable
  <2> QED BY <1>0, <2>1, <2>6, OneIsEnough
<1> QED BY <1>3, <1>4, <1>5, <1>6, <1>7, <1>8, <1>9, <1>10

(* A step that touches neither a file of the order nor a goroutine.        *)
LEMMA CreatedUntouched ==
  ASSUME Created, UNCHANGED << authzFile, orderFile, validation >>
  PROVE  Created'
<1>1. ASSUME NEW v \in Validations, validation'[v].pc # "idle" PROVE CreatedFor(validation[v])'
  <2>1. PICK job : job = validation[v]
    OBVIOUS
  <2>2. CreatedFor(job)'
    BY <1>1, <2>1, SameFiles DEF Created
  <2> QED BY <2>1, <2>2 DEF CreatedFor, Counted
<1>2. (\A v \in Validations : validation'[v].pc = "idle") => CreatedForNone'
  BY SameFiles DEF Created
<1> QED BY <1>1, <1>2 DEF Created

LEMMA NextFollow ==
  Shape /\ OrderInv /\ CompleteInv /\ FollowInv /\ OneAtATime /\ OneAtATime' /\ [Next]_vars
  => FollowInv'
<1> SUFFICES ASSUME Shape, OrderInv, CompleteInv, FollowInv, OneAtATime, OneAtATime',
                    [Next]_vars, faults' = 0, issued' = {}
             PROVE  /\ create'.pc # "failed"
                    /\ create'.pc # "done" =>
                          \A i \in Identifiers : authzFile'[i] \in {Absent, NewAuthz(i)}
                    /\ create'.pc = "done" => Created'
  BY DEF FollowInv, NewAuthz
<1>0. /\ faults = 0 /\ issued = {} /\ create.pc # "failed"
      /\ create.pc # "done" => \A i \in Identifiers : authzFile[i] \in {Absent, NewAuthz(i)}
      /\ create.pc = "done" => Created
  BY FaultsOnlyGrow, IssuedOnlyGrows DEF FollowInv
<1>1. CASE SaveNewAuthz
  <2>1. create.next \in Identifiers
    BY <1>1 DEF SaveNewAuthz, Shape, TypeOK, Identifiers
  <2>2. \A i \in Identifiers : authzFile'[i] \in {authzFile[i], NewAuthz(i)}
    BY <1>1, <2>1 DEF SaveNewAuthz, Shape, TypeOK
  <2>3. create.pc # "done" /\ create'.pc \in {"authz", "order"}
    BY <1>1 DEF SaveNewAuthz
  <2> QED BY <1>0, <2>2, <2>3
<1>2. CASE SaveNewOrder
  <2>1. create.pc = "order" /\ create'.pc = "done"
    BY <1>2 DEF SaveNewOrder, Shape, TypeOK
  <2>2. \A i \in Identifiers : authzFile[i] = NewAuthz(i)
    BY <1>0, <2>1 DEF CompleteInv, Complete
  <2>3. \A v \in Validations : validation[v].pc = "idle"
    BY <2>1 DEF CompleteInv, Busy
  <2>4. \A i \in Identifiers : Readable(authzFile[i])
    BY <2>2, NewAuthzType, FileAssumption DEF Readable
  <2>5. ~ SomeInvalid /\ ~ AllValid
    <3>1. \A i \in Identifiers : NewAuthz(i).status = "pending"
      BY DEF NewAuthz
    <3>2. \A i \in Identifiers : authzFile[i].status = "pending"
      BY <2>2, <3>1
    <3> QED BY <3>2, IdleShape DEF SomeInvalid, AllValid, CountsAsInvalid, CountsAsValid
  <2>6. orderFile' = NewOrder /\ UNCHANGED << authzFile, validation >>
    BY <1>2 DEF SaveNewOrder
  <2>7. ~ SomeInvalid' /\ ~ AllValid'
    BY <2>5, <2>6 DEF SomeInvalid, AllValid, CountsAsInvalid, CountsAsValid, Readable
  <2>8. Follows(orderFile.status)' /\ Tame(orderFile.status)' /\ Readable(orderFile)'
    BY <2>6, <2>7, NewOrderType, FileAssumption DEF Follows, Tame, NewOrder, Readable
  <2>9. Created'
    BY <2>3, <2>4, <2>6, <2>8 DEF Created, CreatedForNone, Readable
  <2> QED BY <2>1, <2>9
<1>3. ASSUME NEW v \in Validations,
             \/ \E c \in ChallengeIds : PostChallenge(v, c[1], c[2])
             \/ \E ok \in BOOLEAN : Validate(v, ok)
             \/ TruncateAuthz(v) \/ WriteAuthz(v) \/ LoadOrder(v) \/ ScanAuthz(v)
             \/ TruncateOrder(v) \/ WriteOrder(v)
      PROVE  create'.pc = "done" /\ Created'
  <2>1. create' = create /\ (create.pc = "done" \/ validation[v].pc # "idle")
    BY <1>3 DEF PostChallenge, Validate, TruncateAuthz, WriteAuthz, LoadOrder, ScanAuthz,
                TruncateOrder, WriteOrder
  <2>2. create.pc = "done"
    BY <2>1 DEF CompleteInv, Busy
  <2> QED BY <1>0, <1>3, <2>1, <2>2, JobCreated
<1>4. CASE FinalizeStep
  <2>1. \A f \in Finalizes : finalize[f].pc \notin {"chain", "saveOrder", "writeOrder"}
    BY <1>0 DEF OrderInv, FinalizeSound
  <2>2. UNCHANGED << authzFile, orderFile, validation, create >>
    BY <1>0, <1>4, <2>1, FinalizeMoves
  <2> QED BY <1>0, <2>2, CreatedUntouched
<1>5. CASE (\E c \in Certs : Notified(c)) \/ UNCHANGED vars
  <2>1. UNCHANGED << authzFile, orderFile, validation, create >>
    BY <1>5 DEF Notified, vars, files
  <2> QED BY <1>0, <2>1, CreatedUntouched
<1> QED
  BY <1>0, <1>1, <1>2, <1>3, <1>4, <1>5, NextDivided

LEMMA InitFollow == Init => FollowInv
BY DEF Init, FollowInv

(* As long as one goroutine runs at a time, and until there is a           *)
(* certificate, the order says between them what its authorizations say    *)
(* (order.go:124-156).  What happens when two overlap is ReadyIfAllValid.  *)
THEOREM StatusAlwaysFollows == Spec /\ []OneAtATime => []StatusFollowsAuthz
<1>1. FollowInv => StatusFollowsAuthz
  BY DEF FollowInv, Created, CreatedForNone, Follows, AtRest, StatusFollowsAuthz
<1> QED
  BY InitFollow, NextFollow, <1>1, ShapeInvariance, OrderInvariance, CompleteInvariance, PTL
  DEF Spec
-----------------------------------------------------------------------------
(* NamedForGood.  Only LoadOrder takes a copy of the order, and only       *)
(* TruncateOrder, WriteOrder and the two steps of a finalize touch the     *)
(* file: none of them brings back an order without a certificate.          *)
LEMMA JobHoldsNone ==
  ASSUME NEW job, job.pc \notin {"scan", "saveOrder", "writeOrder"}
  PROVE  ~ HoldsOlderCopy(job)
BY DEF HoldsOlderCopy

LEMMA JobsStaySettled ==
  ASSUME Shape, Settled, NEW v \in Validations, NEW job, ~ HoldsOlderCopy(job),
         validation' = [validation EXCEPT ![v] = job], create' = create,
         \/ orderFile' = orderFile
         \/ orderFile' \in NoDoc
         \/ orderFile'.cert # NoCert
  PROVE  Settled'
BY DEF Shape, TypeOK, Settled, Readable

LEMMA ValidationStaysSettled ==
  ASSUME Shape, Settled, NEW v \in Validations,
         \/ \E c \in ChallengeIds : PostChallenge(v, c[1], c[2])
         \/ \E ok \in BOOLEAN : Validate(v, ok)
         \/ TruncateAuthz(v) \/ WriteAuthz(v) \/ SaveAuthzFails(v)
         \/ LoadOrder(v) \/ ScanAuthz(v)
         \/ TruncateOrder(v) \/ WriteOrder(v) \/ SaveOrderFails(v)
  PROVE  Settled'
<1>0. PICK job : job = validation[v] /\ job \in Job(job.ix) /\ JobShape(job)
                 /\ ~ HoldsOlderCopy(job)
  BY DEF Shape, JobShape, Settled
<1>1. CASE \E c \in ChallengeIds : PostChallenge(v, c[1], c[2])
  <2>1. PICK c, a :
          /\ validation' = [validation EXCEPT ![v] =
                [IdleJob EXCEPT !.pc = "validate", !.ix = c[1], !.type = c[2], !.authz = a]]
          /\ UNCHANGED << orderFile, create >>
    BY <1>1 DEF PostChallenge, files
  <2>2. [IdleJob EXCEPT !.pc = "validate", !.ix = c[1], !.type = c[2], !.authz = a].pc
          = "validate"
    BY IdleShape DEF Job
  <2> QED BY <2>1, <2>2, JobHoldsNone, JobsStaySettled
<1>2. CASE \E ok \in BOOLEAN : Validate(v, ok)
  <2>1. PICK a : /\ validation' = [validation EXCEPT ![v] =
                       [job EXCEPT !.pc = "saveAuthz", !.authz = a]]
                 /\ UNCHANGED << orderFile, create >>
    BY <1>0, <1>2 DEF Validate, files
  <2>2. [job EXCEPT !.pc = "saveAuthz", !.authz = a].pc = "saveAuthz"
    BY <1>0 DEF Job
  <2> QED BY <2>1, <2>2, JobHoldsNone, JobsStaySettled
<1>3. CASE TruncateAuthz(v)
  <2>1. [job EXCEPT !.pc = "writeAuthz"].pc = "writeAuthz"
    BY <1>0 DEF Job
  <2>2. /\ validation' = [validation EXCEPT ![v] = [job EXCEPT !.pc = "writeAuthz"]]
        /\ UNCHANGED << orderFile, create >>
    BY <1>0, <1>3 DEF TruncateAuthz
  <2> QED BY <2>1, <2>2, JobHoldsNone, JobsStaySettled
<1>4. CASE WriteAuthz(v) \/ SaveAuthzFails(v)
  <2>1. [IdleJob EXCEPT !.pc = "loadOrder"].pc = "loadOrder"
    BY IdleShape DEF Job
  <2>2. /\ validation' = [validation EXCEPT ![v] = [IdleJob EXCEPT !.pc = "loadOrder"]]
        /\ UNCHANGED << orderFile, create >>
    BY <1>4 DEF WriteAuthz, SaveAuthzFails, files
  <2> QED BY <2>1, <2>2, JobHoldsNone, JobsStaySettled
<1>5. CASE LoadOrder(v)
  <2>1. UNCHANGED << orderFile, create >>
    BY <1>5 DEF LoadOrder, files
  <2>2. CASE Readable(orderFile)
    <3>1. PICK new : new = [IdleJob EXCEPT !.pc = "scan", !.order = orderFile]
      OBVIOUS
    <3>2. new.order = orderFile /\ orderFile.cert # NoCert
      BY <2>2, <3>1, IdleShape DEF Job, Settled
    <3> QED BY <1>5, <2>1, <2>2, <3>1, <3>2, JobsStaySettled DEF LoadOrder, HoldsOlderCopy
  <2>3. CASE ~ Readable(orderFile)
    BY <1>5, <2>1, <2>3, IdlePc, JobHoldsNone, JobsStaySettled DEF LoadOrder
  <2> QED BY <2>2, <2>3
<1>6. CASE ScanAuthz(v)
  <2>1. PICK pc, next, valid, invalid :
          /\ validation' = [validation EXCEPT ![v] =
                [job EXCEPT !.pc = pc, !.next = next, !.allValid = valid, !.anyInvalid = invalid]]
          /\ UNCHANGED << orderFile, create >>
    BY <1>0, <1>6 DEF ScanAuthz, files
  <2>2. [job EXCEPT !.pc = pc, !.next = next, !.allValid = valid, !.anyInvalid = invalid].order
          = job.order
    BY <1>0 DEF Job
  <2>3. job.order.cert # NoCert
    BY <1>0, <1>6 DEF ScanAuthz, HoldsOlderCopy
  <2> QED BY <2>1, <2>2, <2>3, JobsStaySettled DEF HoldsOlderCopy
<1>7. CASE TruncateOrder(v)
  <2>1. PICK doc, new :
          /\ doc = [job.order EXCEPT !.status = Verdict(@, job.allValid, job.anyInvalid)]
          /\ new = [IdleJob EXCEPT !.pc = "writeOrder", !.order = doc]
    OBVIOUS
  <2>2. doc.cert # NoCert
    BY <1>0, <1>7, <2>1 DEF TruncateOrder, JobShape, OrderDoc, HoldsOlderCopy
  <2>3. new.order = doc
    BY <2>1, IdleShape DEF Job
  <2>4. /\ validation' = [validation EXCEPT ![v] = new]
        /\ orderFile' = Empty /\ create' = create
    BY <1>0, <1>7, <2>1 DEF TruncateOrder
  <2> QED BY <2>2, <2>3, <2>4, JobsStaySettled DEF HoldsOlderCopy, NoDoc
<1>8. CASE WriteOrder(v)
  <2>1. job.order.cert # NoCert /\ orderFile' \in {job.order, Garbled}
    BY <1>0, <1>8 DEF WriteOrder, LandingOrder, HoldsOlderCopy
  <2> QED
    BY <1>8, <2>1, IdlePc, JobHoldsNone, JobsStaySettled DEF WriteOrder, NoDoc
<1>9. CASE SaveOrderFails(v)
  BY <1>9, IdlePc, JobHoldsNone, JobsStaySettled DEF SaveOrderFails, files
<1> QED BY <1>1, <1>2, <1>3, <1>4, <1>5, <1>6, <1>7, <1>8, <1>9

LEMMA RestStaysSettled ==
  ASSUME Settled, UNCHANGED << create, validation >>,
         orderFile' = orderFile \/ orderFile' \in NoDoc \/ orderFile'.cert # NoCert
  PROVE  Settled'
BY DEF Settled, Readable

LEMMA FinalizeStaysSettled ==
  ASSUME Shape, Settled, NEW f \in Finalizes,
         \/ StartFinalize(f) \/ RejectFinalize(f)
         \/ \E c \in Certs : Sign(f, c) \/ StoreFails(f, c)
         \/ ChainFails(f) \/ SaveCert(f)
         \/ TruncateFinalized(f) \/ WriteFinalized(f) \/ SaveFinalizedFails(f)
  PROVE  Settled'
<1>1. CASE TruncateFinalized(f)
  BY <1>1, RestStaysSettled DEF TruncateFinalized, NoDoc
<1>2. CASE WriteFinalized(f)
  <2>1. finalize[f].cert # NoCert
    BY <1>2, OrderAssumption DEF WriteFinalized, Shape
  <2>2. orderFile' \in {Finalized(finalize[f].cert), Garbled}
    BY <1>2 DEF WriteFinalized, LandingOrder
  <2> QED BY <1>2, <2>1, <2>2, RestStaysSettled DEF WriteFinalized, Finalized, NoDoc
<1>3. CASE \/ StartFinalize(f) \/ RejectFinalize(f)
           \/ \E c \in Certs : Sign(f, c) \/ StoreFails(f, c)
           \/ ChainFails(f) \/ SaveCert(f) \/ SaveFinalizedFails(f)
  BY <1>3, RestStaysSettled
  DEF StartFinalize, RejectFinalize, Sign, StoreFails, ChainFails, SaveCert,
      SaveFinalizedFails, files
<1> QED BY <1>1, <1>2, <1>3

LEMMA StepStaysSettled == Shape /\ [Next]_vars => (Settled => Settled')
<1> SUFFICES ASSUME Shape, [Next]_vars, Settled PROVE Settled'
  OBVIOUS
<1>1. CASE SaveNewAuthz \/ SaveNewOrder \/ NewOrderFails
  BY <1>1 DEF SaveNewAuthz, SaveNewOrder, NewOrderFails, Settled
<1>2. CASE (\E c \in Certs : Notified(c) \/ NotifyLost(c)) \/ UNCHANGED vars
  BY <1>2, RestStaysSettled DEF Notified, NotifyLost, vars, files
<1>3. CASE Crash
  BY <1>3, IdlePc, JobHoldsNone DEF Crash, Settled, Readable, files
<1> QED
  BY <1>1, <1>2, <1>3, ValidationStaysSettled, FinalizeStaysSettled DEF Next

(* Once no goroutine holds a copy of the order from before the finalize,   *)
(* the order names a certificate whenever it can be read, for any number   *)
(* of goroutines, finalizes and faults (order.go:124-156,                  *)
(* acme_handler.go:593, 726-731).                                          *)
THEOREM OrderNamedForGood == Spec => NamedForGood
<1>1. Shape /\ [Next]_vars => [Settled => Settled']_vars
  BY StepStaysSettled
<1> QED BY <1>1, ShapeInvariance, PTL DEF Spec, NamedForGood
=============================================================================
