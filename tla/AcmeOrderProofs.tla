-------------------------- MODULE AcmeOrderProofs ---------------------------
(***************************************************************************)
(* What AcmeOrder guarantees for any number of identifiers, goroutines,    *)
(* finalize requests and faults.  Five invariants are built on each other: *)
(* Shape (types, and what each program counter implies), AuthzInv (what    *)
(* the authorizations say was proved), OrderInv (what the order and the    *)
(* handlers say was proved and issued), CompleteInv (what new-order has    *)
(* written so far), and PromiseInv (a certificate goes through its stages  *)
(* and reports one by one).  The last part shows that AcmeOrder implements *)
(* OrderPromise.                                                           *)
(***************************************************************************)
EXTENDS AcmeOrder, TLAPS

(* What a goroutine holds at each point of its way.                        *)
JobShape(job) ==
    /\ job \in Job(job.ix) /\ job.ix \in Identifiers
    /\ job.pc \in {"validate", "saveAuthz", "writeAuthz"} =>
          job.authz \in AuthzDoc(job.ix) /\ job.type \in Offered(job.ix)
    /\ job.pc \in {"scan", "saveOrder", "writeOrder"} => job.order \in OrderDoc
    /\ job.pc = "scan" => job.next <= N

Shape ==
    /\ TypeOK
    /\ \A v \in Validations : JobShape(validation[v])
    /\ \A f \in Finalizes : finalize[f].pc \in {"chain", "saveOrder", "writeOrder"} =>
          finalize[f].cert \in Certs
    /\ create.pc = "authz" => create.next <= N
-----------------------------------------------------------------------------
LEMMA IdleShape ==
  /\ JobShape(IdleJob)
  /\ IdleJob \in Job(1)
  /\ 1 \in Identifiers
  /\ IdleJob.next = 1
  BY OrderAssumption DEF JobShape, Job, IdleJob, Identifiers

LEMMA IdlePc == IdleJob.pc = "idle"
  BY DEF IdleJob

LEMMA NewAuthzType == \A i \in Identifiers : NewAuthz(i) \in AuthzDoc(i)
  BY DEF NewAuthz, AuthzDoc

LEMMA NewOrderType == NewOrder \in OrderDoc
  BY DEF NewOrder, OrderDoc

LEMMA MarkedType ==
  ASSUME NEW i \in Identifiers, NEW doc \in AuthzDoc(i), NEW t \in Offered(i)
  PROVE  /\ Marked(doc, t) \in AuthzDoc(i)
         /\ Marked(doc, t).challenge = [doc.challenge EXCEPT ![t] = "processing"]
  BY DEF Marked, AuthzDoc

LEMMA JudgedType ==
  ASSUME NEW i \in Identifiers, NEW doc \in AuthzDoc(i), NEW t \in Offered(i),
         NEW ok \in BOOLEAN
  PROVE  /\ Judged(doc, t, ok) \in AuthzDoc(i)
         /\ Judged(doc, t, ok).status = IF ok THEN "valid" ELSE "invalid"
         /\ Judged(doc, t, ok).challenge =
              [doc.challenge EXCEPT ![t] = IF ok THEN "valid" ELSE "invalid"]
  BY DEF Judged, AuthzDoc

LEMMA LandingType ==
  ASSUME NEW D, NEW file \in D \cup NoDoc, NEW new \in D,
         NEW x \in LandingOrder(file, new) \cup LandingAuthz(file, new)
  PROVE  x \in D \cup NoDoc /\ x \in {new, Garbled}
  BY DEF LandingOrder, LandingAuthz, NoDoc

LEMMA VerdictType ==
  ASSUME NEW doc \in OrderDoc, NEW a \in BOOLEAN, NEW b \in BOOLEAN
  PROVE  [doc EXCEPT !.status = Verdict(@, a, b)] \in OrderDoc
  BY DEF Verdict, OrderDoc

LEMMA FinalizedType ==
  ASSUME NEW c \in Certs
  PROVE  Finalized(c) \in OrderDoc
  BY DEF Finalized, OrderDoc

(* One goroutine moves on, the others hold what they held.                 *)
LEMMA OneJobMoves ==
  ASSUME Shape, NEW v \in Validations, NEW job, JobShape(job),
         validation' = [validation EXCEPT ![v] = job]
  PROVE  /\ DOMAIN validation' = Validations
         /\ \A w \in Validations : validation'[w] \in UNION {Job(i) : i \in Identifiers}
         /\ \A w \in Validations : JobShape(validation'[w])
         /\ validation'[v] = job
         /\ \A w \in Validations \ {v} : validation'[w] = validation[w]
<1>1. DOMAIN validation' = Validations /\ validation'[v] = job
      /\ \A w \in Validations \ {v} : validation'[w] = validation[w]
  BY DEF Shape, TypeOK
<1>2. \A w \in Validations : JobShape(validation'[w])
  BY <1>1 DEF Shape
<1>3. \A w \in Validations : validation'[w] \in UNION {Job(i) : i \in Identifiers}
  BY <1>2 DEF JobShape
<1> QED BY <1>1, <1>2, <1>3

(* One step of new-order, of the backend or of a client changes no job.    *)
LEMMA JobsUntouched ==
  ASSUME Shape, UNCHANGED << validation, finalize >>
  PROVE  /\ DOMAIN validation' = Validations
         /\ \A w \in Validations : validation'[w] \in UNION {Job(i) : i \in Identifiers}
         /\ \A w \in Validations : JobShape(validation'[w])
         /\ \A f \in Finalizes : finalize'[f].pc \in {"chain", "saveOrder", "writeOrder"} =>
               finalize'[f].cert \in Certs
  BY DEF Shape, TypeOK
-----------------------------------------------------------------------------
LEMMA InitShape == Init => Shape
<1> SUFFICES ASSUME Init PROVE Shape
  OBVIOUS
<1>1. /\ DOMAIN validation = Validations
      /\ \A v \in Validations : validation[v] = IdleJob
  BY DEF Init
<1>2. \A v \in Validations : JobShape(validation[v])
  BY <1>1, IdleShape
<1>3. \A v \in Validations : validation[v] \in UNION {Job(i) : i \in Identifiers}
  BY <1>2 DEF JobShape
<1>4. /\ DOMAIN authzFile = Identifiers
      /\ \A i \in Identifiers : authzFile[i] \in AuthzDoc(i) \cup NoDoc
      /\ orderFile \in OrderDoc \cup NoDoc
  BY DEF Init, NoDoc
<1>5. finalize \in [Finalizes -> [pc : {"idle", "sign", "chain", "saveOrder", "writeOrder"},
                                 cert : Certs \cup {NoCert}]]
  BY DEF Init, IdleFinalize
<1>6. create \in [pc : {"authz", "order", "done", "failed"}, next : 1..(N + 1)]
  BY OrderAssumption DEF Init
<1>7. \A C \in {certFiles, issued, notices, backend, delivered, unreported} : C \subseteq Certs
  BY DEF Init
<1>8. challengeMap \subseteq ChallengeIds /\ proved \subseteq ChallengeIds
  BY DEF Init
<1>9. faults \in 0..MaxFaults
  BY OrderAssumption DEF Init
<1>10. TypeOK
  BY <1>1, <1>3, <1>4, <1>5, <1>6, <1>7, <1>8, <1>9 DEF TypeOK
<1> QED
  BY <1>2, <1>10, OrderAssumption DEF Shape, Init, IdleFinalize

LEMMA NewOrderShape ==
  ASSUME Shape, SaveNewAuthz \/ SaveNewOrder \/ NewOrderFails
  PROVE  Shape'
<1> USE OrderAssumption
<1>1. CASE SaveNewAuthz
  <2>1. create.next \in Identifiers /\ NewAuthz(create.next) \in AuthzDoc(create.next)
    BY <1>1, NewAuthzType DEF SaveNewAuthz, Shape, TypeOK, Identifiers
  <2>2. MappingsOf(create.next) \subseteq ChallengeIds
    BY <2>1 DEF MappingsOf, ChallengeIds, Offered
  <2>3. /\ DOMAIN authzFile' = Identifiers
        /\ \A i \in Identifiers : authzFile'[i] \in AuthzDoc(i) \cup NoDoc
    BY <1>1, <2>1 DEF SaveNewAuthz, Shape, TypeOK
  <2>4. create' \in [pc : {"authz", "order", "done", "failed"}, next : 1..(N + 1)]
        /\ (create'.pc = "authz" => create'.next <= N)
    BY <1>1, <2>1 DEF SaveNewAuthz, Shape, TypeOK, Identifiers
  <2>5. TypeOK'
    BY <1>1, <2>2, <2>3, <2>4, JobsUntouched DEF SaveNewAuthz, Shape, TypeOK, pki
  <2> QED BY <1>1, <2>4, <2>5, JobsUntouched DEF SaveNewAuthz, Shape
<1>2. CASE SaveNewOrder
  <2>1. TypeOK'
    BY <1>2, NewOrderType, JobsUntouched DEF SaveNewOrder, Shape, TypeOK, pki
  <2> QED BY <1>2, <2>1, JobsUntouched DEF SaveNewOrder, Shape, TypeOK
<1>3. CASE NewOrderFails
  <2>1. faults' \in 0..MaxFaults
    BY <1>3 DEF NewOrderFails, Fault, Shape, TypeOK
  <2>2. /\ create' \in [pc : {"authz", "order", "done", "failed"}, next : 1..(N + 1)]
        /\ create'.pc = "failed"
    BY <1>3 DEF NewOrderFails, Shape, TypeOK
  <2>3. /\ DOMAIN authzFile' = Identifiers
        /\ \A i \in Identifiers : authzFile'[i] \in AuthzDoc(i) \cup NoDoc
        /\ challengeMap' \subseteq ChallengeIds
        /\ orderFile' \in OrderDoc \cup NoDoc
    <3>1. CASE create.pc = "authz"
      <4>1. create.next \in Identifiers
        BY <3>1 DEF Shape, TypeOK, Identifiers
      <4>2. MappingsOf(create.next) \subseteq ChallengeIds
        BY <4>1 DEF MappingsOf, ChallengeIds, Offered
      <4>3. PICK file \in {Absent, Empty, NewAuthz(create.next)} :
               authzFile' = [authzFile EXCEPT ![create.next] = file]
        BY <1>3, <3>1 DEF NewOrderFails
      <4>4. file \in AuthzDoc(create.next) \cup NoDoc
        BY <4>1, NewAuthzType DEF NoDoc
      <4>5. orderFile' = orderFile /\ challengeMap' \subseteq ChallengeIds
        BY <1>3, <3>1, <4>2 DEF NewOrderFails, Shape, TypeOK
      <4> QED BY <4>1, <4>3, <4>4, <4>5 DEF Shape, TypeOK
    <3>2. CASE create.pc # "authz"
      BY <1>3, <3>2 DEF NewOrderFails, Shape, TypeOK, NoDoc
    <3> QED BY <3>1, <3>2
  <2>4. UNCHANGED << pki, validation, finalize, delivered, proved >>
    BY <1>3 DEF NewOrderFails
  <2>5. TypeOK'
    BY <2>1, <2>2, <2>3, <2>4, JobsUntouched DEF Shape, TypeOK, pki
  <2> QED BY <2>2, <2>4, <2>5, JobsUntouched DEF Shape
<1> QED BY <1>1, <1>2, <1>3

(* A step of one goroutine that only moves the goroutine.                  *)
LEMMA JobOnlyShape ==
  ASSUME Shape, NEW v \in Validations, NEW job, JobShape(job),
         validation' = [validation EXCEPT ![v] = job],
         UNCHANGED << files, pki, create, finalize, delivered >>,
         proved' \subseteq ChallengeIds, faults' \in 0..MaxFaults
  PROVE  Shape'
<1>1. TypeOK'
  BY OneJobMoves DEF Shape, TypeOK, files, pki
<1> QED
  BY <1>1, OneJobMoves DEF Shape

LEMMA ChallengeShape ==
  ASSUME Shape, NEW v \in Validations,
         \/ \E c \in ChallengeIds : PostChallenge(v, c[1], c[2])
         \/ \E ok \in BOOLEAN : Validate(v, ok)
         \/ TruncateAuthz(v) \/ WriteAuthz(v) \/ SaveAuthzFails(v)
  PROVE  Shape'
<1> DEFINE job == validation[v]
<1>0. /\ JobShape(job) /\ job \in Job(job.ix) /\ job.ix \in Identifiers
      /\ proved \subseteq ChallengeIds /\ faults \in 0..MaxFaults
  BY DEF Shape, TypeOK, JobShape
<1>1. ASSUME NEW c \in ChallengeIds, PostChallenge(v, c[1], c[2]) PROVE Shape'
  <2> DEFINE i == c[1]
             t == c[2]
             new == [IdleJob EXCEPT !.pc = "validate", !.ix = i, !.type = t,
                                    !.authz = Marked(authzFile[i], t)]
  <2>1. i \in Identifiers /\ t \in Offered(i) /\ t \in {"dns-01", "http-01"}
    BY DEF ChallengeIds
  <2>2. authzFile[i] \in AuthzDoc(i)
    BY <1>1, <2>1 DEF PostChallenge, Readable, Shape, TypeOK
  <2>3. Marked(authzFile[i], t) \in AuthzDoc(i)
    BY <2>1, <2>2, MarkedType
  <2> DEFINE marked == Marked(authzFile[i], t)
  <2> HIDE DEF i, t, marked
  <2>a. /\ new.pc = "validate" /\ new.ix = i /\ new.type = t /\ new.authz = marked
        /\ new \in Job(i)
    BY <2>1, <2>3, IdleShape DEF Job, marked
  <2> HIDE DEF new
  <2>4. JobShape(new)
    BY <2>1, <2>3, <2>a DEF JobShape, marked
  <2> USE DEF i, t, new
  <2>5. validation' = [validation EXCEPT ![v] = new]
        /\ UNCHANGED << files, pki, create, finalize, delivered, proved, faults >>
    BY <1>1 DEF PostChallenge
  <2> QED BY ONLY Shape, <1>0, <2>4, <2>5, JobOnlyShape
<1>2. ASSUME NEW ok \in BOOLEAN, Validate(v, ok) PROVE Shape'
  <2> DEFINE new == [job EXCEPT !.pc = "saveAuthz", !.authz = Judged(job.authz, job.type, ok)]
  <2>1. job.authz \in AuthzDoc(job.ix) /\ job.type \in Offered(job.ix)
    BY <1>0, <1>2 DEF Validate, JobShape
  <2>2. Judged(job.authz, job.type, ok) \in AuthzDoc(job.ix)
    BY <1>0, <2>1, JudgedType
  <2>3. JobShape(new)
    BY <1>0, <2>1, <2>2 DEF JobShape, Job
  <2>4. << job.ix, job.type >> \in ChallengeIds
    BY <1>0, <2>1 DEF ChallengeIds, Offered
  <2>5. proved' \subseteq ChallengeIds
    BY <1>0, <1>2, <2>4 DEF Validate
  <2>6. /\ validation' = [validation EXCEPT ![v] = new]
        /\ UNCHANGED << files, pki, create, finalize, delivered, faults >>
    BY <1>2 DEF Validate
  <2> QED BY ONLY Shape, <1>0, <2>3, <2>5, <2>6, JobOnlyShape
<1>3. CASE TruncateAuthz(v)
  <2> DEFINE new == [job EXCEPT !.pc = "writeAuthz"]
  <2>1. JobShape(new)
    BY <1>0, <1>3 DEF TruncateAuthz, JobShape, Job
  <2>2. validation' = [validation EXCEPT ![v] = new]
    BY <1>3 DEF TruncateAuthz
  <2>3. /\ DOMAIN authzFile' = Identifiers
        /\ \A i \in Identifiers : authzFile'[i] \in AuthzDoc(i) \cup NoDoc
    BY <1>0, <1>3 DEF TruncateAuthz, Shape, TypeOK, NoDoc
  <2>4. TypeOK'
    BY <1>3, <2>1, <2>2, <2>3, OneJobMoves DEF TruncateAuthz, Shape, TypeOK, pki
  <2> QED BY <1>3, <2>1, <2>2, <2>4, OneJobMoves DEF TruncateAuthz, Shape
<1>4. CASE WriteAuthz(v)
  <2> DEFINE new == [IdleJob EXCEPT !.pc = "loadOrder"]
  <2>1. JobShape(new)
    BY IdleShape, OrderAssumption DEF JobShape, Job, IdleJob, Identifiers
  <2>2. validation' = [validation EXCEPT ![v] = new]
    BY <1>4 DEF WriteAuthz
  <2>3. PICK file \in LandingAuthz(authzFile[job.ix], job.authz) :
             authzFile' = [authzFile EXCEPT ![job.ix] = file]
    BY <1>4 DEF WriteAuthz
  <2>4. file \in AuthzDoc(job.ix) \cup NoDoc
    <3>1. authzFile[job.ix] \in AuthzDoc(job.ix) \cup NoDoc
      BY <1>0 DEF Shape, TypeOK
    <3>2. job.authz \in AuthzDoc(job.ix)
      BY <1>0, <1>4 DEF WriteAuthz, JobShape
    <3> QED BY <3>1, <3>2, LandingType
  <2>5. /\ DOMAIN authzFile' = Identifiers
        /\ \A i \in Identifiers : authzFile'[i] \in AuthzDoc(i) \cup NoDoc
    BY <1>0, <2>3, <2>4 DEF Shape, TypeOK
  <2>6. TypeOK'
    BY <1>4, <2>1, <2>2, <2>5, OneJobMoves DEF WriteAuthz, Shape, TypeOK, pki
  <2> QED BY <1>4, <2>1, <2>2, <2>6, OneJobMoves DEF WriteAuthz, Shape
<1>5. CASE SaveAuthzFails(v)
  <2> DEFINE new == [IdleJob EXCEPT !.pc = "loadOrder"]
  <2>1. JobShape(new)
    BY IdleShape, OrderAssumption DEF JobShape, Job, IdleJob, Identifiers
  <2>2. faults' \in 0..MaxFaults
    BY <1>0, <1>5, OrderAssumption DEF SaveAuthzFails, Fault
  <2>3. /\ validation' = [validation EXCEPT ![v] = new]
        /\ UNCHANGED << files, pki, create, finalize, delivered, proved >>
    BY <1>5 DEF SaveAuthzFails
  <2> QED BY ONLY Shape, <1>0, <2>1, <2>2, <2>3, JobOnlyShape
<1> QED BY <1>1, <1>2, <1>3, <1>4, <1>5

LEMMA UpdateOrderShape ==
  ASSUME Shape, NEW v \in Validations,
         \/ LoadOrder(v) \/ ScanAuthz(v)
         \/ TruncateOrder(v) \/ WriteOrder(v) \/ SaveOrderFails(v)
  PROVE  Shape'
<1> DEFINE job == validation[v]
<1>0. /\ JobShape(job) /\ job \in Job(job.ix) /\ job.ix \in Identifiers
      /\ proved \subseteq ChallengeIds /\ faults \in 0..MaxFaults
  BY DEF Shape, TypeOK, JobShape
<1>1. CASE LoadOrder(v)
  <2> DEFINE new == IF Readable(orderFile)
                    THEN [IdleJob EXCEPT !.pc = "scan", !.order = orderFile]
                    ELSE IdleJob
  <2>1. Readable(orderFile) => orderFile \in OrderDoc
    BY DEF Readable, Shape, TypeOK
  <2>2. JobShape(new)
    <3>1. CASE Readable(orderFile)
      <4> DEFINE loaded == [IdleJob EXCEPT !.pc = "scan", !.order = orderFile]
      <4>1. loaded \in Job(1)
        BY <2>1, <3>1, IdleShape DEF Job
      <4>2. loaded.pc = "scan" /\ loaded.order = orderFile /\ loaded.next = 1 /\ loaded.ix = 1
        BY IdleShape DEF Job
      <4>3. JobShape(loaded)
        BY <2>1, <3>1, <4>1, <4>2, IdleShape, OrderAssumption DEF JobShape
      <4> QED BY <3>1, <4>3
    <3>2. CASE ~ Readable(orderFile)
      BY <3>2, IdleShape
    <3> QED BY <3>1, <3>2
  <2>3. /\ validation' = [validation EXCEPT ![v] = new]
        /\ UNCHANGED << files, pki, create, finalize, delivered, proved, faults >>
    BY <1>1 DEF LoadOrder
  <2> QED BY ONLY Shape, <1>0, <2>2, <2>3, JobOnlyShape
<1>2. CASE ScanAuthz(v)
  <2> DEFINE file == authzFile[job.next]
             valid == job.allValid /\ CountsAsValid(file)
             invalid == job.anyInvalid \/ CountsAsInvalid(file)
             new == [job EXCEPT !.pc = IF job.next = N THEN "saveOrder" ELSE "scan",
                                !.next = job.next + 1,
                                !.allValid = valid,
                                !.anyInvalid = invalid]
  <2>1. valid \in BOOLEAN /\ invalid \in BOOLEAN
    OBVIOUS
  <2>2. /\ validation' = [validation EXCEPT ![v] = new]
        /\ UNCHANGED << files, pki, create, finalize, delivered, proved, faults >>
        /\ job.pc = "scan"
    BY <1>2 DEF ScanAuthz
  <2> HIDE DEF valid, invalid
  <2> DEFINE pc == IF job.next = N THEN "saveOrder" ELSE "scan"
  <2>3. /\ job.next \in 1..N /\ job.order \in OrderDoc
        /\ job.next + 1 \in 1..(N + 1)
        /\ pc \in {"scan", "saveOrder"}
        /\ pc = "scan" => job.next + 1 <= N
    BY <1>0, <2>2, OrderAssumption DEF JobShape, Job
  <2>4. new = [job EXCEPT !.pc = pc, !.next = job.next + 1,
                          !.allValid = valid, !.anyInvalid = invalid]
    OBVIOUS
  <2> HIDE DEF pc
  <2>5. /\ new.pc = pc /\ new.order = job.order /\ new.next = job.next + 1
        /\ new.ix = job.ix
        /\ new \in Job(job.ix)
    BY <1>0, <2>1, <2>3, <2>4 DEF Job
  <2> HIDE DEF new
  <2>6. JobShape(new)
    BY <1>0, <2>3, <2>5 DEF JobShape
  <2> USE DEF new
  <2> QED BY ONLY Shape, <1>0, <2>2, <2>6, JobOnlyShape
<1>3. CASE TruncateOrder(v)
  <2> DEFINE verdict == [job.order EXCEPT
                           !.status = Verdict(@, job.allValid, job.anyInvalid)]
             new == [IdleJob EXCEPT !.pc = "writeOrder", !.order = verdict]
  <2>1. job.order \in OrderDoc /\ job.allValid \in BOOLEAN /\ job.anyInvalid \in BOOLEAN
    BY <1>0, <1>3 DEF TruncateOrder, JobShape, Job
  <2>2. verdict \in OrderDoc
    BY <2>1, VerdictType
  <2>3. validation' = [validation EXCEPT ![v] = new]
    BY <1>3 DEF TruncateOrder
  <2> HIDE DEF verdict
  <2>4. JobShape(new)
    BY <2>2, IdleShape, OrderAssumption DEF JobShape, Job, IdleJob, Identifiers
  <2>5. TypeOK'
    BY <1>3, <2>3, <2>4, OneJobMoves DEF TruncateOrder, Shape, TypeOK, NoDoc, pki
  <2> QED BY <1>3, <2>3, <2>4, <2>5, OneJobMoves DEF TruncateOrder, Shape
<1>4. CASE WriteOrder(v)
  <2>1. job.order \in OrderDoc
    BY <1>0, <1>4 DEF WriteOrder, JobShape
  <2>2. orderFile' \in OrderDoc \cup NoDoc
    BY <1>4, <2>1, LandingType DEF WriteOrder, Shape, TypeOK
  <2>3. validation' = [validation EXCEPT ![v] = IdleJob]
    BY <1>4 DEF WriteOrder
  <2>4. TypeOK'
    BY <1>4, <2>2, <2>3, IdleShape, OneJobMoves DEF WriteOrder, Shape, TypeOK, pki
  <2> QED BY <1>4, <2>3, <2>4, IdleShape, OneJobMoves DEF WriteOrder, Shape
<1>5. CASE SaveOrderFails(v)
  <2>1. faults' \in 0..MaxFaults
    BY <1>0, <1>5, OrderAssumption DEF SaveOrderFails, Fault
  <2>2. /\ validation' = [validation EXCEPT ![v] = IdleJob]
        /\ UNCHANGED << files, pki, create, finalize, delivered, proved >>
    BY <1>5 DEF SaveOrderFails
  <2> QED BY ONLY Shape, <1>0, <2>1, <2>2, IdleShape, JobOnlyShape
<1> QED BY <1>1, <1>2, <1>3, <1>4, <1>5

(* The finalize handlers are independent of each other, too.               *)
LEMMA FinalizeShape ==
  ASSUME Shape, NEW f \in Finalizes,
         \/ StartFinalize(f) \/ RejectFinalize(f)
         \/ \E c \in Certs : Sign(f, c) \/ StoreFails(f, c)
         \/ ChainFails(f) \/ SaveCert(f)
         \/ TruncateFinalized(f) \/ WriteFinalized(f) \/ SaveFinalizedFails(f)
  PROVE  Shape'
<1> DEFINE Handler == [pc : {"idle", "sign", "chain", "saveOrder", "writeOrder"},
                       cert : Certs \cup {NoCert}]
           HasCert(h) == h.pc \in {"chain", "saveOrder", "writeOrder"} => h.cert \in Certs
           FinalizeOK == /\ finalize \in [Finalizes -> Handler]
                         /\ \A g \in Finalizes : HasCert(finalize[g])
           CertSets == /\ certFiles \subseteq Certs /\ issued \subseteq Certs
                       /\ notices \subseteq Certs /\ backend \subseteq Certs
                       /\ delivered \subseteq Certs /\ unreported \subseteq Certs
           OrderType == orderFile \in OrderDoc \cup NoDoc
           FaultType == faults \in 0..MaxFaults
           Others == << authzFile, challengeMap, create, validation, proved >>
<1>0. FinalizeOK /\ IdleFinalize \in Handler /\ HasCert(IdleFinalize)
  BY DEF Shape, TypeOK, IdleFinalize
<1>1. ASSUME FinalizeOK', CertSets', OrderType', FaultType', UNCHANGED Others
      PROVE  Shape'
  <2>1. TypeOK'
    BY <1>1 DEF Shape, TypeOK
  <2> QED BY <1>1, <2>1 DEF Shape
<1>2. CertSets
  BY DEF Shape, TypeOK
<1>3. OrderType /\ FaultType
  BY DEF Shape, TypeOK
<1>4. Fault => FaultType'
  BY <1>3, OrderAssumption DEF Fault
<1> HIDE DEF Handler
<1>5. CASE StartFinalize(f) \/ RejectFinalize(f)
  <2>1. FinalizeOK'
    BY <1>0, <1>5 DEF StartFinalize, RejectFinalize, Handler
  <2>2. CertSets'
    BY <1>2, <1>5 DEF StartFinalize, RejectFinalize, files, pki
  <2>3. OrderType'
    BY <1>3, <1>5 DEF StartFinalize, RejectFinalize, files, pki
  <2>4. FaultType' /\ UNCHANGED Others
    BY <1>3, <1>5 DEF StartFinalize, RejectFinalize, files, pki
  <2> HIDE DEF FinalizeOK, CertSets, OrderType, FaultType, Others
  <2> QED BY <1>1, <2>1, <2>2, <2>3, <2>4
<1>6. ASSUME NEW c \in Certs, Sign(f, c) PROVE Shape'
  <2>1. FinalizeOK'
    BY <1>0, <1>6 DEF Sign, Handler
  <2>2. CertSets'
    BY <1>2, <1>6 DEF Sign, files
  <2>3. OrderType'
    BY <1>3, <1>6 DEF Sign, files
  <2>4. FaultType' /\ UNCHANGED Others
    BY <1>3, <1>6 DEF Sign, files
  <2> HIDE DEF FinalizeOK, CertSets, OrderType, FaultType, Others
  <2> QED BY <1>1, <2>1, <2>2, <2>3, <2>4
<1>7. ASSUME NEW c \in Certs, StoreFails(f, c) PROVE Shape'
  <2>1. FinalizeOK'
    BY <1>0, <1>7 DEF StoreFails, Handler
  <2>2. CertSets'
    BY <1>2, <1>7 DEF StoreFails, files
  <2>3. OrderType'
    BY <1>3, <1>7 DEF StoreFails, files
  <2>4. FaultType' /\ UNCHANGED Others
    BY <1>3, <1>4, <1>7 DEF StoreFails, files
  <2> HIDE DEF FinalizeOK, CertSets, OrderType, FaultType, Others
  <2> QED BY <1>1, <2>1, <2>2, <2>3, <2>4
<1>8. CASE ChainFails(f)
  <2>1. FinalizeOK'
    BY <1>0, <1>8 DEF ChainFails, Handler
  <2>2. CertSets'
    BY <1>2, <1>8 DEF ChainFails, files, pki
  <2>3. OrderType'
    BY <1>3, <1>8 DEF ChainFails, files, pki
  <2>4. FaultType' /\ UNCHANGED Others
    BY <1>3, <1>4, <1>8 DEF ChainFails, files, pki
  <2> HIDE DEF FinalizeOK, CertSets, OrderType, FaultType, Others
  <2> QED BY <1>1, <2>1, <2>2, <2>3, <2>4
<1>9. CASE SaveCert(f)
  <2>1. FinalizeOK' /\ finalize[f].cert \in Certs
    BY <1>0, <1>9 DEF SaveCert, Handler
  <2>2. CertSets'
    BY <1>2, <1>9, <2>1 DEF SaveCert, files
  <2>3. OrderType'
    BY <1>3, <1>9 DEF SaveCert, files
  <2>4. FaultType' /\ UNCHANGED Others
    BY <1>3, <1>9 DEF SaveCert, files
  <2> HIDE DEF FinalizeOK, CertSets, OrderType, FaultType, Others
  <2> QED BY <1>1, <2>1, <2>2, <2>3, <2>4
<1>10. CASE TruncateFinalized(f)
  <2>1. FinalizeOK'
    BY <1>0, <1>10 DEF TruncateFinalized, Handler
  <2>2. CertSets'
    BY <1>2, <1>10 DEF TruncateFinalized, pki
  <2>3. OrderType'
    BY <1>10 DEF TruncateFinalized, NoDoc
  <2>4. FaultType' /\ UNCHANGED Others
    BY <1>3, <1>10 DEF TruncateFinalized, pki
  <2> HIDE DEF FinalizeOK, CertSets, OrderType, FaultType, Others
  <2> QED BY <1>1, <2>1, <2>2, <2>3, <2>4
<1>11. CASE WriteFinalized(f)
  <2>1. FinalizeOK' /\ finalize[f].cert \in Certs
    BY <1>0, <1>11 DEF WriteFinalized, Respond, Handler
  <2>2. CertSets'
    BY <1>2, <1>11, <2>1 DEF WriteFinalized, Respond, pki
  <2>3. OrderType'
    BY <1>3, <1>11, <2>1, FinalizedType, LandingType DEF WriteFinalized
  <2>4. FaultType' /\ UNCHANGED Others
    BY <1>3, <1>11 DEF WriteFinalized, Respond, pki
  <2> HIDE DEF FinalizeOK, CertSets, OrderType, FaultType, Others
  <2> QED BY <1>1, <2>1, <2>2, <2>3, <2>4
<1>12. CASE SaveFinalizedFails(f)
  <2>1. FinalizeOK' /\ finalize[f].cert \in Certs
    BY <1>0, <1>12 DEF SaveFinalizedFails, Respond, Handler
  <2>2. CertSets'
    BY <1>2, <1>12, <2>1 DEF SaveFinalizedFails, Respond, files, pki
  <2>3. OrderType'
    BY <1>3, <1>12 DEF SaveFinalizedFails, Respond, files, pki
  <2>4. FaultType' /\ UNCHANGED Others
    BY <1>3, <1>4, <1>12 DEF SaveFinalizedFails, Respond, files, pki
  <2> HIDE DEF FinalizeOK, CertSets, OrderType, FaultType, Others
  <2> QED BY <1>1, <2>1, <2>2, <2>3, <2>4
<1> QED
  BY <1>5, <1>6, <1>7, <1>8, <1>9, <1>10, <1>11, <1>12

LEMMA EnvironmentShape ==
  ASSUME Shape, \E c \in Certs : Notified(c) \/ NotifyLost(c)
  PROVE  Shape'
<1>1. ASSUME NEW c \in Certs, Notified(c) PROVE Shape'
  <2>1. TypeOK'
    BY <1>1, JobsUntouched DEF Notified, Shape, TypeOK, files
  <2> QED BY <1>1, <2>1, JobsUntouched DEF Notified, Shape
<1>2. ASSUME NEW c \in Certs, NotifyLost(c) PROVE Shape'
  <2>1. TypeOK'
    BY <1>2, OrderAssumption, JobsUntouched DEF NotifyLost, Fault, Shape, TypeOK, files
  <2> QED BY <1>2, <2>1, JobsUntouched DEF NotifyLost, Shape
<1> QED BY <1>1, <1>2

LEMMA CrashShape ==
  ASSUME Shape, Crash
  PROVE  Shape'
<1>1. /\ DOMAIN validation' = Validations
      /\ \A v \in Validations : validation'[v] = IdleJob
      /\ \A f \in Finalizes : finalize'[f] = IdleFinalize
      /\ finalize' \in [Finalizes -> [pc : {"idle", "sign", "chain", "saveOrder", "writeOrder"},
                                      cert : Certs \cup {NoCert}]]
  BY DEF Crash, IdleFinalize
<1>2. \A v \in Validations : JobShape(validation'[v])
  BY <1>1, IdleShape
<1>3. \A v \in Validations : validation'[v] \in UNION {Job(i) : i \in Identifiers}
  BY <1>2 DEF JobShape
<1>4. faults' \in 0..MaxFaults
  BY OrderAssumption DEF Crash, Fault, Shape, TypeOK
<1>5. TypeOK'
  BY <1>1, <1>3, <1>4 DEF Crash, Shape, TypeOK, files
<1> QED
  BY <1>1, <1>2, <1>5 DEF Crash, Shape, IdleFinalize

LEMMA StutterShape ==
  ASSUME Shape, UNCHANGED vars
  PROVE  Shape'
<1>1. TypeOK'
  BY JobsUntouched DEF vars, files, pki, Shape, TypeOK
<1> QED BY <1>1, JobsUntouched DEF vars, files, pki, Shape

LEMMA NextShape == Shape /\ [Next]_vars => Shape'
  BY NewOrderShape, ChallengeShape, UpdateOrderShape, FinalizeShape, EnvironmentShape,
     CrashShape, StutterShape
  DEF Next

LEMMA ShapeInvariance == Spec => []Shape
  BY InitShape, NextShape, PTL DEF Spec

(* Type correctness: files hold documents of their kind or none, and every *)
(* handler and goroutine holds what its place in the code needs            *)
(* (acme_types.go:41-112).                                                 *)
THEOREM TypeCorrect == Spec => []TypeOK
<1>1. Shape => TypeOK
  BY DEF Shape
<1> QED BY <1>1, ShapeInvariance, PTL
-----------------------------------------------------------------------------
(* Authorizations: what a goroutine is about to write is as well founded   *)
(* as what is on disk, and what it has read stays so.                      *)
JobAuthz(job) ==
    /\ job.pc = "validate" => ValidIsProved(job.ix, job.authz)
    /\ job.pc \in {"saveAuthz", "writeAuthz"} => Explained(job.ix, job.authz)

AuthzInv == AuthzExplained /\ \A v \in Validations : JobAuthz(validation[v])

LEMMA AuthzUntouched ==
  ASSUME AuthzInv, UNCHANGED << authzFile, proved >>,
         \A v \in Validations :
            \/ validation'[v] = validation[v]
            \/ validation'[v].pc \notin {"validate", "saveAuthz", "writeAuthz"}
  PROVE  AuthzInv'
<1>1. AuthzExplained'
  BY DEF AuthzInv, AuthzExplained, Explained, ValidIsProved
<1>2. \A v \in Validations : JobAuthz(validation[v])'
  BY DEF AuthzInv, JobAuthz, Explained, ValidIsProved
<1> QED BY <1>1, <1>2 DEF AuthzInv

LEMMA NextAuthzInv == Shape /\ AuthzInv /\ [Next]_vars => AuthzInv'
<1> SUFFICES ASSUME Shape, AuthzInv, [Next]_vars PROVE AuthzInv'
  OBVIOUS
<1>1. ASSUME NEW i \in Identifiers, NEW file \in {Absent, Empty, NewAuthz(i)},
             authzFile' = [authzFile EXCEPT ![i] = file],
             UNCHANGED << validation, proved >>
      PROVE  AuthzInv'
  <2>1. \A k \in Identifiers : Explained(k, NewAuthz(k))'
    BY DEF Explained, ValidIsProved, NewAuthz
  <2>2. \A k \in Identifiers \ {i} : authzFile'[k] = authzFile[k]
    BY <1>1 DEF Shape, TypeOK
  <2>3. authzFile'[i] = file
    BY <1>1 DEF Shape, TypeOK
  <2>4. AuthzExplained'
    BY <1>1, <2>1, <2>2, <2>3 DEF AuthzInv, AuthzExplained, Explained, ValidIsProved,
                                  Readable, NoDoc
  <2>5. \A v \in Validations : JobAuthz(validation[v])'
    BY <1>1 DEF AuthzInv, JobAuthz, Explained, ValidIsProved
  <2> QED BY <2>4, <2>5 DEF AuthzInv
<1>2. CASE SaveNewAuthz
  <2>1. create.next \in Identifiers
    BY <1>2 DEF SaveNewAuthz, Shape, TypeOK, Identifiers
  <2> QED BY <1>1, <1>2, <2>1 DEF SaveNewAuthz
<1>3. CASE NewOrderFails
  <2>1. CASE create.pc = "authz"
    <3>1. create.next \in Identifiers
      BY <2>1 DEF Shape, TypeOK, Identifiers
    <3> QED BY <1>1, <1>3, <2>1, <3>1 DEF NewOrderFails
  <2>2. CASE create.pc # "authz"
    BY <1>3, <2>2, AuthzUntouched DEF NewOrderFails
  <2> QED BY <2>1, <2>2
<1>4. CASE SaveNewOrder
  BY <1>4, AuthzUntouched DEF SaveNewOrder
<1>5. ASSUME NEW v \in Validations, NEW c \in ChallengeIds, PostChallenge(v, c[1], c[2])
      PROVE  AuthzInv'
  <2> DEFINE i == c[1]
             t == c[2]
  <2>1. i \in Identifiers /\ t \in Offered(i) /\ authzFile[i] \in AuthzDoc(i)
        /\ Readable(authzFile[i])
    BY <1>5 DEF ChallengeIds, PostChallenge, Readable, Shape, TypeOK
  <2>2. ValidIsProved(i, authzFile[i])
    BY <2>1 DEF AuthzInv, AuthzExplained, Explained
  <2>3. ValidIsProved(i, Marked(authzFile[i], t))
    <3>1. /\ Marked(authzFile[i], t).challenge = [authzFile[i].challenge EXCEPT ![t] = "processing"]
          /\ authzFile[i].challenge \in [Offered(i) -> {"pending", "processing", "valid", "invalid"}]
      BY <2>1, MarkedType DEF AuthzDoc
    <3> QED BY <2>1, <2>2, <3>1 DEF ValidIsProved
  <2>4. /\ validation'[v].pc = "validate" /\ validation'[v].ix = i
        /\ validation'[v].authz = Marked(authzFile[i], t)
        /\ \A w \in Validations \ {v} : validation'[w] = validation[w]
        /\ UNCHANGED << authzFile, proved >>
    BY <1>5 DEF PostChallenge, Shape, TypeOK, files, IdleJob
  <2> HIDE DEF i, t
  <2>5. AuthzExplained'
    BY <2>4 DEF AuthzInv, AuthzExplained, Explained, ValidIsProved
  <2>6. \A w \in Validations : JobAuthz(validation[w])'
    BY <2>3, <2>4 DEF AuthzInv, JobAuthz, Explained, ValidIsProved
  <2> QED BY <2>5, <2>6 DEF AuthzInv
<1>6. ASSUME NEW v \in Validations, NEW ok \in BOOLEAN, Validate(v, ok)
      PROVE  AuthzInv'
  <2>0. PICK job, doc : job = validation[v] /\ doc = Judged(job.authz, job.type, ok)
    OBVIOUS
  <2>1. job.ix \in Identifiers /\ job.authz \in AuthzDoc(job.ix) /\ job.type \in Offered(job.ix)
        /\ ValidIsProved(job.ix, job.authz)
    BY <1>6, <2>0 DEF Validate, Shape, JobShape, AuthzInv, JobAuthz
  <2>2. /\ validation'[v].pc = "saveAuthz" /\ validation'[v].ix = job.ix
        /\ validation'[v].authz = doc
        /\ \A w \in Validations \ {v} : validation'[w] = validation[w]
        /\ authzFile' = authzFile
        /\ proved \subseteq proved'
        /\ ok => << job.ix, job.type >> \in proved'
    <3>1. job \in Job(job.ix)
      BY <2>0 DEF Shape, JobShape
    <3> QED BY <1>6, <2>0, <3>1 DEF Validate, Shape, TypeOK, Job, files
  <2>3. /\ doc.status = IF ok THEN "valid" ELSE "invalid"
        /\ doc.challenge = [job.authz.challenge EXCEPT ![job.type] = IF ok THEN "valid" ELSE "invalid"]
        /\ job.authz.challenge \in [Offered(job.ix) -> {"pending", "processing", "valid", "invalid"}]
    BY <2>0, <2>1, JudgedType DEF AuthzDoc
  <2>4. ValidIsProved(job.ix, doc)'
    BY <2>1, <2>2, <2>3 DEF ValidIsProved
  <2>5. doc.status # "pending" /\ doc.challenge[job.type] = doc.status
    BY <2>1, <2>3
  <2>6. Explained(job.ix, doc)'
    BY <2>1, <2>4, <2>5 DEF Explained
  <2>7. AuthzExplained'
    BY <2>2 DEF AuthzInv, AuthzExplained, Explained, ValidIsProved
  <2>8. \A w \in Validations : JobAuthz(validation[w])'
    BY <2>2, <2>6 DEF AuthzInv, JobAuthz, Explained, ValidIsProved
  <2> QED BY <2>7, <2>8 DEF AuthzInv
<1>7. ASSUME NEW v \in Validations, TruncateAuthz(v) PROVE AuthzInv'
  <2>1. PICK job : job = validation[v]
    OBVIOUS
  <2>2. /\ job \in Job(job.ix) /\ job.ix \in Identifiers /\ job.pc = "saveAuthz"
        /\ Explained(job.ix, job.authz)
    BY <1>7, <2>1 DEF TruncateAuthz, Shape, JobShape, AuthzInv, JobAuthz
  <2>3. /\ validation'[v].ix = job.ix /\ validation'[v].authz = job.authz
        /\ validation'[v].pc = "writeAuthz"
        /\ \A w \in Validations \ {v} : validation'[w] = validation[w]
        /\ authzFile'[job.ix] = Empty
        /\ \A k \in Identifiers \ {job.ix} : authzFile'[k] = authzFile[k]
        /\ proved' = proved
    BY <1>7, <2>1, <2>2 DEF TruncateAuthz, Shape, TypeOK, Job
  <2>4. AuthzExplained'
    BY <2>3 DEF AuthzInv, AuthzExplained, Explained, ValidIsProved, Readable, NoDoc
  <2>5. \A w \in Validations : JobAuthz(validation[w])'
    BY <2>2, <2>3 DEF AuthzInv, JobAuthz, Explained, ValidIsProved
  <2> QED BY <2>4, <2>5 DEF AuthzInv
<1>8. ASSUME NEW v \in Validations, WriteAuthz(v) PROVE AuthzInv'
  <2>1. PICK job : job = validation[v]
    OBVIOUS
  <2>2. /\ job.ix \in Identifiers /\ Explained(job.ix, job.authz)
        /\ job.authz \in AuthzDoc(job.ix)
        /\ authzFile[job.ix] \in AuthzDoc(job.ix) \cup NoDoc
    BY <1>8, <2>1 DEF WriteAuthz, Shape, TypeOK, JobShape, AuthzInv, JobAuthz
  <2>3. PICK file \in LandingAuthz(authzFile[job.ix], job.authz) :
             authzFile' = [authzFile EXCEPT ![job.ix] = file]
    BY <1>8, <2>1 DEF WriteAuthz
  <2>4. file \in {job.authz, Garbled}
    BY <2>2, <2>3, LandingType
  <2>5. /\ authzFile'[job.ix] = file
        /\ \A k \in Identifiers \ {job.ix} : authzFile'[k] = authzFile[k]
        /\ proved' = proved
        /\ \A w \in Validations \ {v} : validation'[w] = validation[w]
        /\ validation'[v].pc = "loadOrder"
    BY <1>8, <2>2, <2>3, IdleShape DEF WriteAuthz, Shape, TypeOK, Job
  <2>6. AuthzExplained'
    BY <2>2, <2>4, <2>5
    DEF AuthzInv, AuthzExplained, Explained, ValidIsProved, Readable, NoDoc
  <2>7. \A w \in Validations : JobAuthz(validation[w])'
    BY <2>5 DEF AuthzInv, JobAuthz, Explained, ValidIsProved
  <2> QED BY <2>6, <2>7 DEF AuthzInv
<1>9. ASSUME NEW v \in Validations,
             \/ SaveAuthzFails(v) \/ LoadOrder(v) \/ ScanAuthz(v)
             \/ TruncateOrder(v) \/ WriteOrder(v) \/ SaveOrderFails(v)
      PROVE  AuthzInv'
  <2>1. UNCHANGED << authzFile, proved >>
    BY <1>9 DEF SaveAuthzFails, LoadOrder, ScanAuthz, TruncateOrder, WriteOrder,
                SaveOrderFails, files
  <2>2. PICK job : job = validation[v] /\ job \in Job(job.ix)
    BY DEF Shape, JobShape
  <2>3. validation'[v].pc \in {"idle", "loadOrder", "scan", "saveOrder", "writeOrder"}
    <3>1. \A new : validation' = [validation EXCEPT ![v] = new] => validation'[v] = new
      BY DEF Shape, TypeOK
    <3>2. CASE SaveAuthzFails(v)
      <4>1. validation'[v] = [IdleJob EXCEPT !.pc = "loadOrder"]
        BY <3>1, <3>2 DEF SaveAuthzFails
      <4> QED BY <4>1, IdleShape DEF Job
    <3>6. CASE TruncateOrder(v)
      <4>1. PICK o : validation' = [validation EXCEPT ![v] =
                       [IdleJob EXCEPT !.pc = "writeOrder", !.order = o]]
        BY <3>6 DEF TruncateOrder
      <4>2. validation'[v] = [IdleJob EXCEPT !.pc = "writeOrder", !.order = o]
        BY <3>1, <4>1
      <4> QED BY <4>2, IdleShape DEF Job
    <3>3. CASE LoadOrder(v)
      <4>1. CASE Readable(orderFile)
        BY <3>1, <3>3, <4>1, IdleShape DEF LoadOrder, Job
      <4>2. CASE ~ Readable(orderFile)
        BY <3>1, <3>3, <4>2, IdlePc DEF LoadOrder
      <4> QED BY <4>1, <4>2
    <3>4. CASE ScanAuthz(v)
      <4>1. CASE job.next = N
        BY <2>2, <3>1, <3>4, <4>1 DEF ScanAuthz, Job
      <4>2. CASE job.next # N
        BY <2>2, <3>1, <3>4, <4>2 DEF ScanAuthz, Job
      <4> QED BY <4>1, <4>2
    <3>5. CASE WriteOrder(v) \/ SaveOrderFails(v)
      BY <3>1, <3>5, IdlePc DEF WriteOrder, SaveOrderFails
    <3> QED BY <1>9, <3>2, <3>3, <3>4, <3>5, <3>6
  <2>4. \A w \in Validations \ {v} : validation'[w] = validation[w]
    BY <1>9 DEF SaveAuthzFails, LoadOrder, ScanAuthz, TruncateOrder, WriteOrder,
                SaveOrderFails, Shape, TypeOK
  <2> QED BY <2>1, <2>3, <2>4, AuthzUntouched
<1>10. ASSUME NEW f \in Finalizes,
              \/ StartFinalize(f) \/ RejectFinalize(f)
              \/ \E c \in Certs : Sign(f, c) \/ StoreFails(f, c)
              \/ ChainFails(f) \/ SaveCert(f)
              \/ TruncateFinalized(f) \/ WriteFinalized(f) \/ SaveFinalizedFails(f)
       PROVE  AuthzInv'
  <2>1. UNCHANGED << authzFile, proved, validation >>
    BY <1>10 DEF StartFinalize, RejectFinalize, Sign, StoreFails, ChainFails, SaveCert,
                 TruncateFinalized, WriteFinalized, SaveFinalizedFails, files
  <2> QED BY <2>1, AuthzUntouched
<1>11. CASE \E c \in Certs : Notified(c) \/ NotifyLost(c)
  <2>1. UNCHANGED << authzFile, proved, validation >>
    BY <1>11 DEF Notified, NotifyLost, files
  <2> QED BY <2>1, AuthzUntouched
<1>12. CASE Crash
  <2>1. UNCHANGED << authzFile, proved >> /\ \A v \in Validations : validation'[v].pc = "idle"
    BY <1>12, IdlePc DEF Crash, files
  <2> QED BY <2>1, AuthzUntouched
<1>13. CASE UNCHANGED vars
  BY <1>13, AuthzUntouched DEF vars, files
<1> QED
  BY <1>2, <1>3, <1>4, <1>5, <1>6, <1>7, <1>8, <1>9, <1>10, <1>11, <1>12, <1>13 DEF Next

LEMMA InitAuthzInv == Init => AuthzInv
  BY IdlePc DEF Init, AuthzInv, AuthzExplained, JobAuthz, Readable, NoDoc

LEMMA AuthzInvariance == Spec => []AuthzInv
  BY InitAuthzInv, NextAuthzInv, ShapeInvariance, PTL DEF Spec

(* Whatever the goroutines overwrite, an authorization on disk never says  *)
(* more than what has been validated, and never says that a challenge is   *)
(* being processed (acme_handler.go:504-594).                              *)
THEOREM AuthzAlwaysExplained == Spec => []AuthzExplained
<1>1. AuthzInv => AuthzExplained
  BY DEF AuthzInv
<1> QED BY <1>1, AuthzInvariance, PTL
-----------------------------------------------------------------------------
(* Orders: every document that is, was or will be in the file is sound, a  *)
(* scan knows what it has counted, a handler only names what it has saved. *)
OrderSound(doc) ==
    /\ doc.status = "ready" => AllProved
    /\ doc.status = "valid" => doc.cert # NoCert
    /\ doc.cert # NoCert => doc.cert \in certFiles

JobOrder(job) ==
    /\ job.pc \in {"scan", "saveOrder", "writeOrder"} => OrderSound(job.order)
    /\ job.pc \in {"scan", "saveOrder"} /\ job.allValid =>
          \A k \in Identifiers : k < job.next => Proved(k)
    /\ job.pc = "saveOrder" => job.next = N + 1

FinalizeSound(h) ==
    /\ h.pc \in {"chain", "saveOrder", "writeOrder"} => h.cert \in issued
    /\ h.pc \in {"saveOrder", "writeOrder"} => h.cert \in certFiles

OrderInv ==
    /\ Readable(orderFile) => OrderSound(orderFile)
    /\ \A v \in Validations : JobOrder(validation[v])
    /\ \A f \in Finalizes : FinalizeSound(finalize[f])
    /\ delivered \subseteq certFiles \cap issued
    /\ IssuedIsReported

(* What is proved, saved or issued stays so: soundness is never lost.      *)
LEMMA SoundnessPersists ==
  ASSUME proved \subseteq proved', certFiles \subseteq certFiles', issued \subseteq issued'
  PROVE  /\ \A i \in Identifiers : Proved(i) => Proved(i)'
         /\ AllProved => AllProved'
         /\ \A doc : OrderSound(doc) => OrderSound(doc)'
         /\ \A job : JobOrder(job) => JobOrder(job)'
         /\ \A h : FinalizeSound(h) => FinalizeSound(h)'
<1>1. \A i \in Identifiers : Proved(i) => Proved(i)'
  BY DEF Proved
<1>2. AllProved => AllProved'
  BY <1>1 DEF AllProved
<1>3. \A doc : OrderSound(doc) => OrderSound(doc)'
  BY <1>2 DEF OrderSound
<1>4. \A job : JobOrder(job) => JobOrder(job)'
  BY <1>1, <1>3 DEF JobOrder
<1>5. \A h : FinalizeSound(h) => FinalizeSound(h)'
  BY <1>2 DEF FinalizeSound
<1> QED BY <1>1, <1>2, <1>3, <1>4, <1>5

(* A step that issues nothing keeps the invariant when   *)
(* the file, the jobs and the handlers it touches stay sound, and what it  *)
(* delivers is there.                                                      *)
LEMMA OrderInvResponds ==
  ASSUME OrderInv, proved \subseteq proved', UNCHANGED << pki >>,
         delivered' \subseteq delivered \cup (certFiles \cap issued),
         \/ orderFile' = orderFile
         \/ orderFile' \in NoDoc
         \/ \E doc : orderFile' = doc /\ OrderSound(doc),
         \A v \in Validations :
            \/ validation'[v] = validation[v]
            \/ \E job : validation'[v] = job /\ JobOrder(job)',
         \A f \in Finalizes :
            \/ finalize'[f] = finalize[f]
            \/ \E h : finalize'[f] = h /\ FinalizeSound(h)'
  PROVE  OrderInv'
<1>0. /\ \A i \in Identifiers : Proved(i) => Proved(i)'
      /\ AllProved => AllProved'
      /\ \A doc : OrderSound(doc) => OrderSound(doc)'
      /\ \A job : JobOrder(job) => JobOrder(job)'
      /\ \A h : FinalizeSound(h) => FinalizeSound(h)'
  <2>1. certFiles \subseteq certFiles' /\ issued \subseteq issued'
    BY DEF pki
  <2> QED BY <2>1, SoundnessPersists
<1>1. (Readable(orderFile) => OrderSound(orderFile))'
  <2>1. PICK doc : doc = orderFile'
    OBVIOUS
  <2>2. Readable(doc) => OrderSound(doc)
    BY <2>1 DEF OrderInv, Readable
  <2>3. Readable(doc) => OrderSound(doc)'
    BY <1>0, <2>2
  <2> QED BY <2>1, <2>3 DEF OrderSound, Readable
<1>2. \A v \in Validations : JobOrder(validation[v])'
  <2> TAKE v \in Validations
  <2>1. PICK job : job = validation'[v]
    OBVIOUS
  <2>2. JobOrder(job)'
    BY <1>0, <2>1 DEF OrderInv
  <2> QED BY <2>1, <2>2 DEF JobOrder, OrderSound
<1>3. \A f \in Finalizes : FinalizeSound(finalize[f])'
  <2> TAKE f \in Finalizes
  <2>1. PICK h : h = finalize'[f]
    OBVIOUS
  <2>2. FinalizeSound(h)'
    BY <1>0, <2>1 DEF OrderInv
  <2> QED BY <2>1, <2>2 DEF FinalizeSound
<1>4. IssuedIsReported' /\ (delivered \subseteq certFiles \cap issued)'
  BY DEF OrderInv, IssuedIsReported, pki
<1> QED BY <1>1, <1>2, <1>3, <1>4 DEF OrderInv

LEMMA OrderInvKept ==
  ASSUME OrderInv, proved \subseteq proved', UNCHANGED << pki, delivered >>,
         \/ orderFile' = orderFile
         \/ orderFile' \in NoDoc
         \/ \E doc : orderFile' = doc /\ OrderSound(doc),
         \A v \in Validations :
            \/ validation'[v] = validation[v]
            \/ \E job : validation'[v] = job /\ JobOrder(job)',
         \A f \in Finalizes :
            \/ finalize'[f] = finalize[f]
            \/ \E h : finalize'[f] = h /\ FinalizeSound(h)'
  PROVE  OrderInv'
  BY OrderInvResponds

LEMMA IdleSound ==
  /\ \A p : p \notin {"scan", "saveOrder", "writeOrder"} => JobOrder([IdleJob EXCEPT !.pc = p])
  /\ JobOrder(IdleJob)
  /\ FinalizeSound(IdleFinalize)
<1>1. \A p : [IdleJob EXCEPT !.pc = p].pc = p
  BY IdleShape DEF Job
<1> QED
  BY <1>1, IdlePc DEF JobOrder, FinalizeSound, IdleFinalize

(* The validation goroutine up to the save of the authorization.           *)
LEMMA ChallengeOrderInv ==
  ASSUME Shape, OrderInv, NEW v \in Validations,
         \/ \E c \in ChallengeIds : PostChallenge(v, c[1], c[2])
         \/ \E ok \in BOOLEAN : Validate(v, ok)
         \/ TruncateAuthz(v) \/ WriteAuthz(v) \/ SaveAuthzFails(v)
  PROVE  OrderInv'
<1>1. UNCHANGED << orderFile, pki, finalize, delivered >> /\ proved \subseteq proved'
  BY DEF PostChallenge, Validate, TruncateAuthz, WriteAuthz, SaveAuthzFails, files
<1>2. PICK job : validation' = [validation EXCEPT ![v] = job]
                 /\ job.pc \in {"validate", "saveAuthz", "writeAuthz", "loadOrder"}
  <2>1. CASE \E c \in ChallengeIds : PostChallenge(v, c[1], c[2])
    <3>1. PICK c \in ChallengeIds : PostChallenge(v, c[1], c[2])
      BY <2>1
    <3>2. PICK a : validation' = [validation EXCEPT ![v] =
                     [IdleJob EXCEPT !.pc = "validate", !.ix = c[1], !.type = c[2], !.authz = a]]
      BY <3>1 DEF PostChallenge
    <3>3. [IdleJob EXCEPT !.pc = "validate", !.ix = c[1], !.type = c[2], !.authz = a].pc = "validate"
      BY IdleShape DEF Job
    <3> QED BY <3>2, <3>3
  <2>2. CASE \E ok \in BOOLEAN : Validate(v, ok)
    <3>1. PICK a : validation' = [validation EXCEPT ![v] =
                     [validation[v] EXCEPT !.pc = "saveAuthz", !.authz = a]]
      BY <2>2 DEF Validate
    <3>2. [validation[v] EXCEPT !.pc = "saveAuthz", !.authz = a].pc = "saveAuthz"
      <4>1. validation[v] \in Job(validation[v].ix)
        BY DEF Shape, JobShape
      <4> QED BY <4>1 DEF Job
    <3> QED BY <3>1, <3>2
  <2>3. CASE TruncateAuthz(v)
    <3>1. validation' = [validation EXCEPT ![v] = [validation[v] EXCEPT !.pc = "writeAuthz"]]
      BY <2>3 DEF TruncateAuthz
    <3>2. [validation[v] EXCEPT !.pc = "writeAuthz"].pc = "writeAuthz"
      <4>1. validation[v] \in Job(validation[v].ix)
        BY DEF Shape, JobShape
      <4> QED BY <4>1 DEF Job
    <3> QED BY <3>1, <3>2
  <2>4. CASE WriteAuthz(v) \/ SaveAuthzFails(v)
    <3>1. validation' = [validation EXCEPT ![v] = [IdleJob EXCEPT !.pc = "loadOrder"]]
      BY <2>4 DEF WriteAuthz, SaveAuthzFails
    <3>2. [IdleJob EXCEPT !.pc = "loadOrder"].pc = "loadOrder"
      BY IdleShape DEF Job
    <3> QED BY <3>1, <3>2
  <2> QED BY <2>1, <2>2, <2>3, <2>4
<1>3. JobOrder(job)'
  BY <1>2 DEF JobOrder
<1>4. validation'[v] = job /\ \A w \in Validations \ {v} : validation'[w] = validation[w]
  BY <1>2 DEF Shape, TypeOK
<1> QED BY <1>1, <1>3, <1>4, OrderInvKept

(* UpdateOrderStatus: the count of a scan is right because proofs are      *)
(* never taken back, even if the files change behind it.                   *)
LEMMA UpdateOrderInv ==
  ASSUME Shape, AuthzInv, OrderInv, NEW v \in Validations,
         \/ LoadOrder(v) \/ ScanAuthz(v)
         \/ TruncateOrder(v) \/ WriteOrder(v) \/ SaveOrderFails(v)
  PROVE  OrderInv'
<1>1. UNCHANGED << pki, finalize, delivered, proved >>
  BY DEF LoadOrder, ScanAuthz, TruncateOrder, WriteOrder, SaveOrderFails
<1>2. \A job : JobOrder(job) => JobOrder(job)'
  BY <1>1, SoundnessPersists DEF pki
<1>3. PICK job : job = validation[v] /\ job \in Job(job.ix) /\ JobShape(job) /\ JobOrder(job)
  BY DEF Shape, JobShape, OrderInv
<1>4. ASSUME NEW new, validation' = [validation EXCEPT ![v] = new], JobOrder(new),
             \/ orderFile' = orderFile
             \/ orderFile' \in NoDoc
             \/ \E doc : orderFile' = doc /\ OrderSound(doc)
      PROVE  OrderInv'
  <2>1. validation'[v] = new /\ \A w \in Validations \ {v} : validation'[w] = validation[w]
    BY <1>4 DEF Shape, TypeOK
  <2> QED BY <1>1, <1>2, <1>4, <2>1, OrderInvKept
<1>5. CASE LoadOrder(v)
  <2>1. CASE Readable(orderFile)
    <3>1. PICK new : new = [IdleJob EXCEPT !.pc = "scan", !.order = orderFile]
      OBVIOUS
    <3>2. new.pc = "scan" /\ new.order = orderFile /\ new.next = 1
      BY <3>1, IdleShape DEF Job
    <3>3. JobOrder(new)
      BY <2>1, <3>2, OrderAssumption DEF JobOrder, OrderInv, Identifiers
    <3> QED BY <1>4, <1>5, <2>1, <3>1, <3>3 DEF LoadOrder, files
  <2>2. CASE ~ Readable(orderFile)
    BY <1>4, <1>5, <2>2, IdleSound DEF LoadOrder, files
  <2> QED BY <2>1, <2>2
<1>6. CASE ScanAuthz(v)
  <2>1. PICK pc, valid, invalid :
          /\ pc = IF job.next = N THEN "saveOrder" ELSE "scan"
          /\ valid = (job.allValid /\ CountsAsValid(authzFile[job.next]))
          /\ invalid = (job.anyInvalid \/ CountsAsInvalid(authzFile[job.next]))
    OBVIOUS
  <2>2. PICK new : new = [job EXCEPT !.pc = pc, !.next = job.next + 1,
                                     !.allValid = valid, !.anyInvalid = invalid]
    OBVIOUS
  <2>3. /\ validation' = [validation EXCEPT ![v] = new]
        /\ orderFile' = orderFile /\ job.pc = "scan"
    BY <1>3, <1>6, <2>1, <2>2 DEF ScanAuthz, files
  <2>4. new.pc = pc /\ new.next = job.next + 1 /\ new.allValid = valid /\ new.order = job.order
    BY <1>3, <2>2 DEF Job
  <2>5. job.next \in Identifiers
    BY <1>3, <2>3, OrderAssumption DEF JobShape, Job, Identifiers
  <2>6. CountsAsValid(authzFile[job.next]) => Proved(job.next)
    BY <2>5 DEF AuthzInv, AuthzExplained, Explained, ValidIsProved, CountsAsValid, Proved
  <2>7. ASSUME valid, NEW k \in Identifiers, k < job.next + 1 PROVE Proved(k)
    <3>1. k < job.next \/ k = job.next
      BY <2>5, <2>7 DEF Identifiers
    <3> QED BY <1>3, <2>1, <2>3, <2>6, <2>7, <3>1 DEF JobOrder
  <2>8. pc \in {"scan", "saveOrder"} /\ (pc = "saveOrder" => job.next + 1 = N + 1)
    BY <2>1
  <2>9. OrderSound(job.order)
    BY <1>3, <2>3 DEF JobOrder
  <2>10. JobOrder(new)
    BY <2>4, <2>7, <2>8, <2>9 DEF JobOrder
  <2> QED BY <1>4, <2>3, <2>10
<1>7. CASE TruncateOrder(v)
  <2>1. PICK doc : doc = [job.order EXCEPT !.status = Verdict(@, job.allValid, job.anyInvalid)]
    OBVIOUS
  <2>2. PICK new : new = [IdleJob EXCEPT !.pc = "writeOrder", !.order = doc]
    OBVIOUS
  <2>3. /\ validation' = [validation EXCEPT ![v] = new]
        /\ orderFile' = Empty /\ job.pc = "saveOrder"
    BY <1>3, <1>7, <2>1, <2>2 DEF TruncateOrder
  <2>4. job.order \in OrderDoc /\ OrderSound(job.order) /\ job.next = N + 1
    BY <1>3, <2>3 DEF JobShape, JobOrder
  <2>5. job.allValid => AllProved
    BY <1>3, <2>3, <2>4, OrderAssumption DEF JobOrder, AllProved, Identifiers
  <2>6. /\ doc.cert = job.order.cert
        /\ doc.status = Verdict(job.order.status, job.allValid, job.anyInvalid)
    BY <2>1, <2>4 DEF OrderDoc
  <2>7. OrderSound(doc)
    BY <2>4, <2>5, <2>6 DEF OrderSound, Verdict
  <2>8. new.pc = "writeOrder" /\ new.order = doc
    BY <2>2, IdleShape DEF Job
  <2>9. JobOrder(new)
    BY <2>7, <2>8 DEF JobOrder
  <2> QED BY <1>4, <2>3, <2>9 DEF NoDoc
<1>8. CASE WriteOrder(v)
  <2>1. job.order \in OrderDoc /\ OrderSound(job.order)
    BY <1>3, <1>8 DEF WriteOrder, JobShape, JobOrder
  <2>2. orderFile' \in {job.order, Garbled}
    BY <1>3, <1>8, <2>1, LandingType DEF WriteOrder, Shape, TypeOK
  <2>3. validation' = [validation EXCEPT ![v] = IdleJob]
    BY <1>8 DEF WriteOrder
  <2> QED BY <1>4, <2>1, <2>2, <2>3, IdleSound DEF NoDoc
<1>9. CASE SaveOrderFails(v)
  BY <1>4, <1>9, IdleSound DEF SaveOrderFails, files
<1> QED BY <1>5, <1>6, <1>7, <1>8, <1>9

(* finalize: the certificate exists before anything names it.              *)
LEMMA FinalizeOrderInv ==
  ASSUME Shape, OrderInv, NEW f \in Finalizes,
         \/ StartFinalize(f) \/ RejectFinalize(f)
         \/ \E c \in Certs : Sign(f, c) \/ StoreFails(f, c)
         \/ ChainFails(f) \/ SaveCert(f)
         \/ TruncateFinalized(f) \/ WriteFinalized(f) \/ SaveFinalizedFails(f)
  PROVE  OrderInv'
<1>1. /\ UNCHANGED << validation, proved >>
      /\ certFiles \subseteq certFiles' /\ issued \subseteq issued'
  BY DEF StartFinalize, RejectFinalize, Sign, StoreFails, ChainFails, SaveCert,
         TruncateFinalized, WriteFinalized, SaveFinalizedFails, pki
<1>2. /\ AllProved => AllProved'
      /\ \A doc : OrderSound(doc) => OrderSound(doc)'
      /\ \A job : JobOrder(job) => JobOrder(job)'
      /\ \A h : FinalizeSound(h) => FinalizeSound(h)'
  BY <1>1, SoundnessPersists
<1>3. PICK h : h = finalize[f] /\ FinalizeSound(h)
               /\ h \in [pc : {"idle", "sign", "chain", "saveOrder", "writeOrder"},
                         cert : Certs \cup {NoCert}]
  BY DEF OrderInv, Shape, TypeOK
<1>4. ASSUME NEW new, finalize' = [finalize EXCEPT ![f] = new], FinalizeSound(new)',
             \/ orderFile' = orderFile
             \/ orderFile' \in NoDoc
             \/ \E doc : orderFile' = doc /\ OrderSound(doc)
      PROVE  /\ (Readable(orderFile) => OrderSound(orderFile))'
             /\ \A v \in Validations : JobOrder(validation[v])'
             /\ \A g \in Finalizes : FinalizeSound(finalize[g])'
  <2>1. PICK doc : doc = orderFile'
    OBVIOUS
  <2>2. Readable(doc) => OrderSound(doc)'
    BY <1>2, <1>4, <2>1 DEF OrderInv, Readable
  <2>3. (Readable(orderFile) => OrderSound(orderFile))'
    BY <2>1, <2>2 DEF OrderSound, Readable
  <2>4. ASSUME NEW v \in Validations PROVE JobOrder(validation[v])'
    <3>1. PICK job : job = validation[v]
      OBVIOUS
    <3>2. JobOrder(job)'
      BY <1>2, <3>1 DEF OrderInv
    <3> QED BY <1>1, <3>1, <3>2 DEF JobOrder, OrderSound
  <2>5. ASSUME NEW g \in Finalizes PROVE FinalizeSound(finalize[g])'
    <3>1. PICK k : k = finalize'[g]
      OBVIOUS
    <3>2. k = finalize[g] \/ (g = f /\ k = new)
      BY <1>4, <3>1 DEF Shape, TypeOK
    <3>3. FinalizeSound(k)'
      BY <1>2, <1>4, <3>2 DEF OrderInv
    <3> QED BY <3>1, <3>3 DEF FinalizeSound
  <2> QED BY <2>3, <2>4, <2>5
<1>5. IssuedIsReported'
  <2>1. CASE \E c \in Certs : Sign(f, c) \/ StoreFails(f, c)
    BY <2>1 DEF OrderInv, IssuedIsReported, Sign, StoreFails
  <2>2. CASE UNCHANGED << issued, notices, backend, unreported >>
    BY <2>2 DEF OrderInv, IssuedIsReported
  <2> QED
    BY <2>1, <2>2 DEF StartFinalize, RejectFinalize, ChainFails, SaveCert,
                      TruncateFinalized, WriteFinalized, SaveFinalizedFails, pki
<1>6. ASSUME NEW p, NEW c
      PROVE  /\ [h EXCEPT !.pc = p].pc = p /\ [h EXCEPT !.pc = p].cert = h.cert
             /\ [h EXCEPT !.pc = p, !.cert = c].pc = p
             /\ [h EXCEPT !.pc = p, !.cert = c].cert = c
  BY <1>3
<1>7. CASE StartFinalize(f)
  <2>0. [h EXCEPT !.pc = "sign"].pc = "sign"
    BY <1>6
  <2>1. PICK new : new = [h EXCEPT !.pc = "sign"] /\ new.pc = "sign"
    BY <2>0
  <2>2. FinalizeSound(new)'
    BY <1>2, <1>7, <2>1 DEF StartFinalize, FinalizeSound, OrderInv
  <2>3. finalize' = [finalize EXCEPT ![f] = new] /\ UNCHANGED << orderFile, delivered, pki >>
    BY <1>3, <1>7, <2>1 DEF StartFinalize, files
  <2> QED BY <1>4, <1>5, <2>2, <2>3 DEF OrderInv, pki
<1>8. CASE RejectFinalize(f) \/ ChainFails(f)
  <2>1. FinalizeSound(IdleFinalize)'
    BY DEF FinalizeSound, IdleFinalize
  <2>2. /\ finalize' = [finalize EXCEPT ![f] = IdleFinalize]
        /\ UNCHANGED << orderFile, delivered, pki >>
    BY <1>8 DEF RejectFinalize, ChainFails, files
  <2> QED BY <1>4, <1>5, <2>1, <2>2 DEF OrderInv, pki
<1>9. ASSUME NEW c \in Certs, Sign(f, c) PROVE OrderInv'
  <2>0. [h EXCEPT !.pc = "chain", !.cert = c].pc = "chain"
        /\ [h EXCEPT !.pc = "chain", !.cert = c].cert = c
    BY <1>6
  <2>1. PICK new : /\ new = [h EXCEPT !.pc = "chain", !.cert = c]
                   /\ new.pc = "chain" /\ new.cert = c
    BY <2>0
  <2>2. FinalizeSound(new)'
    BY <1>2, <1>3, <1>9, <2>1 DEF Sign, FinalizeSound
  <2>3. /\ finalize' = [finalize EXCEPT ![f] = new]
        /\ UNCHANGED << orderFile, delivered, certFiles >>
    BY <1>3, <1>9, <2>1 DEF Sign, files
  <2> QED BY <1>1, <1>4, <1>5, <2>2, <2>3 DEF OrderInv
<1>10. ASSUME NEW c \in Certs, StoreFails(f, c) PROVE OrderInv'
  <2>1. FinalizeSound(IdleFinalize)'
    BY DEF FinalizeSound, IdleFinalize
  <2>2. /\ finalize' = [finalize EXCEPT ![f] = IdleFinalize]
        /\ UNCHANGED << orderFile, delivered, certFiles >>
    BY <1>10 DEF StoreFails, files
  <2> QED BY <1>1, <1>4, <1>5, <2>1, <2>2 DEF OrderInv
<1>11. CASE SaveCert(f)
  <2>0. [h EXCEPT !.pc = "saveOrder"].pc = "saveOrder" /\ [h EXCEPT !.pc = "saveOrder"].cert = h.cert
    BY <1>6
  <2>1. PICK new : /\ new = [h EXCEPT !.pc = "saveOrder"]
                   /\ new.pc = "saveOrder" /\ new.cert = h.cert
    BY <2>0
  <2>2. FinalizeSound(new)'
    BY <1>2, <1>3, <1>11, <2>1 DEF SaveCert, FinalizeSound
  <2>3. /\ finalize' = [finalize EXCEPT ![f] = new]
        /\ UNCHANGED << orderFile, delivered, issued >>
    BY <1>3, <1>11, <2>1 DEF SaveCert, files
  <2> QED BY <1>1, <1>4, <1>5, <2>2, <2>3 DEF OrderInv
<1>12. CASE TruncateFinalized(f)
  <2>0. [h EXCEPT !.pc = "writeOrder"].pc = "writeOrder" /\ [h EXCEPT !.pc = "writeOrder"].cert = h.cert
    BY <1>6
  <2>1. PICK new : /\ new = [h EXCEPT !.pc = "writeOrder"]
                   /\ new.pc = "writeOrder" /\ new.cert = h.cert
    BY <2>0
  <2>2. FinalizeSound(new)'
    BY <1>2, <1>3, <1>12, <2>1 DEF TruncateFinalized, FinalizeSound, pki
  <2>3. /\ finalize' = [finalize EXCEPT ![f] = new]
        /\ orderFile' \in NoDoc
        /\ UNCHANGED << delivered, pki >>
    BY <1>3, <1>12, <2>1 DEF TruncateFinalized, NoDoc
  <2> QED BY <1>4, <1>5, <2>2, <2>3 DEF OrderInv, pki
<1>13. CASE WriteFinalized(f) \/ SaveFinalizedFails(f)
  <2>1. FinalizeSound(IdleFinalize)'
    BY DEF FinalizeSound, IdleFinalize
  <2>2. h.cert \in certFiles \cap issued /\ h.cert \in Certs
    BY <1>3, <1>13 DEF WriteFinalized, SaveFinalizedFails, FinalizeSound, Shape
  <2>3. /\ finalize' = [finalize EXCEPT ![f] = IdleFinalize]
        /\ delivered' = delivered \cup {h.cert}
        /\ UNCHANGED pki
    BY <1>3, <1>13 DEF WriteFinalized, SaveFinalizedFails, Respond
  <2>4. OrderSound(Finalized(h.cert)) /\ Finalized(h.cert) \in OrderDoc
    BY <2>2, FinalizedType, OrderAssumption DEF OrderSound, Finalized
  <2>5. \/ orderFile' = orderFile \/ orderFile' \in NoDoc
        \/ \E doc : orderFile' = doc /\ OrderSound(doc)
    <3>1. CASE SaveFinalizedFails(f)
      BY <3>1 DEF SaveFinalizedFails, files
    <3>2. CASE WriteFinalized(f)
      <4>1. orderFile' \in {Finalized(h.cert), Garbled}
        BY <1>3, <2>4, <3>2, LandingType DEF WriteFinalized, Shape, TypeOK
      <4> QED BY <2>4, <4>1 DEF NoDoc
    <3> QED BY <1>13, <3>1, <3>2
  <2> QED BY <1>4, <1>5, <2>1, <2>2, <2>3, <2>5 DEF OrderInv, pki
<1> QED BY <1>7, <1>8, <1>9, <1>10, <1>11, <1>12, <1>13

(* new-order, the backend and crashes.                                     *)
LEMMA RestOrderInv ==
  ASSUME Shape, OrderInv,
         \/ SaveNewAuthz \/ SaveNewOrder \/ NewOrderFails
         \/ \E c \in Certs : Notified(c) \/ NotifyLost(c)
         \/ Crash \/ UNCHANGED vars
  PROVE  OrderInv'
<1>0. UNCHANGED << certFiles, issued, proved >>
  BY DEF SaveNewAuthz, SaveNewOrder, NewOrderFails, Notified, NotifyLost, Crash,
         vars, pki
<1>1. /\ AllProved => AllProved'
      /\ \A doc : OrderSound(doc) => OrderSound(doc)'
      /\ \A job : JobOrder(job) => JobOrder(job)'
      /\ \A h : FinalizeSound(h) => FinalizeSound(h)'
  BY <1>0, SoundnessPersists
<1>2. CASE SaveNewAuthz \/ UNCHANGED vars
  BY <1>2, OrderInvKept DEF SaveNewAuthz, vars, files
<1>3. CASE SaveNewOrder
  <2>1. OrderSound(NewOrder)
    BY DEF OrderSound, NewOrder
  <2> QED BY <1>3, <2>1, OrderInvKept DEF SaveNewOrder
<1>4. CASE NewOrderFails
  <2>1. orderFile' = orderFile \/ orderFile' \in NoDoc
    BY <1>4 DEF NewOrderFails, NoDoc
  <2> QED BY <1>4, <2>1, OrderInvKept DEF NewOrderFails
<1>5. ASSUME UNCHANGED << orderFile, certFiles, issued, proved, delivered >>,
             IssuedIsReported',
             UNCHANGED << validation, finalize >> \/ Crash
      PROVE  OrderInv'
  <2>1. (Readable(orderFile) => OrderSound(orderFile))'
    BY <1>1, <1>5 DEF OrderInv, OrderSound
  <2>2. ASSUME NEW v \in Validations PROVE JobOrder(validation[v])'
    <3>1. PICK job : job = validation'[v]
      OBVIOUS
    <3>2. JobOrder(job)
      BY <1>5, <3>1, IdleSound DEF OrderInv, Crash
    <3> QED BY <1>1, <3>1, <3>2 DEF JobOrder, OrderSound
  <2>3. ASSUME NEW f \in Finalizes PROVE FinalizeSound(finalize[f])'
    <3>1. PICK h : h = finalize'[f]
      OBVIOUS
    <3>2. FinalizeSound(h)
      BY <1>5, <3>1, IdleSound DEF OrderInv, Crash
    <3> QED BY <1>1, <3>1, <3>2 DEF FinalizeSound
  <2> QED BY <1>5, <2>1, <2>2, <2>3 DEF OrderInv
<1>6. ASSUME NEW c \in Certs, Notified(c) \/ NotifyLost(c) PROVE OrderInv'
  <2>1. IssuedIsReported'
    BY <1>1, <1>6 DEF Notified, NotifyLost, OrderInv, IssuedIsReported
  <2> QED BY <1>5, <1>6, <2>1 DEF Notified, NotifyLost, files
<1>7. CASE Crash
  <2>1. IssuedIsReported'
    BY <1>1, <1>7 DEF Crash, OrderInv, IssuedIsReported
  <2> QED BY <1>5, <1>7, <2>1 DEF Crash, files
<1> QED BY <1>2, <1>3, <1>4, <1>6, <1>7

LEMMA InitOrderInv == Init => OrderInv
  BY IdleSound DEF Init, OrderInv, Readable, NoDoc, IssuedIsReported

LEMMA NextOrderInv == Shape /\ AuthzInv /\ OrderInv /\ [Next]_vars => OrderInv'
  BY ChallengeOrderInv, UpdateOrderInv, FinalizeOrderInv, RestOrderInv DEF Next

LEMMA OrderInvariance == Spec => []OrderInv
  BY InitOrderInv, NextOrderInv, ShapeInvariance, AuthzInvariance, PTL DEF Spec

(* However the goroutines overlap, and whatever they read half written or  *)
(* lose, an order is ready only when every identifier has been validated   *)
(* (order.go:124-156).                                                     *)
THEOREM ReadyOnlyWhenProved == Spec => []ReadyMeansProved
<1>1. OrderInv => ReadyMeansProved
  BY DEF OrderInv, ReadyMeansProved, OrderSound
<1> QED BY <1>1, OrderInvariance, PTL

(* Neither a file nor a client holds a certificate URL without a           *)
(* certificate behind it (acme_handler.go:716-731).                        *)
THEOREM CertUrlAlwaysResolves == Spec => []CertUrlResolves
<1>1. OrderInv => CertUrlResolves
  BY DEF OrderInv, CertUrlResolves, OrderSound
<1> QED BY <1>1, OrderInvariance, PTL

(* No failure after the certificate is stored hides it from the backend    *)
(* (sign.go:54-64).                                                        *)
THEOREM IssuedAlwaysReported == Spec => []IssuedIsReported
<1>1. OrderInv => IssuedIsReported
  BY DEF OrderInv
<1> QED BY <1>1, OrderInvariance, PTL
-----------------------------------------------------------------------------
Complete ==
    /\ challengeMap = ChallengeIds
    /\ \A i \in Identifiers : authzFile[i] # Absent

Busy ==
    \/ \E v \in Validations : validation[v].pc # "idle"
    \/ \E f \in Finalizes : finalize[f].pc # "idle"

(* How far new-order has come, and that nobody else starts before it ends. *)
CompleteInv ==
    /\ create.pc = "authz" => \A i \in Identifiers : i < create.next =>
          authzFile[i] # Absent /\ MappingsOf(i) \subseteq challengeMap
    /\ create.pc \in {"authz", "order"} => orderFile = Absent
    /\ create.pc \in {"order", "done"} => Complete
    /\ orderFile # Absent => Complete
    /\ Busy => create.pc = "done"

LEMMA DocIsThere ==
  \A i \in Identifiers : \A file \in AuthzDoc(i) \cup {Empty, Garbled} : file # Absent
  BY FileAssumption DEF NoDoc

(* Once new-order is done, nothing takes an authorization file away.       *)
LEMMA DoneStaysComplete ==
  ASSUME CompleteInv, create.pc = "done", UNCHANGED << create, challengeMap >>,
         \A i \in Identifiers : authzFile'[i] = authzFile[i] \/ authzFile'[i] # Absent
  PROVE  CompleteInv'
  BY DEF CompleteInv, Complete

LEMMA IdleStaysComplete ==
  ASSUME CompleteInv, UNCHANGED << create, files >>, Busy' => Busy
  PROVE  CompleteInv'
  BY DEF CompleteInv, Complete, files

LEMMA CompleteStep == Shape /\ CompleteInv /\ [Next]_vars => CompleteInv'
<1> SUFFICES ASSUME Shape, CompleteInv, [Next]_vars PROVE CompleteInv'
  OBVIOUS
<1>1. CASE SaveNewAuthz
  <2>1. PICK k : k = create.next
    OBVIOUS
  <2>2. k \in Identifiers /\ k \in Int
    BY <1>1, <2>1, OrderAssumption DEF SaveNewAuthz, Shape, TypeOK, Identifiers
  <2>3. /\ authzFile'[k] # Absent
        /\ MappingsOf(k) \subseteq challengeMap'
        /\ challengeMap \subseteq challengeMap'
        /\ \A i \in Identifiers \ {k} : authzFile'[i] = authzFile[i]
    BY <1>1, <2>1, <2>2, NewAuthzType, DocIsThere DEF SaveNewAuthz, Shape, TypeOK
  <2>4. ASSUME NEW i \in Identifiers, i < k + 1
        PROVE  authzFile'[i] # Absent /\ MappingsOf(i) \subseteq challengeMap'
    <3>1. i < k \/ i = k
      BY <2>2, <2>4 DEF Identifiers
    <3> QED BY <1>1, <2>1, <2>3, <3>1 DEF SaveNewAuthz, CompleteInv
  <2>5. challengeMap' \subseteq ChallengeIds
    BY <1>1, <2>1, <2>2 DEF SaveNewAuthz, Shape, TypeOK, MappingsOf, ChallengeIds, Offered
  <2>6. ASSUME k = N PROVE Complete'
    <3>1. \A i \in Identifiers : authzFile'[i] # Absent /\ MappingsOf(i) \subseteq challengeMap'
      BY <2>4, <2>6, OrderAssumption DEF Identifiers
    <3>2. ChallengeIds \subseteq challengeMap'
      BY <3>1 DEF ChallengeIds, MappingsOf
    <3> QED BY <2>5, <3>1, <3>2 DEF Complete
  <2>7. create'.pc = (IF k = N THEN "order" ELSE "authz") /\ create'.next = k + 1
    BY <1>1, <2>1 DEF SaveNewAuthz
  <2>8. orderFile' = Absent /\ ~ Busy'
    BY <1>1 DEF SaveNewAuthz, CompleteInv, Busy
  <2> QED BY <2>4, <2>6, <2>7, <2>8 DEF CompleteInv
<1>2. CASE SaveNewOrder
  <2>1. create'.pc = "done" /\ Complete'
    BY <1>2 DEF SaveNewOrder, CompleteInv, Complete, Shape, TypeOK
  <2> QED BY <2>1 DEF CompleteInv
<1>3. CASE NewOrderFails
  <2>1. create'.pc = "failed" /\ ~ Busy'
    BY <1>3 DEF NewOrderFails, CompleteInv, Busy, Shape, TypeOK
  <2>2. orderFile' # Absent => Complete'
    BY <1>3 DEF NewOrderFails, CompleteInv, Complete
  <2> QED BY <2>1, <2>2 DEF CompleteInv
<1>4. ASSUME NEW v \in Validations, NEW c \in ChallengeIds, PostChallenge(v, c[1], c[2])
      PROVE  CompleteInv'
  BY <1>4, DoneStaysComplete DEF PostChallenge, files
<1>5. ASSUME NEW v \in Validations,
             \/ \E ok \in BOOLEAN : Validate(v, ok)
             \/ TruncateAuthz(v) \/ WriteAuthz(v) \/ SaveAuthzFails(v)
             \/ LoadOrder(v) \/ ScanAuthz(v)
             \/ TruncateOrder(v) \/ WriteOrder(v) \/ SaveOrderFails(v)
      PROVE  CompleteInv'
  <2>1. UNCHANGED << create, challengeMap >>
    BY <1>5 DEF Validate, TruncateAuthz, WriteAuthz, SaveAuthzFails, LoadOrder, ScanAuthz,
                TruncateOrder, WriteOrder, SaveOrderFails, files
  <2>2. create.pc = "done"
    <3>1. validation[v].pc # "idle"
      BY <1>5 DEF Validate, TruncateAuthz, WriteAuthz, SaveAuthzFails, LoadOrder, ScanAuthz,
                  TruncateOrder, WriteOrder, SaveOrderFails
    <3> QED BY <3>1 DEF CompleteInv, Busy
  <2>3. \A i \in Identifiers : authzFile'[i] = authzFile[i] \/ authzFile'[i] # Absent
    <3>1. CASE TruncateAuthz(v)
      BY <3>1, FileAssumption DEF TruncateAuthz, Shape, TypeOK
    <3>2. CASE WriteAuthz(v)
      <4>1. PICK job : job = validation[v] /\ JobShape(job)
        BY DEF Shape
      <4>2. job.ix \in Identifiers /\ job.authz \in AuthzDoc(job.ix)
        BY <3>2, <4>1 DEF WriteAuthz, JobShape
      <4>3. PICK file \in LandingAuthz(authzFile[job.ix], job.authz) :
              authzFile' = [authzFile EXCEPT ![job.ix] = file]
        BY <3>2, <4>1 DEF WriteAuthz
      <4>4. file \in AuthzDoc(job.ix) \cup {Garbled}
        BY <4>2, <4>3 DEF LandingAuthz
      <4>5. file # Absent
        BY <4>2, <4>4, DocIsThere
      <4> QED BY <4>2, <4>3, <4>5 DEF Shape, TypeOK
    <3>3. CASE authzFile' = authzFile
      BY <3>3
    <3> QED
      BY <1>5, <3>1, <3>2, <3>3 DEF Validate, SaveAuthzFails, LoadOrder, ScanAuthz,
                                    TruncateOrder, WriteOrder, SaveOrderFails, files
  <2> QED BY <2>1, <2>2, <2>3, DoneStaysComplete
<1>6. ASSUME NEW f \in Finalizes,
             \/ StartFinalize(f) \/ RejectFinalize(f)
             \/ \E c \in Certs : Sign(f, c) \/ StoreFails(f, c)
             \/ ChainFails(f) \/ SaveCert(f)
             \/ TruncateFinalized(f) \/ WriteFinalized(f) \/ SaveFinalizedFails(f)
      PROVE  CompleteInv'
  <2>1. UNCHANGED << create, challengeMap, authzFile >>
    BY <1>6 DEF StartFinalize, RejectFinalize, Sign, StoreFails, ChainFails, SaveCert,
                TruncateFinalized, WriteFinalized, SaveFinalizedFails, files
  <2>2. create.pc = "done"
    BY <1>6 DEF CompleteInv, Busy, StartFinalize, RejectFinalize, Sign, StoreFails,
                ChainFails, SaveCert, TruncateFinalized, WriteFinalized, SaveFinalizedFails
  <2> QED BY <2>1, <2>2, DoneStaysComplete
<1>7. CASE \/ \E c \in Certs : Notified(c) \/ NotifyLost(c)
           \/ Crash \/ UNCHANGED vars
  <2>1. UNCHANGED << create, files >>
    BY <1>7 DEF Notified, NotifyLost, Crash, vars, files
  <2>2. UNCHANGED << validation, finalize >> \/ ~ Busy'
    BY <1>7, IdlePc DEF Notified, NotifyLost, Crash, vars, Busy, IdleFinalize
  <2>3. Busy' => Busy
    BY <2>2 DEF Busy
  <2> QED BY <2>1, <2>3, IdleStaysComplete
<1> QED BY <1>1, <1>2, <1>3, <1>4, <1>5, <1>6, <1>7 DEF Next

LEMMA CompleteInvariance == Spec => []CompleteInv
<1>1. Init => CompleteInv
  BY OrderAssumption, IdlePc DEF Init, CompleteInv, Busy, IdleFinalize, Identifiers
<1> QED
  BY <1>1, CompleteStep, ShapeInvariance, PTL DEF Spec

(* Wherever new-order stops, an order that exists has all its              *)
(* authorizations and challenge mappings (acme_handler.go:411-430).        *)
THEOREM OrderAlwaysComplete == Spec => []OrderIsComplete
<1>1. CompleteInv => OrderIsComplete
  BY DEF CompleteInv, Complete, OrderIsComplete
<1> QED
  BY <1>1, CompleteInvariance, PTL
-----------------------------------------------------------------------------
(* OrderPromise.  The stages and reports of certificates are disjoint.     *)
PromiseInv ==
    /\ delivered \subseteq certFiles /\ certFiles \subseteq issued
    /\ notices \cup backend \cup unreported \subseteq issued
    /\ notices \cap (backend \cup unreported) = {} /\ backend \cap unreported = {}

LEMMA NextPromiseInv == Shape /\ OrderInv /\ PromiseInv /\ [Next]_vars => PromiseInv'
<1> SUFFICES ASSUME Shape, OrderInv, PromiseInv, [Next]_vars PROVE PromiseInv'
  OBVIOUS
<1>1. ASSUME UNCHANGED << pki, delivered >> PROVE PromiseInv'
  BY <1>1 DEF PromiseInv, pki
<1>2. CASE SaveNewAuthz \/ SaveNewOrder \/ NewOrderFails \/ UNCHANGED vars
  BY <1>1, <1>2 DEF SaveNewAuthz, SaveNewOrder, NewOrderFails, vars
<1>3. ASSUME NEW v \in Validations,
             \/ \E c \in ChallengeIds : PostChallenge(v, c[1], c[2])
             \/ \E ok \in BOOLEAN : Validate(v, ok)
             \/ TruncateAuthz(v) \/ WriteAuthz(v) \/ SaveAuthzFails(v)
             \/ LoadOrder(v) \/ ScanAuthz(v)
             \/ TruncateOrder(v) \/ WriteOrder(v) \/ SaveOrderFails(v)
      PROVE  PromiseInv'
  BY <1>1, <1>3 DEF PostChallenge, Validate, TruncateAuthz, WriteAuthz, SaveAuthzFails,
                    LoadOrder, ScanAuthz, TruncateOrder, WriteOrder, SaveOrderFails
<1>4. ASSUME NEW f \in Finalizes,
             StartFinalize(f) \/ RejectFinalize(f) \/ ChainFails(f) \/ TruncateFinalized(f)
      PROVE  PromiseInv'
  BY <1>1, <1>4 DEF StartFinalize, RejectFinalize, ChainFails, TruncateFinalized
<1>5. ASSUME NEW f \in Finalizes, NEW c \in Certs, Sign(f, c) \/ StoreFails(f, c)
      PROVE  PromiseInv'
  BY <1>5 DEF Sign, StoreFails, NewSerial, PromiseInv
<1>6. ASSUME NEW f \in Finalizes, SaveCert(f) PROVE PromiseInv'
  <2>1. finalize[f].cert \in issued
    BY <1>6 DEF SaveCert, OrderInv, FinalizeSound
  <2> QED BY <1>6, <2>1 DEF SaveCert, PromiseInv
<1>7. ASSUME NEW f \in Finalizes, WriteFinalized(f) \/ SaveFinalizedFails(f)
      PROVE  PromiseInv'
  <2>1. finalize[f].cert \in certFiles
    BY <1>7 DEF WriteFinalized, SaveFinalizedFails, OrderInv, FinalizeSound
  <2> QED BY <1>7, <2>1 DEF WriteFinalized, SaveFinalizedFails, Respond, PromiseInv, pki
<1>8. ASSUME NEW c \in Certs, Notified(c) \/ NotifyLost(c) PROVE PromiseInv'
  BY <1>8 DEF Notified, NotifyLost, PromiseInv
<1>9. CASE Crash
  BY <1>9 DEF Crash, PromiseInv
<1> QED
  BY <1>2, <1>3, <1>4, <1>5, <1>6, <1>7, <1>8, <1>9 DEF Next

LEMMA InitPromiseInv == Init => PromiseInv
BY DEF Init, PromiseInv

(* The certificates a client may be sent to are those that are stored.     *)
LEMMA KeptAreStored ==
  ASSUME Shape, PromiseInv
  PROVE  /\ \A c \in Certs : Stages[c] \in {"kept", "named"} <=> c \in certFiles
         /\ \A c \in Certs : c \notin issued => Stages[c] = "none" /\ Reports[c] = "none"
         /\ \A c \in notices : c \in Certs /\ Reports[c] = "owed"
  BY DEF Shape, TypeOK, PromiseInv, Stages, Reports

(* Whatever is in the file may be shown, because OrderInv holds of it.     *)
MayShow ==
    \/ Shown = Absent
    \/ /\ Shown.status = "ready" => ProvedSet = Identifiers
       /\ Shown.status = "valid" => Shown.cert # NoCert
       /\ Shown.cert = NoCert \/ Shown.cert \in {c \in Certs : Stages[c] \in {"kept", "named"}}

LEMMA FileIsSound == Shape /\ OrderInv /\ PromiseInv => MayShow
  BY KeptAreStored
  DEF Shape, TypeOK, OrderInv, OrderSound, Shown, AllProved, ProvedSet, OrderDoc, Readable,
      MayShow

LEMMA FileIsSoundNext == (Shape /\ OrderInv /\ PromiseInv)' => MayShow'
  BY FileIsSound, PTL

(* The steps of OrderPromise, each from what it changes.                   *)
LEMMA StepShows ==
  ASSUME Shape', OrderInv', PromiseInv',
         UNCHANGED << pki, delivered >>, ProvedSet' = ProvedSet
  PROVE  Promise!Show
<1>1. Stages' = Stages /\ Reports' = Reports
  BY DEF Stages, Reports, pki
<1>2. \/ Shown' = Absent
      \/ /\ Shown'.status = "ready" => ProvedSet = Identifiers
         /\ Shown'.status = "valid" => Shown'.cert # NoCert
         /\ \/ Shown'.cert = NoCert
            \/ Shown'.cert \in {c \in Certs : Stages[c] \in {"kept", "named"}}
  BY <1>1, FileIsSoundNext DEF MayShow
<1> QED
  BY <1>1, <1>2 DEF Promise!Show, Promise!Present, Promise!Sound, Promise!Kept

LEMMA StepPasses ==
  ASSUME NEW i \in Identifiers, NEW t \in Offered(i), proved' = proved \cup {<< i, t >>},
         UNCHANGED << orderFile, pki, delivered >>
  PROVE  Promise!Pass(i)
<1>1. ProvedSet' = ProvedSet \cup {i}
  BY DEF ProvedSet, Proved
<1>2. UNCHANGED << Shown, Stages, Reports >>
  BY DEF Shown, Readable, Stages, Reports, pki
<1> QED BY <1>1, <1>2 DEF Promise!Pass

LEMMA StepNames ==
  ASSUME Shape, Shape', OrderInv', PromiseInv, PromiseInv',
         NEW c \in certFiles, delivered' = delivered \cup {c},
         UNCHANGED << pki, proved >>
  PROVE  c \in Certs /\ Promise!Name(c)
<1>1. c \in Certs /\ c \in {d \in Certs : Stages[d] \in {"kept", "named"}}
  BY KeptAreStored DEF Shape, TypeOK
<1>2. Stages' = [Stages EXCEPT ![c] = "named"] /\ Reports' = Reports
  BY DEF Stages, Reports, pki
<1>3. {d \in Certs : Stages[d] \in {"kept", "named"}}' = {d \in Certs : Stages[d] \in {"kept", "named"}}
  BY <1>1, <1>2 DEF Stages
<1>4. ProvedSet' = ProvedSet
  BY DEF ProvedSet, Proved
<1>5. \/ Shown' = Absent
      \/ /\ Shown'.status = "ready" => ProvedSet = Identifiers
         /\ Shown'.status = "valid" => Shown'.cert # NoCert
         /\ \/ Shown'.cert = NoCert
            \/ Shown'.cert \in {d \in Certs : Stages[d] \in {"kept", "named"}}
  BY <1>3, <1>4, FileIsSoundNext DEF MayShow
<1> QED
  BY <1>1, <1>2, <1>4, <1>5 DEF Promise!Name, Promise!Present, Promise!Sound, Promise!Kept

LEMMA StepSigns ==
  ASSUME Shape, PromiseInv, NEW c \in Certs, c \notin issued, issued' = issued \cup {c},
         \/ notices' = notices \cup {c} /\ unreported' = unreported
         \/ unreported' = unreported \cup {c} /\ notices' = notices,
         UNCHANGED << orderFile, certFiles, backend, delivered, proved >>
  PROVE  Promise!Sign(c)
<1>1. Stages[c] = "none" /\ Reports[c] = "none"
  BY KeptAreStored
<1>2. Stages' = [Stages EXCEPT ![c] = "signed"]
  BY DEF Stages, PromiseInv
<1>3. Reports' \in {[Reports EXCEPT ![c] = r] : r \in {"owed", "lost"}}
  <2>1. CASE notices' = notices \cup {c} /\ unreported' = unreported
    <3>1. Reports' = [Reports EXCEPT ![c] = "owed"]
      BY <2>1 DEF Reports, PromiseInv
    <3> QED BY <3>1
  <2>2. CASE unreported' = unreported \cup {c} /\ notices' = notices
    <3>1. Reports' = [Reports EXCEPT ![c] = "lost"]
      BY <2>2 DEF Reports, PromiseInv
    <3> QED BY <3>1
  <2> QED BY <2>1, <2>2
<1>4. UNCHANGED << ProvedSet, Shown >>
  BY DEF ProvedSet, Proved, Shown, Readable
<1> QED BY <1>1, <1>2, <1>3, <1>4 DEF Promise!Sign

LEMMA StepStores ==
  ASSUME Shape, PromiseInv, NEW c \in issued, certFiles' = certFiles \cup {c},
         UNCHANGED << orderFile, issued, notices, backend, unreported, delivered, proved >>
  PROVE  c \in Certs /\ (Promise!Keep(c) \/ UNCHANGED Promise!promised)
<1>1. UNCHANGED << ProvedSet, Shown, Reports >>
  BY DEF ProvedSet, Proved, Shown, Readable, Reports
<1>2. c \in Certs
  BY DEF Shape, TypeOK
<1>3. CASE c \in certFiles
  <2>1. Stages' = Stages
    BY <1>3 DEF Stages
  <2> QED BY <1>1, <1>2, <2>1 DEF Promise!promised
<1>4. CASE c \notin certFiles
  <2>1. Stages[c] = "signed" /\ Stages' = [Stages EXCEPT ![c] = "kept"]
    BY <1>2, <1>4 DEF Stages, PromiseInv
  <2> QED BY <1>1, <1>2, <2>1 DEF Promise!Keep
<1> QED BY <1>3, <1>4

LEMMA StepReports ==
  ASSUME Shape, PromiseInv, NEW c \in notices, notices' = notices \ {c},
         backend' = backend \cup {c},
         UNCHANGED << orderFile, certFiles, issued, unreported, delivered, proved >>
  PROVE  Promise!Report(c)
<1>1. UNCHANGED << ProvedSet, Shown, Stages >>
  BY DEF ProvedSet, Proved, Shown, Readable, Stages
<1>2. c \in Certs /\ Reports[c] = "owed"
  BY KeptAreStored
<1>3. Reports' = [Reports EXCEPT ![c] = "told"]
  BY <1>2 DEF Reports
<1> QED BY <1>1, <1>2, <1>3 DEF Promise!Report

LEMMA StepLoses ==
  ASSUME Shape, PromiseInv, NEW C \in SUBSET notices, notices' = notices \ C,
         unreported' = unreported \cup C,
         UNCHANGED << orderFile, certFiles, issued, backend, delivered, proved >>
  PROVE  C \in SUBSET Certs /\ Promise!Lose(C)
<1>1. UNCHANGED << ProvedSet, Shown, Stages >>
  BY DEF ProvedSet, Proved, Shown, Readable, Stages
<1>2. \A c \in C : c \in Certs /\ Reports[c] = "owed"
  BY KeptAreStored
<1>3. Reports' = [c \in Certs |-> IF c \in C THEN "lost" ELSE Reports[c]]
  BY DEF Reports, PromiseInv
<1> QED BY <1>1, <1>2, <1>3 DEF Promise!Lose

(* Every step of the order is one of the promise or changes nothing that   *)
(* anyone was promised.                                                    *)
LEMMA NextKeepsPromise ==
  /\ Shape /\ OrderInv /\ PromiseInv
  /\ Shape' /\ OrderInv' /\ PromiseInv'
  /\ [Next]_vars
  => [Promise!Next]_(Promise!promised)
<1> SUFFICES ASSUME Shape, OrderInv, PromiseInv, Shape', OrderInv', PromiseInv', [Next]_vars
             PROVE  Promise!Next \/ UNCHANGED Promise!promised
  OBVIOUS
<1>1. ASSUME UNCHANGED << pki, delivered, proved >> PROVE Promise!Next
  <2>1. ProvedSet' = ProvedSet
    BY <1>1 DEF ProvedSet, Proved
  <2> QED BY <1>1, <2>1, StepShows DEF Promise!Next
<1>2. CASE SaveNewAuthz \/ SaveNewOrder \/ NewOrderFails \/ UNCHANGED vars
  BY <1>1, <1>2 DEF SaveNewAuthz, SaveNewOrder, NewOrderFails, vars
<1>3. ASSUME NEW v \in Validations,
             \/ \E c \in ChallengeIds : PostChallenge(v, c[1], c[2])
             \/ TruncateAuthz(v) \/ WriteAuthz(v) \/ SaveAuthzFails(v)
             \/ LoadOrder(v) \/ ScanAuthz(v)
             \/ TruncateOrder(v) \/ WriteOrder(v) \/ SaveOrderFails(v)
      PROVE  Promise!Next
  BY <1>1, <1>3 DEF PostChallenge, TruncateAuthz, WriteAuthz, SaveAuthzFails, LoadOrder,
                    ScanAuthz, TruncateOrder, WriteOrder, SaveOrderFails
<1>4. ASSUME NEW v \in Validations, NEW ok \in BOOLEAN, Validate(v, ok) PROVE Promise!Next
  <2>1. UNCHANGED << orderFile, pki, delivered >>
    BY <1>4 DEF Validate, files
  <2>2. PICK i, t : i = validation[v].ix /\ t = validation[v].type
    OBVIOUS
  <2>3. i \in Identifiers /\ t \in Offered(i)
    BY <1>4, <2>2 DEF Validate, Shape, JobShape
  <2>4. proved' = proved \/ proved' = proved \cup {<< i, t >>}
    BY <1>4, <2>2 DEF Validate
  <2> QED BY <1>1, <2>1, <2>3, <2>4, StepPasses DEF Promise!Next
<1>5. ASSUME NEW f \in Finalizes,
             StartFinalize(f) \/ RejectFinalize(f) \/ ChainFails(f) \/ TruncateFinalized(f)
      PROVE  Promise!Next
  BY <1>1, <1>5 DEF StartFinalize, RejectFinalize, ChainFails, TruncateFinalized
<1>6. ASSUME NEW f \in Finalizes, NEW c \in Certs, Sign(f, c) \/ StoreFails(f, c)
      PROVE  Promise!Next
  BY <1>6, StepSigns DEF Sign, StoreFails, NewSerial, files, Promise!Next
<1>7. ASSUME NEW f \in Finalizes, SaveCert(f) PROVE Promise!Next \/ UNCHANGED Promise!promised
  <2>1. finalize[f].cert \in issued
    BY <1>7 DEF SaveCert, OrderInv, FinalizeSound
  <2> QED BY <1>7, <2>1, StepStores DEF SaveCert, files, Promise!Next
<1>8. ASSUME NEW f \in Finalizes, WriteFinalized(f) \/ SaveFinalizedFails(f)
      PROVE  Promise!Next
  <2>1. finalize[f].cert \in certFiles
    BY <1>8 DEF WriteFinalized, SaveFinalizedFails, OrderInv, FinalizeSound
  <2> QED
    BY <1>8, <2>1, StepNames DEF WriteFinalized, SaveFinalizedFails, Respond, Promise!Next
<1>9. ASSUME NEW c \in Certs, Notified(c) PROVE Promise!Next
  BY <1>9, StepReports DEF Notified, files, Promise!Next
<1>10. ASSUME NEW c \in Certs, NotifyLost(c) PROVE Promise!Next
  <2>1. {c} \in SUBSET notices
    BY <1>10 DEF NotifyLost
  <2> QED BY <1>10, <2>1, StepLoses DEF NotifyLost, files, Promise!Next
<1>11. CASE Crash
  <2>1. notices \in SUBSET notices /\ notices' = notices \ notices
    BY <1>11 DEF Crash
  <2> QED BY <1>11, <2>1, StepLoses DEF Crash, files, Promise!Next
<1> QED
  BY <1>2, <1>3, <1>4, <1>5, <1>6, <1>7, <1>8, <1>9, <1>10, <1>11 DEF Next

LEMMA InitKeepsPromise == Init => Promise!Init
<1> SUFFICES ASSUME Init PROVE Promise!Init
  OBVIOUS
<1>1. ProvedSet = {} /\ Shown = Absent
  BY DEF Init, ProvedSet, Proved, Shown, Readable, NoDoc
<1>2. Stages = [c \in Certs |-> "none"] /\ Reports = [c \in Certs |-> "none"]
  BY DEF Init, Stages, Reports
<1> QED BY <1>1, <1>2 DEF Init, Promise!Init

(* For any number of identifiers, goroutines, handlers, certificates and   *)
(* faults, the order keeps what OrderPromise promises: no certificate is   *)
(* signed twice, named before it is stored or reported twice               *)
(* (acme_handler.go:590-744, sign.go:42-64).                               *)
THEOREM OrderKeepsPromise == Spec => KeepsPromise
<1>1. Spec => []PromiseInv
  BY InitPromiseInv, NextPromiseInv, ShapeInvariance, OrderInvariance, PTL DEF Spec
<1> QED
  BY <1>1, InitKeepsPromise, NextKeepsPromise, ShapeInvariance, OrderInvariance, PTL
  DEF Spec, KeepsPromise, Promise!Spec
=============================================================================
