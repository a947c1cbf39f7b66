------------------------- MODULE AcmeCleanupProofs --------------------------
(***************************************************************************)
(* What holds of an order while the worker removes its files, for any      *)
(* number of identifiers, goroutines, finalize requests and faults and any *)
(* limit.  The invariants of AcmeOrderProofs about what was proved survive *)
(* the removal of files (a file that is gone says nothing); the one about  *)
(* complete orders does not, and PartsOutliveOrder takes its place.  It    *)
(* rests on three invariants: CreationInv (what new-order has written by   *)
(* now was there once), AgeInv (what is due is old, and older than the     *)
(* order only if it was written apart from it) and PassInv (past its first *)
(* directory, the pass has left no order that is due).                     *)
(***************************************************************************)
EXTENDS AcmeCleanup, AcmeOrderProofs

OwnParts(i) == {AuthzFile(i)} \cup {<< "challenges", c >> : c \in MappingsOf(i)}

(* Once written: still there, removed when it was old, or removed by the   *)
(* race.                                                                   *)
Known(p) == p \in Existing \/ age[p] > 0 \/ p \in exempt

CreationInv ==
    /\ create.pc = "authz" => \A i \in Identifiers :
          /\ i < create.next => \A p \in OwnParts(i) : Known(p)
          /\ i >= create.next => authzFile[i] = Absent
    /\ create.pc \in {"authz", "order"} => orderFile = Absent
    /\ create.pc \in {"order", "done"} => \A p \in Parts : Known(p)
    /\ Busy => create.pc = "done"

AgeInv ==
    /\ \A f \in due : f \in Existing /\ age[f] > Limit
    /\ OrderFile \in Existing => \A p \in Parts :
          /\ age[OrderFile] < age[p] => p \in apart
          /\ p \in due => OrderFile \in due \/ p \in apart

InHand == IF cleaner.pc = "remove" THEN {cleaner.file} ELSE {}

PastOrders ==
    /\ cleaner.pc # "asleep" /\ cleaner.next > 1
    /\ OrderFile \notin cleaner.left \cup InHand

PassInv ==
    /\ cleaner.next = 1 => cleaner.left = {} /\ InHand = {}
    /\ cleaner.pc = "asleep" => cleaner.left = {}
    /\ \A f, g \in cleaner.left \cup InHand : f[1] = g[1]
    /\ PastOrders => OrderFile \notin due \/ OrderFile \in exempt

Grows(F) == \A f \in Files : f \in Existing' <=> f \in Existing \/ f \in F
-----------------------------------------------------------------------------
LEMMA FileNames ==
  /\ OrderFile \in Files /\ OrderFile \notin Parts /\ Parts \subseteq Files
  /\ Files = Parts \cup {OrderFile}
  /\ OrderFile[1] = "orders"
  /\ \A p \in Parts : p[1] # "orders"
  /\ \A i \in Identifiers : AuthzFile(i) \in Parts
  /\ \A c \in ChallengeIds : << "challenges", c >> \in Parts
  /\ \A p \in Parts : \/ \E i \in Identifiers : p = AuthzFile(i)
                      \/ \E c \in ChallengeIds : p = << "challenges", c >>
  BY DEF Files, Parts, OrderFile, AuthzFile, ChallengeFiles

LEMMA FileExists ==
  /\ OrderFile \in Existing <=> orderFile # Absent
  /\ \A i \in Identifiers : AuthzFile(i) \in Existing <=> authzFile[i] # Absent
  /\ \A c : << "challenges", c >> \in Existing <=> c \in challengeMap
  BY DEF Existing, OrderFile, AuthzFile

LEMMA FileExistsThen ==
  /\ OrderFile \in Existing' <=> orderFile' # Absent
  /\ \A i \in Identifiers : AuthzFile(i) \in Existing' <=> authzFile'[i] # Absent
  /\ \A c : << "challenges", c >> \in Existing' <=> c \in challengeMap'
  BY DEF Existing, OrderFile, AuthzFile

LEMMA ExistingAreFiles ==
  /\ challengeMap \subseteq ChallengeIds => Existing \subseteq Files
  /\ challengeMap' \subseteq ChallengeIds => Existing' \subseteq Files
  BY FileNames DEF Existing

(* No two files have one name.                                             *)
LEMMA NamesDiffer ==
  /\ \A i, j \in Identifiers : AuthzFile(i) = AuthzFile(j) => i = j
  /\ \A i \in Identifiers : \A c : AuthzFile(i) # << "challenges", c >>
  /\ \A i \in Identifiers : AuthzFile(i) # OrderFile
  /\ \A c : << "challenges", c >> # OrderFile
  /\ \A c, d : << "challenges", c >> = << "challenges", d >> => c = d
  BY DEF OrderFile, AuthzFile

LEMMA OwnPartsAreParts ==
  /\ \A i \in Identifiers : OwnParts(i) \subseteq Parts
  /\ \A p \in Parts : \E i \in Identifiers : p \in OwnParts(i)
<1>1. \A i \in Identifiers : MappingsOf(i) \subseteq ChallengeIds
  BY DEF MappingsOf, ChallengeIds, Offered
<1>2. \A c \in ChallengeIds : c[1] \in Identifiers /\ c \in MappingsOf(c[1])
  BY DEF MappingsOf, ChallengeIds
<1> QED BY <1>1, <1>2, FileNames DEF OwnParts

LEMMA ThreeDirectories == Len(Directories) = 3 /\ Directories[1] = "orders"
  BY DEF Directories
-----------------------------------------------------------------------------
(* A step that writes F, and creates what of it did not exist, keeps the   *)
(* pass and the ages in order.                                             *)
LEMMA StampedInv ==
  ASSUME CleanupTypeOK, AgeInv, PassInv, PartsOutliveOrder,
         NEW F \in SUBSET Files, Stamped(F), Grows(F), cleaner' \in {cleaner, Asleep},
         OrderFile \in F => \A p \in Parts : Known(p)
  PROVE  /\ AgeInv' /\ PassInv' /\ PartsOutliveOrder'
         /\ \A f \in Files : Known(f) \/ f \in F => Known(f)'
<1> USE FileNames, CleanupAssumption
<1>1. /\ \A f \in Files : age'[f] = IF f \in F THEN 0 ELSE age[f]
      /\ \A f \in Files : age[f] \in Nat
      /\ due' = due \ F /\ exempt' = exempt \ F
      /\ due \subseteq Files
  BY DEF Stamped, CleanupTypeOK
<1>2. \A f \in Files : f \in Existing' <=> f \in Existing \/ f \in F
  BY DEF Grows
<1>3. \A f \in Files : Known(f) \/ f \in F => Known(f)'
  BY <1>1, <1>2 DEF Known
<1>4. \A f \in due' : f \in Existing' /\ age'[f] > Limit
  BY <1>1, <1>2 DEF AgeInv
<1>5. ASSUME OrderFile \in F PROVE AgeInv' /\ PartsOutliveOrder'
  <2>1. apart' = {p \in Parts : age[p] > 0} /\ age'[OrderFile] = 0
    BY <1>1, <1>5 DEF Stamped
  <2>2. \A p \in Parts : /\ age'[OrderFile] < age'[p] => p \in apart'
                         /\ p \in due' => p \in apart'
    BY <1>1, <2>1 DEF AgeInv
  <2>3. \A p \in Parts : p \in Existing' \/ p \in apart' \cup exempt'
    BY <1>1, <1>2, <1>5, <2>1 DEF Known
  <2> QED BY <1>4, <2>2, <2>3 DEF AgeInv, PartsOutliveOrder
<1>6. ASSUME OrderFile \notin F PROVE AgeInv' /\ PartsOutliveOrder'
  <2>1. apart' = apart \ F
    BY <1>6 DEF Stamped
  <2>2. OrderFile \in Existing' => OrderFile \in Existing
    BY <1>2, <1>6
  <2>3. OrderFile \in Existing' => \A p \in Parts :
           /\ age'[OrderFile] < age'[p] => p \in apart'
           /\ p \in due' => OrderFile \in due' \/ p \in apart'
    BY <1>1, <1>6, <2>1, <2>2 DEF AgeInv
  <2>4. OrderFile \in Existing' /\ OrderFile \notin exempt' =>
           \A p \in Parts : p \in Existing' \/ p \in apart' \cup exempt'
    BY <1>1, <1>2, <1>6, <2>1, <2>2 DEF PartsOutliveOrder
  <2> QED BY <1>4, <2>3, <2>4 DEF AgeInv, PartsOutliveOrder
<1>7. PassInv'
  <2>1. CASE cleaner' = cleaner
    BY <1>1, <2>1 DEF PassInv, PastOrders, InHand
  <2>2. CASE cleaner' = Asleep
    BY <2>2 DEF PassInv, PastOrders, InHand, Asleep
  <2> QED BY <2>1, <2>2
<1> QED BY <1>3, <1>5, <1>6, <1>7

CleanupInv ==
    Shape /\ CleanupTypeOK /\ CreationInv /\ AgeInv /\ PassInv /\ PartsOutliveOrder

LEMMA AsleepType ==
  Asleep \in [pc : {"asleep", "look", "remove"}, next : 1..(Len(Directories) + 1),
              left : SUBSET Files, file : Files]
  BY FileNames, ThreeDirectories DEF Asleep

LEMMA StampedTypes ==
  ASSUME CleanupTypeOK, TypeOK', NEW F \in SUBSET Files, Stamped(F),
         cleaner' \in {cleaner, Asleep}
  PROVE  CleanupTypeOK'
<1>1. age' \in [Files -> 0..(Limit + 1)]
  BY CleanupAssumption DEF CleanupTypeOK, Stamped
<1>2. /\ due' \subseteq Files /\ exempt' \subseteq Files /\ apart' \subseteq Parts
      /\ unlinked' \subseteq Validations \cup Finalizes
  BY DEF CleanupTypeOK, Stamped
<1>3. cleaner' \in [pc : {"asleep", "look", "remove"}, next : 1..(Len(Directories) + 1),
                    left : SUBSET Files, file : Files]
  BY AsleepType DEF CleanupTypeOK
<1> QED BY <1>1, <1>2, <1>3 DEF CleanupTypeOK
-----------------------------------------------------------------------------
(* new-order.                                                              *)
LEMMA CreateInv ==
  ASSUME CleanupInv, Create \/ CreateFails
  PROVE  CleanupInv'
<1> USE FileNames DEF CleanupInv
<1>1. CASE SaveNewAuthz /\ Written(OwnParts(create.next))
  <2>1. PICK k : k = create.next
    OBVIOUS
  <2>2. create.pc = "authz" /\ k \in Identifiers /\ k \in Int /\ k <= N
    BY <1>1, <2>1, OrderAssumption DEF SaveNewAuthz, Shape, TypeOK, Identifiers
  <2>3. /\ authzFile' = [authzFile EXCEPT ![k] = NewAuthz(k)]
        /\ challengeMap' = challengeMap \cup MappingsOf(k)
        /\ orderFile' = orderFile
        /\ create'.pc = (IF k = N THEN "order" ELSE "authz") /\ create'.next = k + 1
        /\ UNCHANGED << validation, finalize >>
    BY <1>1, <2>1 DEF SaveNewAuthz
  <2>4. Shape'
    BY <1>1, NewOrderShape
  <2>5. OwnParts(k) \in SUBSET Files /\ OrderFile \notin OwnParts(k)
    BY <2>2, OwnPartsAreParts
  <2>6. Grows(OwnParts(k))
    <3>1. authzFile'[k] # Absent /\ \A i \in Identifiers \ {k} : authzFile'[i] = authzFile[i]
      BY <2>2, <2>3, NewAuthzType, DocIsThere DEF Shape, TypeOK
    <3>2. \A i \in Identifiers : AuthzFile(i) \in OwnParts(k) <=> i = k
      BY <2>2, NamesDiffer DEF OwnParts
    <3>3. \A c : << "challenges", c >> \in OwnParts(k) <=> c \in MappingsOf(k)
      BY <2>2, NamesDiffer DEF OwnParts
    <3>4. OrderFile \in Existing' <=> OrderFile \in Existing
      BY <2>3, FileExists, FileExistsThen
    <3>5. \A i \in Identifiers :
             AuthzFile(i) \in Existing' <=> AuthzFile(i) \in Existing \/ AuthzFile(i) \in OwnParts(k)
      BY <3>1, <3>2, FileExists, FileExistsThen
    <3>6. \A c \in ChallengeIds : << "challenges", c >> \in Existing' <=>
             << "challenges", c >> \in Existing \/ << "challenges", c >> \in OwnParts(k)
      BY <2>3, <3>3, FileExists, FileExistsThen
    <3>7. ASSUME NEW p \in Parts PROVE p \in Existing' <=> p \in Existing \/ p \in OwnParts(k)
      BY <3>5, <3>6
    <3> QED BY <2>5, <3>4, <3>7 DEF Grows
  <2>7. Stamped(OwnParts(k)) /\ cleaner' \in {cleaner, Asleep}
    BY <1>1, <2>1 DEF Written
  <2>8. /\ AgeInv' /\ PassInv' /\ PartsOutliveOrder'
        /\ \A f \in Files : Known(f) \/ f \in OwnParts(k) => Known(f)'
    BY <2>5, <2>6, <2>7, StampedInv
  <2>9. CleanupTypeOK'
    BY <2>4, <2>5, <2>7, StampedTypes DEF Shape
  <2>10. CreationInv'
    <3>1. ASSUME NEW i \in Identifiers, i < k + 1 PROVE \A p \in OwnParts(i) : Known(p)'
      <4>1. i < k \/ i = k
        BY <2>2, <3>1 DEF Identifiers
      <4>2. i < k => \A p \in OwnParts(i) : Known(p)
        BY <2>1, <2>2 DEF CreationInv
      <4> QED BY <2>8, <4>1, <4>2, OwnPartsAreParts
    <3>2. \A i \in Identifiers : i >= k + 1 => authzFile'[i] = Absent
      BY <2>1, <2>2, <2>3 DEF CreationInv, Shape, TypeOK, Identifiers
    <3>3. k = N => \A p \in Parts : Known(p)'
      BY <2>2, <3>1, OwnPartsAreParts DEF Identifiers
    <3>4. orderFile' = Absent /\ ~ Busy'
      BY <2>2, <2>3 DEF CreationInv, Busy
    <3> QED BY <2>3, <3>1, <3>2, <3>3, <3>4 DEF CreationInv
  <2> QED BY <2>4, <2>8, <2>9, <2>10
<1>2. CASE SaveNewOrder /\ Written({OrderFile})
  <2>1. /\ create.pc = "order" /\ create'.pc = "done" /\ orderFile' = NewOrder
        /\ UNCHANGED << authzFile, challengeMap, validation, finalize >>
    BY <1>2 DEF SaveNewOrder, Shape, TypeOK
  <2>2. Shape'
    BY <1>2, NewOrderShape
  <2>3. orderFile' # Absent
    BY <2>1, NewOrderType, FileAssumption DEF NoDoc
  <2>4. ASSUME NEW p \in Parts PROVE p \in Existing' <=> p \in Existing
    BY <2>1, FileExists, FileExistsThen
  <2>5. Grows({OrderFile})
    BY <2>3, <2>4, FileExistsThen DEF Grows
  <2>6. Stamped({OrderFile}) /\ cleaner' \in {cleaner, Asleep}
    BY <1>2 DEF Written
  <2>7. \A p \in Parts : Known(p)
    BY <2>1 DEF CreationInv
  <2>8. /\ AgeInv' /\ PassInv' /\ PartsOutliveOrder'
        /\ \A f \in Files : Known(f) => Known(f)'
    BY <2>5, <2>6, <2>7, StampedInv
  <2>9. CleanupTypeOK'
    BY <2>2, <2>6, StampedTypes DEF Shape
  <2>10. CreationInv'
    BY <2>1, <2>7, <2>8 DEF CreationInv
  <2> QED BY <2>2, <2>8, <2>9, <2>10
<1>3. CASE CreateFails
  <2>0. Existing' \subseteq Files
    BY <1>3, NewOrderShape, ExistingAreFiles DEF CreateFails, Shape, TypeOK
  <2>1. PICK F \in SUBSET Files : F = Existing' \ Existing /\ Stamped(F)
    BY <1>3, <2>0 DEF CreateFails
  <2>2. /\ create.pc \in {"authz", "order"} /\ create'.pc = "failed"
        /\ UNCHANGED << validation, finalize >>
    BY <1>3 DEF CreateFails, NewOrderFails, Shape, TypeOK
  <2>3. Shape'
    BY <1>3, NewOrderShape DEF CreateFails
  <2>4. \A f \in Files : f \in Existing => f \in Existing'
    <3>1. CASE create.pc = "authz"
      <4>1. PICK k : k = create.next
        OBVIOUS
      <4>2. k \in Identifiers /\ k \in Int
        BY <3>1, <4>1, OrderAssumption DEF Shape, TypeOK, Identifiers
      <4>3. authzFile[k] = Absent /\ orderFile = Absent
        BY <3>1, <4>1, <4>2 DEF CreationInv
      <4>4. /\ \A i \in Identifiers \ {k} : authzFile'[i] = authzFile[i]
            /\ challengeMap \subseteq challengeMap'
        BY <1>3, <3>1, <4>1, <4>2 DEF CreateFails, NewOrderFails, Shape, TypeOK
      <4>5. \A i \in Identifiers : AuthzFile(i) \in Existing => AuthzFile(i) \in Existing'
        BY <4>3, <4>4, FileExists, FileExistsThen
      <4>6. \A c \in ChallengeIds : << "challenges", c >> \in Existing => << "challenges", c >> \in Existing'
        BY <4>4, FileExists, FileExistsThen
      <4>7. OrderFile \notin Existing
        BY <4>3, FileExists
      <4> QED BY <4>5, <4>6, <4>7
    <3>2. CASE create.pc = "order"
      <4>1. UNCHANGED << authzFile, challengeMap >> /\ orderFile = Absent
        BY <1>3, <3>2 DEF CreateFails, NewOrderFails, CreationInv
      <4>2. \A p \in Parts : p \in Existing' <=> p \in Existing
        BY <4>1, FileExists, FileExistsThen
      <4> QED BY <4>1, <4>2, FileExists
    <3> QED BY <2>2, <3>1, <3>2
  <2>5. Grows(F)
    BY <2>1, <2>4 DEF Grows
  <2>6. OrderFile \in F => \A p \in Parts : Known(p)
    <3>1. CASE create.pc = "authz"
      BY <1>3, <2>1, <3>1, FileExists, FileExistsThen DEF CreateFails, NewOrderFails
    <3>2. CASE create.pc = "order"
      BY <3>2 DEF CreationInv
    <3> QED BY <2>2, <3>1, <3>2
  <2>7. cleaner' \in {cleaner, Asleep}
    BY <1>3 DEF CreateFails
  <2>8. AgeInv' /\ PassInv' /\ PartsOutliveOrder'
    BY <2>1, <2>5, <2>6, <2>7, StampedInv
  <2>9. CleanupTypeOK'
    BY <2>1, <2>3, <2>7, StampedTypes DEF Shape
  <2>10. CreationInv'
    BY <2>2 DEF CreationInv, Busy
  <2> QED BY <2>3, <2>8, <2>9, <2>10
<1> QED BY <1>1, <1>2, <1>3 DEF Create, OwnParts
-----------------------------------------------------------------------------
(* The other steps of the order: new-order stays where it is.              *)
LEMMA RestInv ==
  ASSUME CleanupInv, Shape', NEW F \in SUBSET Files, Stamped(F), Grows(F),
         cleaner' \in {cleaner, Asleep}, UNCHANGED create,
         create.pc = "done" \/ (F = {} /\ UNCHANGED files),
         Busy' => create.pc = "done"
  PROVE  CleanupInv'
<1> USE FileNames DEF CleanupInv
<1>1. OrderFile \in F => \A p \in Parts : Known(p)
  BY DEF CreationInv
<1>2. /\ AgeInv' /\ PassInv' /\ PartsOutliveOrder'
      /\ \A f \in Files : Known(f) => Known(f)'
  BY <1>1, StampedInv
<1>3. CleanupTypeOK'
  BY StampedTypes DEF Shape
<1>4. CreationInv'
  <2>1. CASE create.pc = "done"
    BY <1>2, <2>1 DEF CreationInv
  <2>2. CASE create.pc # "done"
    BY <1>2, <2>2, OwnPartsAreParts DEF CreationInv, files
  <2> QED BY <2>1, <2>2
<1> QED BY <1>2, <1>3, <1>4

LEMMA NothingGrows ==
  ASSUME UNCHANGED files
  PROVE  Grows({})
<1>1. \A f \in Files : f \in Existing' <=> f \in Existing
  BY DEF files, Existing
<1> QED BY <1>1 DEF Grows

LEMMA OrderWritten ==
  ASSUME orderFile' # Absent, UNCHANGED << authzFile, challengeMap >>
  PROVE  Grows({OrderFile})
<1>1. \A p \in Parts : p \in Existing' <=> p \in Existing
  BY FileNames, FileExists, FileExistsThen
<1> QED BY <1>1, FileNames, FileExistsThen DEF Grows

LEMMA AuthzWritten ==
  ASSUME NEW i \in Identifiers, NEW file, file # Absent, Shape,
         authzFile' = [authzFile EXCEPT ![i] = file],
         UNCHANGED << orderFile, challengeMap >>
  PROVE  Grows({AuthzFile(i)})
<1>1. authzFile'[i] # Absent /\ \A j \in Identifiers \ {i} : authzFile'[j] = authzFile[j]
  BY DEF Shape, TypeOK
<1>2. \A j \in Identifiers :
         AuthzFile(j) \in Existing' <=> AuthzFile(j) \in Existing \/ AuthzFile(j) = AuthzFile(i)
  BY <1>1, FileExists, FileExistsThen, NamesDiffer
<1>3. \A c \in ChallengeIds :
         /\ << "challenges", c >> \in Existing' <=> << "challenges", c >> \in Existing
         /\ << "challenges", c >> # AuthzFile(i)
  BY FileExists, FileExistsThen, NamesDiffer
<1>4. OrderFile \in Existing' <=> OrderFile \in Existing
  BY FileExists, FileExistsThen
<1> QED BY <1>2, <1>3, <1>4, FileNames DEF Grows

LEMMA RewriteInv ==
  ASSUME CleanupInv, Rewrite
  PROVE  CleanupInv'
<1> USE FileNames DEF CleanupInv
<1>0. Empty # Absent
  BY FileAssumption
<1>1. ASSUME NEW v \in Validations,
             TruncateAuthz(v) \/ WriteAuthz(v), Written({AuthzFile(validation[v].ix)})
      PROVE  CleanupInv'
  <2>1. PICK job : job = validation[v] /\ JobShape(job)
    BY DEF Shape
  <2>2. job.ix \in Identifiers
    BY <2>1 DEF JobShape
  <2>3. Shape'
    BY <1>1, ChallengeShape
  <2>4. create.pc = "done" /\ UNCHANGED << create, orderFile, challengeMap >>
    BY <1>1 DEF TruncateAuthz, WriteAuthz, CreationInv, Busy
  <2>5. Grows({AuthzFile(job.ix)})
    <3>1. CASE TruncateAuthz(v)
      BY <1>0, <2>1, <2>2, <2>4, <3>1, AuthzWritten DEF TruncateAuthz
    <3>2. CASE WriteAuthz(v)
      <4>1. PICK file \in LandingAuthz(authzFile[job.ix], job.authz) :
               authzFile' = [authzFile EXCEPT ![job.ix] = file]
        BY <2>1, <3>2 DEF WriteAuthz
      <4>2. file # Absent
        BY <2>1, <2>2, <3>2, <4>1, DocIsThere DEF LandingAuthz, JobShape, WriteAuthz
      <4> QED BY <2>2, <2>4, <4>1, <4>2, AuthzWritten
    <3> QED BY <1>1, <3>1, <3>2
  <2>6. Stamped({AuthzFile(job.ix)}) /\ cleaner' \in {cleaner, Asleep}
    BY <1>1, <2>1 DEF Written
  <2>7. {AuthzFile(job.ix)} \in SUBSET Files
    BY <2>2
  <2> HIDE DEF CleanupInv
  <2> QED BY <2>3, <2>4, <2>5, <2>6, <2>7, RestInv
<1>2. ASSUME NEW v \in Validations,
             TruncateOrder(v) \/ WriteOrder(v), Written({OrderFile})
      PROVE  CleanupInv'
  <2>1. Shape'
    BY <1>2, UpdateOrderShape
  <2>2. create.pc = "done" /\ UNCHANGED << create, authzFile, challengeMap >>
    BY <1>2 DEF TruncateOrder, WriteOrder, CreationInv, Busy
  <2>3. orderFile' # Absent
    <3>1. PICK job : job = validation[v] /\ JobShape(job)
      BY DEF Shape
    <3>2. WriteOrder(v) => job.order # Absent
      BY <3>1, FileAssumption DEF WriteOrder, JobShape, NoDoc
    <3> QED
      BY <1>0, <1>2, <3>1, <3>2, FileAssumption DEF TruncateOrder, WriteOrder, LandingOrder
  <2>4. Grows({OrderFile})
    BY <2>2, <2>3, OrderWritten
  <2>5. Stamped({OrderFile}) /\ cleaner' \in {cleaner, Asleep}
    BY <1>2 DEF Written
  <2>6. {OrderFile} \in SUBSET Files
    OBVIOUS
  <2> HIDE DEF CleanupInv
  <2> QED BY <2>1, <2>2, <2>4, <2>5, <2>6, RestInv
<1>3. ASSUME NEW f \in Finalizes,
             TruncateFinalized(f) \/ WriteFinalized(f), Written({OrderFile})
      PROVE  CleanupInv'
  <2>1. Shape'
    BY <1>3, FinalizeShape
  <2>2. create.pc = "done" /\ UNCHANGED << create, authzFile, challengeMap >>
    BY <1>3 DEF TruncateFinalized, WriteFinalized, CreationInv, Busy
  <2>3. orderFile' # Absent
    <3>1. WriteFinalized(f) => Finalized(finalize[f].cert) \in OrderDoc
      BY FinalizedType DEF WriteFinalized, Shape
    <3>2. \A doc \in OrderDoc : doc # Absent
      BY FileAssumption DEF NoDoc
    <3> QED
      BY <1>0, <1>3, <3>1, <3>2, FileAssumption DEF TruncateFinalized, WriteFinalized, LandingOrder
  <2>4. Grows({OrderFile})
    BY <2>2, <2>3, OrderWritten
  <2>5. Stamped({OrderFile}) /\ cleaner' \in {cleaner, Asleep}
    BY <1>3 DEF Written
  <2>6. {OrderFile} \in SUBSET Files
    OBVIOUS
  <2> HIDE DEF CleanupInv
  <2> QED BY <2>1, <2>2, <2>4, <2>5, <2>6, RestInv
<1> QED BY <1>1, <1>2, <1>3 DEF Rewrite

LEMMA OtherwiseInv ==
  ASSUME CleanupInv, Otherwise
  PROVE  CleanupInv'
<1>1. Shape'
  BY NextShape DEF CleanupInv, Otherwise, Next
<1>2. UNCHANGED << create, files >>
  BY DEF Otherwise, PostChallenge, Validate, SaveAuthzFails, LoadOrder, ScanAuthz,
         SaveOrderFails, StartFinalize, RejectFinalize, Sign, StoreFails, ChainFails, SaveCert,
         SaveFinalizedFails, Notified, NotifyLost
<1>3. Stamped({}) /\ cleaner' \in {cleaner, Asleep}
  BY DEF Otherwise, Written
<1>4. Busy' => create.pc = "done"
  <2>1. \/ Busy \/ create.pc = "done"
        \/ UNCHANGED << validation, finalize >>
    BY DEF Otherwise, PostChallenge, Validate, SaveAuthzFails, LoadOrder, ScanAuthz,
           SaveOrderFails, StartFinalize, RejectFinalize, Sign, StoreFails, ChainFails, SaveCert,
           SaveFinalizedFails, Notified, NotifyLost, Busy
  <2>2. UNCHANGED << validation, finalize >> => (Busy' <=> Busy)
    BY DEF Busy
  <2> QED BY <2>1, <2>2 DEF CleanupInv, CreationInv
<1>5. Grows({})
  BY <1>2, NothingGrows
<1> QED BY <1>1, <1>2, <1>3, <1>4, <1>5, RestInv

(* The process dies: the pass ends, the files stay.                        *)
LEMMA CrashAllInv ==
  ASSUME CleanupInv, CrashAll
  PROVE  CleanupInv'
<1> USE DEF CleanupInv
<1>1. Shape'
  BY CrashShape DEF CrashAll
<1>2. UNCHANGED << create, files, age, apart, exempt >> /\ cleaner' = Asleep /\ due' = {}
  BY DEF CrashAll, Crash
<1>3. \A f \in Files : f \in Existing' <=> f \in Existing
  BY <1>2 DEF Existing, files
<1>4. CleanupTypeOK'
  BY <1>1, <1>2, AsleepType DEF CleanupTypeOK, CrashAll, Shape
<1>5. PartsOutliveOrder'
  BY <1>2, <1>3, FileNames DEF PartsOutliveOrder
<1>6. AgeInv'
  BY <1>2, <1>3, FileNames DEF AgeInv
<1>7. PassInv'
  BY <1>2 DEF PassInv, PastOrders, InHand, Asleep
<1>8. CreationInv'
  <2>1. create.pc = "done" /\ \A p \in Parts : Known(p)
    BY DEF CrashAll, Crash, CreationInv
  <2>2. \A p \in Parts : Known(p)'
    BY <1>2, <1>3, <2>1, FileNames DEF Known
  <2> QED BY <1>2, <2>1, <2>2 DEF CreationInv
<1> QED BY <1>1, <1>4, <1>5, <1>6, <1>7, <1>8

(* What the writer of a removed file does next is what it always does.     *)
LEMMA UnlinkedShape ==
  ASSUME Shape, NEW w \in Validations \cup Finalizes, WriteUnlinked(w)
  PROVE  Shape'
<1>1. CASE w \in Validations
  <2>1. PICK job : job = IF validation[w].pc = "writeAuthz" THEN [IdleJob EXCEPT !.pc = "loadOrder"]
                                                          ELSE IdleJob
    OBVIOUS
  <2>2. JobShape([IdleJob EXCEPT !.pc = "loadOrder"])
    BY IdleShape DEF JobShape, Job, IdleJob
  <2>3. JobShape(job)
    BY <2>1, <2>2, IdleShape
  <2>4. validation' = [validation EXCEPT ![w] = job]
        /\ UNCHANGED << files, pki, create, finalize, delivered, proved, faults >>
    BY <1>1, <2>1, CleanupAssumption DEF WriteUnlinked
  <2>5. proved' \subseteq ChallengeIds /\ faults' \in 0..MaxFaults
    BY <2>4 DEF Shape, TypeOK
  <2> QED BY <1>1, <2>3, <2>4, <2>5, JobOnlyShape
<1>2. CASE w \in Finalizes
  <2>1. /\ finalize' = [finalize EXCEPT ![w] = IdleFinalize]
        /\ delivered' = delivered \cup {finalize[w].cert}
        /\ UNCHANGED << files, pki, create, validation, proved, faults >>
    BY <1>2, CleanupAssumption DEF WriteUnlinked, Respond
  <2>2. finalize[w].pc = "writeOrder"
    BY <1>2, CleanupAssumption DEF WriteUnlinked, Writers, WritesTo
  <2>3. finalize[w].cert \in Certs
    BY <1>2, <2>2 DEF Shape
  <2>4. finalize' \in [Finalizes -> [pc : {"idle", "sign", "chain", "saveOrder", "writeOrder"},
                                     cert : Certs \cup {NoCert}]]
    BY <2>1 DEF Shape, TypeOK, IdleFinalize
  <2>5. \A f \in Finalizes : finalize'[f].pc \in {"chain", "saveOrder", "writeOrder"} =>
           finalize'[f].cert \in Certs
    BY <2>1, <1>2 DEF Shape, TypeOK, IdleFinalize
  <2>6. TypeOK'
    BY <2>1, <2>3, <2>4 DEF Shape, TypeOK, files, pki
  <2> QED BY <2>1, <2>5, <2>6 DEF Shape
<1> QED BY <1>1, <1>2

LEMMA UnlinkedInv ==
  ASSUME CleanupInv, NEW w \in unlinked, WriteUnlinked(w)
  PROVE  CleanupInv'
<1>1. w \in Validations \cup Finalizes
  BY DEF CleanupInv, CleanupTypeOK
<1>2. Shape'
  BY <1>1, UnlinkedShape DEF CleanupInv
<1>3. UNCHANGED << create, files >> /\ Stamped({}) /\ cleaner' \in {cleaner, Asleep}
  BY DEF WriteUnlinked, Written
<1>4. create.pc = "done"
  BY DEF WriteUnlinked, Writers, WritesTo, CleanupInv, CreationInv, Busy
<1>5. Grows({})
  BY <1>3, NothingGrows
<1> QED BY <1>2, <1>3, <1>4, <1>5, RestInv
-----------------------------------------------------------------------------
(* The worker.                                                             *)

(* Its steps change ages, the pass and what is exempt, but no file.        *)
LEMMA WorkerInv ==
  ASSUME CleanupInv, UNCHANGED << files, create, validation, finalize >>, Shape',
         CleanupTypeOK', AgeInv', PassInv',
         apart' = apart, exempt \subseteq exempt',
         \A f \in Files : age[f] > 0 => age'[f] > 0
  PROVE  CleanupInv'
<1>1. Existing' = Existing /\ Busy' = Busy
  BY DEF Existing, files, Busy
<1>2. \A p \in Files : Known(p) => Known(p)'
  BY <1>1 DEF Known
<1>3. PartsOutliveOrder'
  BY <1>1 DEF CleanupInv, PartsOutliveOrder
<1>4. CreationInv'
  BY <1>1, <1>2, OwnPartsAreParts, FileNames DEF CleanupInv, CreationInv, files
<1> QED BY <1>3, <1>4 DEF CleanupInv

LEMMA NightInv ==
  ASSUME CleanupInv, Night
  PROVE  CleanupInv'
<1> USE FileNames, CleanupAssumption DEF CleanupInv
<1>1. Shape' /\ UNCHANGED << files, create, validation, finalize >> /\ Existing' = Existing
  BY StutterShape DEF Night, vars, files, Existing
<1>2. \A f \in Files : /\ age[f] \in 0..(Limit + 1)
                       /\ age'[f] = IF age[f] > Limit THEN age[f] ELSE age[f] + 1
  BY DEF Night, Older, CleanupTypeOK
<1>3. Existing \subseteq Files
  BY ExistingAreFiles DEF Shape, TypeOK
<1>4. UNCHANGED << unlinked, apart, exempt >>
  BY DEF Night
<1>5. \/ /\ cleaner' = [Asleep EXCEPT !.pc = "look"]
         /\ due' = {f \in Existing : age'[f] > Limit}
      \/ UNCHANGED << cleaner, due >>
  BY DEF Night
<1>6. CleanupTypeOK'
  <2>1. age' \in [Files -> 0..(Limit + 1)]
    <3>1. \A f \in Files : age'[f] \in 0..(Limit + 1)
      BY <1>2
    <3>2. age' = [f \in Files |-> age'[f]]
      BY DEF Night, Older
    <3> QED BY <3>1, <3>2
  <2>2. due' \subseteq Files
    BY <1>3, <1>5 DEF CleanupTypeOK
  <2>3. cleaner' \in [pc : {"asleep", "look", "remove"}, next : 1..(Len(Directories) + 1),
                      left : SUBSET Files, file : Files]
    <3>1. [Asleep EXCEPT !.pc = "look"] \in
             [pc : {"asleep", "look", "remove"}, next : 1..(Len(Directories) + 1),
              left : SUBSET Files, file : Files]
      BY AsleepType
    <3> QED BY <1>5, <3>1 DEF CleanupTypeOK
  <2> QED BY <1>1, <1>4, <2>1, <2>2, <2>3 DEF CleanupTypeOK, Shape
<1>7. AgeInv'
  <2>1. \A p \in Parts : age'[OrderFile] < age'[p] => age[OrderFile] < age[p]
    BY <1>2
  <2>2. CASE /\ cleaner' = [Asleep EXCEPT !.pc = "look"]
             /\ due' = {f \in Existing : age'[f] > Limit}
    <3>1. ASSUME NEW p \in Parts, p \in due', OrderFile \in Existing, OrderFile \notin due'
          PROVE  p \in apart
      <4>1. age'[OrderFile] < age'[p]
        BY <1>2, <2>2, <3>1
      <4> QED BY <2>1, <3>1, <4>1 DEF AgeInv
    <3> QED BY <1>1, <1>4, <2>1, <2>2, <3>1 DEF AgeInv
  <2>3. CASE UNCHANGED << cleaner, due >>
    <3>1. due \subseteq Files
      BY DEF CleanupTypeOK
    <3> QED BY <1>1, <1>2, <1>4, <2>1, <2>3, <3>1 DEF AgeInv
  <2> QED BY <1>5, <2>2, <2>3
<1>8. PassInv'
  <2>1. CASE cleaner' = [Asleep EXCEPT !.pc = "look"]
    BY <2>1 DEF PassInv, PastOrders, InHand, Asleep
  <2>2. CASE UNCHANGED << cleaner, due >>
    BY <1>4, <2>2 DEF PassInv, PastOrders, InHand
  <2> QED BY <1>5, <2>1, <2>2
<1>9. \A f \in Files : age[f] > 0 => age'[f] > 0
  BY <1>2
<1> HIDE DEF CleanupInv
<1> QED BY <1>1, <1>4, <1>6, <1>7, <1>8, <1>9, WorkerInv

(* Nothing but the pass itself changes.                                    *)
LEMMA StepOfThePass ==
  ASSUME CleanupInv, UNCHANGED << vars, age, due, unlinked, apart, exempt >>,
         cleaner' \in [pc : {"asleep", "look", "remove"}, next : 1..(Len(Directories) + 1),
                       left : SUBSET Files, file : Files],
         PassInv'
  PROVE  CleanupInv'
<1>1. Shape' /\ UNCHANGED << files, create, validation, finalize >> /\ Existing' = Existing
  BY StutterShape DEF CleanupInv, vars, files, Existing
<1>2. CleanupTypeOK'
  BY <1>1 DEF CleanupInv, CleanupTypeOK, Shape
<1>3. AgeInv'
  BY <1>1 DEF CleanupInv, AgeInv
<1> QED BY <1>1, <1>2, <1>3, WorkerInv

LEMMA ReadDirInv ==
  ASSUME CleanupInv, ReadDir
  PROVE  CleanupInv'
<1>1. PICK e : e = Entries
  OBVIOUS
<1>2. e \subseteq Files /\ (\A f \in e : f[1] = Directories[cleaner.next])
      /\ (OrderFile \in Existing /\ cleaner.next = 1 => OrderFile \in e)
  BY <1>1, ExistingAreFiles, FileNames, ThreeDirectories DEF Entries, CleanupInv, Shape, TypeOK
<1>3. /\ cleaner.pc = "look" /\ cleaner.left = {} /\ cleaner.next \in 1..3
      /\ cleaner' = [cleaner EXCEPT !.next = @ + 1, !.left = e]
      /\ UNCHANGED << vars, age, due, unlinked, apart, exempt >>
  BY <1>1, ThreeDirectories DEF ReadDir, CleanupInv, CleanupTypeOK
<1>4. /\ cleaner'.pc = "look" /\ cleaner'.next = cleaner.next + 1 /\ cleaner'.left = e
      /\ cleaner' \in [pc : {"asleep", "look", "remove"}, next : 1..(Len(Directories) + 1),
                       left : SUBSET Files, file : Files]
  <2>1. PICK n : n = cleaner.next + 1
    OBVIOUS
  <2>2. n \in 1..(Len(Directories) + 1)
    BY <1>3, <2>1, ThreeDirectories
  <2>3. cleaner' = [cleaner EXCEPT !.next = n, !.left = e]
    BY <1>3, <2>1
  <2>4. cleaner \in [pc : {"asleep", "look", "remove"}, next : 1..(Len(Directories) + 1),
                     left : SUBSET Files, file : Files]
    BY DEF CleanupInv, CleanupTypeOK
  <2> HIDE DEF Directories
  <2> QED BY <1>2, <1>3, <2>1, <2>2, <2>3, <2>4
<1>5. PassInv'
  <2>1. OrderFile \in due => OrderFile \in Existing
    BY DEF CleanupInv, AgeInv
  <2>2. PastOrders' => OrderFile \notin due \/ OrderFile \in exempt
    <3>1. CASE cleaner.next = 1
      BY <1>2, <1>4, <2>1, <3>1 DEF PastOrders
    <3>2. CASE cleaner.next > 1
      BY <1>3, <3>2 DEF PastOrders, CleanupInv, PassInv, InHand
    <3> QED BY <1>3, <3>1, <3>2
  <2> QED BY <1>2, <1>3, <1>4, <2>2 DEF PassInv, InHand
<1> QED BY <1>3, <1>4, <1>5, StepOfThePass

LEMMA LookInv ==
  ASSUME CleanupInv, NEW f \in Files, Look(f)
  PROVE  CleanupInv'
<1>1. /\ cleaner.pc = "look" /\ f \in cleaner.left
      /\ UNCHANGED << vars, age, due, unlinked, apart, exempt >>
      /\ cleaner'.next = cleaner.next /\ cleaner'.left = cleaner.left \ {f}
      /\ cleaner'.pc = (IF f \in due THEN "remove" ELSE "look")
      /\ f \in due => cleaner'.file = f
      /\ cleaner' \in [pc : {"asleep", "look", "remove"}, next : 1..(Len(Directories) + 1),
                       left : SUBSET Files, file : Files]
  BY DEF Look, CleanupInv, CleanupTypeOK
<1>2. InHand' \subseteq {f} /\ (f \in due => InHand' = {f}) /\ InHand = {}
  BY <1>1 DEF InHand
<1>3. cleaner'.left \cup InHand' \subseteq cleaner.left \cup InHand
  BY <1>1, <1>2
<1>4. cleaner.next # 1
  BY <1>1 DEF CleanupInv, PassInv
<1>5. PastOrders' => OrderFile \notin due \/ OrderFile \in exempt
  <2>1. CASE f = OrderFile
    BY <1>1, <1>2, <2>1 DEF PastOrders
  <2>2. CASE f # OrderFile
    BY <1>1, <1>2, <2>2 DEF PastOrders, CleanupInv, PassInv
  <2> QED BY <2>1, <2>2
<1>6. PassInv'
  BY <1>1, <1>3, <1>4, <1>5 DEF CleanupInv, PassInv
<1> QED BY <1>1, <1>6, StepOfThePass

LEMMA EndPassInv ==
  ASSUME CleanupInv, EndPass
  PROVE  CleanupInv'
<1>1. /\ UNCHANGED << vars, age, unlinked, apart, exempt >>
      /\ cleaner' = Asleep /\ due' = {}
  BY DEF EndPass
<1>2. Shape' /\ UNCHANGED << files, create, validation, finalize >> /\ Existing' = Existing
  BY <1>1, StutterShape DEF CleanupInv, vars, files, Existing
<1>3. CleanupTypeOK'
  BY <1>1, <1>2, AsleepType DEF CleanupInv, CleanupTypeOK, Shape
<1>4. AgeInv'
  BY <1>1, <1>2 DEF CleanupInv, AgeInv
<1>5. PassInv'
  BY <1>1 DEF PassInv, PastOrders, InHand, Asleep
<1> QED BY <1>1, <1>2, <1>3, <1>4, <1>5, WorkerInv

(* A file is removed.  If it is due it is old; if it is part of an order   *)
(* that is still there, the pass is past the orders, and the order was     *)
(* written apart from it or spared.                                        *)
LEMMA RemovedFile ==
  ASSUME Shape, CleanupTypeOK, Remove
  PROVE  /\ \A g \in Files : g \in Existing' <=> g \in Existing /\ g # cleaner.file
         /\ orderFile' \in {orderFile, Absent} /\ challengeMap' \subseteq challengeMap
         /\ DOMAIN authzFile' = Identifiers
         /\ \A i \in Identifiers : authzFile'[i] \in {authzFile[i], Absent}
<1> USE FileNames, NamesDiffer, FileExists, FileExistsThen
<1>1. PICK f : f = cleaner.file
  OBVIOUS
<1>2. /\ orderFile' = IF f = OrderFile THEN Absent ELSE orderFile
      /\ authzFile' = [i \in Identifiers |-> IF f = AuthzFile(i) THEN Absent ELSE authzFile[i]]
      /\ challengeMap' = {c \in challengeMap : f # << "challenges", c >>}
  BY <1>1 DEF Remove
<1>3. OrderFile \in Existing' <=> OrderFile \in Existing /\ OrderFile # f
  BY <1>2
<1>4. \A i \in Identifiers :
         AuthzFile(i) \in Existing' <=> AuthzFile(i) \in Existing /\ AuthzFile(i) # f
  BY <1>2
<1>5. \A c \in ChallengeIds : << "challenges", c >> \in Existing' <=>
         << "challenges", c >> \in Existing /\ << "challenges", c >> # f
  BY <1>2
<1>6. \A g \in Files : g \in Existing' <=> g \in Existing /\ g # f
  BY <1>3, <1>4, <1>5
<1> QED BY <1>1, <1>2, <1>6

LEMMA RemoveShape ==
  ASSUME Shape, CleanupTypeOK, Remove
  PROVE  Shape'
<1>1. /\ orderFile' \in {orderFile, Absent} /\ challengeMap' \subseteq challengeMap
      /\ DOMAIN authzFile' = Identifiers
      /\ \A i \in Identifiers : authzFile'[i] \in {authzFile[i], Absent}
  BY RemovedFile
<1>2. UNCHANGED << pki, create, validation, finalize, delivered, proved, faults >>
  BY DEF Remove
<1>3. /\ orderFile' \in OrderDoc \cup NoDoc
      /\ \A i \in Identifiers : authzFile'[i] \in AuthzDoc(i) \cup NoDoc
      /\ challengeMap' \subseteq ChallengeIds
  BY <1>1 DEF Shape, TypeOK, NoDoc
<1>4. TypeOK'
  BY <1>1, <1>2, <1>3, JobsUntouched DEF Shape, TypeOK, pki
<1> QED BY <1>2, <1>4, JobsUntouched DEF Shape

LEMMA RemoveInv ==
  ASSUME CleanupInv, Remove
  PROVE  CleanupInv'
<1> USE FileNames, CleanupAssumption DEF CleanupInv
<1>1. PICK f \in Files : f = cleaner.file
  BY DEF CleanupTypeOK
<1>2. /\ \A g \in Files : g \in Existing' <=> g \in Existing /\ g # f
      /\ orderFile' \in {orderFile, Absent}
      /\ \A i \in Identifiers : authzFile'[i] \in {authzFile[i], Absent}
  BY <1>1, RemovedFile
<1>3. /\ cleaner.pc = "remove" /\ due' = due \ {f}
      /\ exempt' = (IF f \in due THEN exempt \ {f} ELSE exempt \cup {f})
      /\ UNCHANGED << age, apart, create, validation, finalize >>
  BY <1>1 DEF Remove
<1>4. /\ cleaner'.pc = "look" /\ cleaner'.next = cleaner.next /\ cleaner'.left = cleaner.left
      /\ cleaner' \in [pc : {"asleep", "look", "remove"}, next : 1..(Len(Directories) + 1),
                       left : SUBSET Files, file : Files]
  BY DEF Remove, CleanupTypeOK
<1>5. InHand = {f} /\ InHand' = {}
  BY <1>1, <1>3, <1>4 DEF InHand
<1>6. Shape'
  BY RemoveShape
<1>7. CleanupTypeOK'
  <2>1. unlinked' \subseteq Validations \cup Finalizes
    BY DEF Remove, CleanupTypeOK
  <2>2. due' \subseteq Files /\ exempt' \subseteq Files
    BY <1>3 DEF CleanupTypeOK
  <2> QED BY <1>3, <1>4, <1>6, <2>1, <2>2 DEF CleanupTypeOK, Shape
<1>8. CreationInv'
  <2>1. \A p \in Files : Known(p) => Known(p)'
    <3>1. f \in due => age[f] > 0
      BY DEF AgeInv, CleanupTypeOK
    <3> QED BY <1>2, <1>3, <3>1 DEF Known
  <2>2. Busy' <=> Busy
    BY <1>3 DEF Busy
  <2> QED BY <1>2, <1>3, <2>1, <2>2, OwnPartsAreParts DEF CreationInv
<1>9. AgeInv'
  BY <1>2, <1>3 DEF AgeInv, CleanupTypeOK
<1>10. f # OrderFile => (PastOrders <=> OrderFile \notin cleaner.left /\ cleaner.next > 1)
  BY <1>3, <1>5 DEF PastOrders
<1>11. PassInv'
  <2>1. PastOrders' => OrderFile \notin due' \/ OrderFile \in exempt'
    BY <1>3, <1>4, <1>10 DEF PastOrders, PassInv
  <2> QED BY <1>4, <1>5, <2>1 DEF PassInv
<1>12. PartsOutliveOrder'
  <2>1. SUFFICES ASSUME OrderFile \in Existing', OrderFile \notin exempt', NEW p \in Parts
                 PROVE  p \in Existing' \/ p \in apart' \cup exempt'
    BY DEF PartsOutliveOrder
  <2>2. f # OrderFile /\ OrderFile \in Existing /\ OrderFile \notin exempt
    BY <1>2, <1>3, <2>1
  <2>3. CASE p # f
    BY <1>2, <1>3, <2>2, <2>3 DEF PartsOutliveOrder
  <2>4. CASE p = f /\ f \notin due
    BY <1>3, <2>4
  <2>5. CASE p = f /\ f \in due
    <3>1. OrderFile \notin cleaner.left
      BY <1>5, <2>5 DEF PassInv
    <3>2. cleaner.next > 1
      BY <1>5 DEF PassInv, CleanupTypeOK
    <3>3. OrderFile \notin due
      BY <1>10, <2>2, <3>1, <3>2 DEF PassInv
    <3> QED BY <1>3, <2>2, <2>5, <3>3 DEF AgeInv
  <2> QED BY <2>3, <2>4, <2>5
<1> QED BY <1>6, <1>7, <1>8, <1>9, <1>11, <1>12

(* What cannot be looked at or removed is spared.                          *)
LEMMA CleanupFailsInv ==
  ASSUME CleanupInv, CleanupFails
  PROVE  CleanupInv'
<1>1. /\ UNCHANGED << files, pki, create, validation, finalize, delivered, proved >>
      /\ UNCHANGED << age, due, unlinked, apart >>
      /\ faults' \in 0..MaxFaults
  BY OrderAssumption DEF CleanupFails, Fault, CleanupInv, Shape, TypeOK
<1>2. Shape'
  <2>1. TypeOK'
    BY <1>1, JobsUntouched DEF CleanupInv, Shape, TypeOK, files, pki
  <2> QED BY <1>1, <2>1, JobsUntouched DEF CleanupInv, Shape
<1>3. Existing' = Existing /\ Existing \subseteq Files
  BY <1>1, ExistingAreFiles DEF files, Existing, CleanupInv, Shape, TypeOK
<1>4. AgeInv'
  BY <1>1, <1>3 DEF CleanupInv, AgeInv
<1>5. ASSUME /\ cleaner' \in [pc : {"asleep", "look", "remove"}, next : 1..(Len(Directories) + 1),
                              left : SUBSET Files, file : Files],
             PassInv', exempt \subseteq exempt', exempt' \subseteq Files
      PROVE  CleanupInv'
  <2>1. CleanupTypeOK'
    BY <1>1, <1>2, <1>5 DEF CleanupInv, CleanupTypeOK, Shape
  <2> QED BY <1>1, <1>2, <1>4, <1>5, <2>1, WorkerInv
<1>6. PICK C : C = [pc : {"asleep", "look", "remove"}, next : 1..(Len(Directories) + 1),
                    left : SUBSET Files, file : Files]
  OBVIOUS
<1>7. cleaner \in C /\ exempt \subseteq Files
  BY <1>6 DEF CleanupInv, CleanupTypeOK
<1>8. CASE /\ cleaner.pc = "look" /\ cleaner.left = {} /\ cleaner.next <= Len(Directories)
           /\ cleaner' = [cleaner EXCEPT !.next = @ + 1]
           /\ exempt' = exempt \cup Entries
  <2>1. PICK n : n = cleaner.next + 1
    OBVIOUS
  <2>2. cleaner.next \in 1..3 /\ n \in 1..(Len(Directories) + 1)
    BY <1>6, <1>7, <1>8, <2>1, ThreeDirectories
  <2>3. cleaner' = [cleaner EXCEPT !.next = n]
    BY <1>8, <2>1
  <2>4. cleaner' \in C /\ cleaner'.pc = "look" /\ cleaner'.left = {} /\ cleaner'.next = n
    BY <1>6, <1>7, <1>8, <2>2, <2>3
  <2>5. Entries \subseteq Files /\ (cleaner.next = 1 /\ OrderFile \in Existing => OrderFile \in Entries)
    BY <1>3, FileNames, ThreeDirectories DEF Entries
  <2>6. PastOrders' => OrderFile \notin due \/ OrderFile \in exempt'
    <3>1. CASE cleaner.next = 1
      BY <1>8, <2>5, <3>1 DEF CleanupInv, AgeInv
    <3>2. CASE cleaner.next > 1
      BY <1>8, <3>2 DEF PastOrders, CleanupInv, PassInv, InHand
    <3> QED BY <2>2, <3>1, <3>2
  <2>7. PassInv'
    BY <1>1, <2>1, <2>2, <2>4, <2>6 DEF PassInv, InHand
  <2> QED BY <1>5, <1>6, <1>7, <1>8, <2>4, <2>5, <2>7
<1>9. ASSUME NEW f \in cleaner.left, cleaner.pc = "look",
             cleaner' = [cleaner EXCEPT !.left = @ \ {f}],
             exempt' = exempt \cup {f}
      PROVE  CleanupInv'
  <2>1. /\ cleaner' \in C /\ f \in Files
        /\ cleaner'.pc = "look" /\ cleaner'.next = cleaner.next /\ cleaner'.left = cleaner.left \ {f}
    BY <1>6, <1>7, <1>9
  <2>2. cleaner.next # 1
    BY <1>9 DEF CleanupInv, PassInv
  <2>3. InHand = {} /\ InHand' = {}
    BY <1>9, <2>1 DEF InHand
  <2>4. PastOrders' => OrderFile \notin due \/ OrderFile \in exempt'
    BY <1>9, <2>1, <2>3 DEF PastOrders, CleanupInv, PassInv
  <2>5. PassInv'
    BY <1>1, <2>1, <2>2, <2>3, <2>4 DEF CleanupInv, PassInv
  <2> QED BY <1>5, <1>6, <1>7, <1>9, <2>1, <2>5
<1>10. CASE /\ cleaner.pc = "remove"
            /\ cleaner' = [cleaner EXCEPT !.pc = "look", !.file = OrderFile]
            /\ exempt' = exempt \cup {cleaner.file}
  <2>1. /\ cleaner' \in C /\ cleaner.file \in Files
        /\ cleaner'.pc = "look" /\ cleaner'.next = cleaner.next /\ cleaner'.left = cleaner.left
    BY <1>6, <1>7, <1>10, FileNames
  <2>2. InHand = {cleaner.file} /\ InHand' = {}
    BY <1>10, <2>1 DEF InHand
  <2>3. PastOrders' => OrderFile \notin due \/ OrderFile \in exempt'
    BY <1>10, <2>1, <2>2 DEF PastOrders, CleanupInv, PassInv
  <2>4. PassInv'
    BY <1>1, <2>1, <2>2, <2>3 DEF CleanupInv, PassInv
  <2> QED BY <1>5, <1>6, <1>7, <1>10, <2>1, <2>4
<1> QED BY <1>8, <1>9, <1>10 DEF CleanupFails
-----------------------------------------------------------------------------
LEMMA InitCleanupInv == CleanupInit => CleanupInv
<1> SUFFICES ASSUME CleanupInit PROVE CleanupInv
  OBVIOUS
<1>1. Shape
  BY InitShape DEF CleanupInit
<1>2. orderFile = Absent /\ OrderFile \notin Existing
  BY FileExists DEF CleanupInit, Init
<1>3. CleanupTypeOK
  BY <1>1, AsleepType, CleanupAssumption DEF CleanupInit, CleanupTypeOK, Shape
<1>4. CreationInv
  BY <1>2, OrderAssumption, IdlePc
  DEF CleanupInit, Init, CreationInv, Busy, IdleFinalize, Identifiers
<1>5. AgeInv /\ PassInv /\ PartsOutliveOrder
  BY <1>2 DEF CleanupInit, AgeInv, PassInv, PastOrders, InHand, Asleep, PartsOutliveOrder
<1> QED BY <1>1, <1>3, <1>4, <1>5 DEF CleanupInv

LEMMA NextCleanupInv == CleanupInv /\ [CleanupNext]_cleanupVars => CleanupInv'
<1>1. CleanupInv /\ UNCHANGED cleanupVars => CleanupInv'
  <2> SUFFICES ASSUME CleanupInv, UNCHANGED cleanupVars PROVE CleanupInv'
    OBVIOUS
  <2>1. Shape' /\ UNCHANGED << files, create, validation, finalize >>
    BY StutterShape DEF CleanupInv, cleanupVars, vars
  <2>2. Existing' = Existing
    BY <2>1 DEF files, Existing
  <2>3. CleanupTypeOK'
    BY <2>1 DEF CleanupInv, CleanupTypeOK, cleanupVars, cleanup, Shape
  <2>4. AgeInv' /\ PassInv'
    BY <2>2 DEF CleanupInv, AgeInv, PassInv, PastOrders, InHand, cleanupVars, cleanup
  <2> QED BY <2>1, <2>3, <2>4, WorkerInv DEF cleanupVars, cleanup
<1> QED
  BY <1>1, CreateInv, RewriteInv, OtherwiseInv, CrashAllInv, UnlinkedInv, NightInv, ReadDirInv,
     LookInv, RemoveInv, EndPassInv, CleanupFailsInv DEF CleanupNext, Pass

LEMMA CleanupInvariance == CleanupSpec => []CleanupInv
  BY InitCleanupInv, NextCleanupInv, PTL DEF CleanupSpec

(* Type correctness of the worker and of the order it works on: ages end   *)
(* one past the limit, what is due, exempt or unlinked is a file or a      *)
(* writer (acme_cleanup_worker.go:15-60).                                  *)
THEOREM CleanupTypeCorrect == CleanupSpec => []CleanupTypeOK
<1>1. CleanupInv => CleanupTypeOK
  BY DEF CleanupInv
<1> QED BY <1>1, CleanupInvariance, PTL

(* For any limit, any number of identifiers and any interleaving of the    *)
(* pass with handlers and goroutines, an order that is still there has its *)
(* parts, but for those written apart from it or hit by the race           *)
(* (acme_cleanup_worker.go:34-54).                                         *)
THEOREM PartsAlwaysOutliveOrder == CleanupSpec => []PartsOutliveOrder
<1>1. CleanupInv => PartsOutliveOrder
  BY DEF CleanupInv
<1> QED BY <1>1, CleanupInvariance, PTL
-----------------------------------------------------------------------------
(* What was proved stays proved: the invariants of AcmeOrderProofs under   *)
(* the steps AcmeOrder does not have.                                      *)
ProvedInv == AuthzInv /\ OrderInv

LEMMA RemoveProved ==
  ASSUME Shape, CleanupTypeOK, ProvedInv, Remove
  PROVE  ProvedInv'
<1>1. /\ UNCHANGED << pki, create, validation, finalize, delivered, proved >>
      /\ orderFile' \in {orderFile, Absent}
      /\ \A i \in Identifiers : authzFile'[i] \in {authzFile[i], Absent}
  BY RemovedFile DEF Remove
<1>2. AuthzInv'
  BY <1>1 DEF ProvedInv, AuthzInv, AuthzExplained, JobAuthz, Explained, ValidIsProved,
              Readable, NoDoc
<1>3. OrderInv'
  BY <1>1, OrderInvKept DEF ProvedInv, NoDoc
<1> QED BY <1>2, <1>3 DEF ProvedInv

LEMMA UnlinkedProved ==
  ASSUME Shape, ProvedInv, NEW w \in Validations \cup Finalizes, WriteUnlinked(w)
  PROVE  ProvedInv'
<1>1. UNCHANGED << files, pki, create, proved >>
  BY DEF WriteUnlinked
<1>2. CASE w \in Validations
  <2>1. PICK job : /\ job \in {[IdleJob EXCEPT !.pc = "loadOrder"], IdleJob}
                   /\ validation' = [validation EXCEPT ![w] = job]
    BY <1>2, CleanupAssumption DEF WriteUnlinked
  <2>2. UNCHANGED << finalize, delivered >>
    BY <1>2, CleanupAssumption DEF WriteUnlinked
  <2>3. validation'[w] = job /\ \A v \in Validations \ {w} : validation'[v] = validation[v]
    BY <1>2, <2>1 DEF Shape, TypeOK
  <2>4. job.pc \in {"loadOrder", "idle"}
    BY <2>1, IdlePc, IdleShape DEF Job
  <2>5. AuthzInv'
    BY <1>1, <2>3, <2>4, AuthzUntouched DEF ProvedInv, files
  <2>6. JobOrder(job)'
    BY <2>4 DEF JobOrder
  <2>7. OrderInv'
    BY <1>1, <2>2, <2>3, <2>6, OrderInvKept DEF ProvedInv, files
  <2> QED BY <2>5, <2>7 DEF ProvedInv
<1>3. CASE w \in Finalizes
  <2>1. PICK c : c = finalize[w].cert
    OBVIOUS
  <2>2. /\ finalize[w].pc = "writeOrder" /\ UNCHANGED validation
        /\ finalize' = [finalize EXCEPT ![w] = IdleFinalize]
        /\ delivered' = delivered \cup {c}
    BY <1>3, <2>1, CleanupAssumption DEF WriteUnlinked, Writers, WritesTo, Respond
  <2>3. c \in certFiles \cap issued
    BY <1>3, <2>1, <2>2 DEF ProvedInv, OrderInv, FinalizeSound
  <2>4. FinalizeSound(IdleFinalize)'
    BY DEF FinalizeSound, IdleFinalize
  <2>5. /\ finalize'[w] = IdleFinalize
        /\ \A g \in Finalizes \ {w} : finalize'[g] = finalize[g]
    BY <1>3, <2>2 DEF Shape, TypeOK
  <2>6. \A g \in Finalizes : \/ finalize'[g] = finalize[g]
                             \/ \E h : finalize'[g] = h /\ FinalizeSound(h)'
    BY <2>4, <2>5
  <2>7. OrderInv'
    BY <1>1, <2>2, <2>3, <2>6, OrderInvResponds DEF ProvedInv, files
  <2>8. AuthzInv'
    BY <1>1, <2>2, AuthzUntouched DEF ProvedInv, files
  <2> QED BY <2>7, <2>8 DEF ProvedInv
<1> QED BY <1>2, <1>3

(* Everything else is a step of AcmeOrder or leaves the order alone.       *)
LEMMA NextProvedInv ==
  CleanupInv /\ ProvedInv /\ [CleanupNext]_cleanupVars => ProvedInv'
<1> SUFFICES ASSUME CleanupInv, ProvedInv, [CleanupNext]_cleanupVars PROVE ProvedInv'
  OBVIOUS
<1>0. Shape /\ CleanupTypeOK
  BY DEF CleanupInv
<1>1. Shape /\ AuthzInv /\ OrderInv /\ [Next]_vars => ProvedInv'
  BY NextAuthzInv, NextOrderInv DEF ProvedInv
<1>2. CASE Create \/ CreateFails \/ Rewrite \/ Otherwise \/ CrashAll
  <2>1. Next
    BY <1>2 DEF Create, CreateFails, Rewrite, Otherwise, CrashAll, Next
  <2> QED BY <1>0, <1>1, <2>1 DEF ProvedInv
<1>3. CASE Night \/ ReadDir \/ EndPass \/ (\E f \in Files : Look(f)) \/ UNCHANGED cleanupVars
  <2>1. UNCHANGED vars
    BY <1>3 DEF Night, ReadDir, EndPass, Look, cleanupVars
  <2> QED BY <1>0, <1>1, <2>1 DEF ProvedInv
<1>4. CASE CleanupFails
  <2>1. UNCHANGED << files, pki, create, validation, finalize, delivered, proved >>
    BY <1>4 DEF CleanupFails
  <2>2. AuthzInv'
    BY <2>1, AuthzUntouched DEF ProvedInv, files
  <2>3. OrderInv'
    BY <2>1, OrderInvKept DEF ProvedInv, files
  <2> QED BY <2>2, <2>3 DEF ProvedInv
<1>5. CASE Remove
  BY <1>0, <1>5, RemoveProved
<1>6. CASE \E w \in unlinked : WriteUnlinked(w)
  BY <1>0, <1>6, UnlinkedProved DEF CleanupTypeOK
<1> QED BY <1>2, <1>3, <1>4, <1>5, <1>6 DEF CleanupNext, Pass

LEMMA InitProvedInv == CleanupInit => ProvedInv
  BY InitAuthzInv, InitOrderInv DEF CleanupInit, ProvedInv

(* Whatever files disappear while goroutines scan them, an order is only   *)
(* ever ready once every identifier has passed a validation: a missing     *)
(* authorization counts against it (order.go:131-147,                      *)
(* acme_cleanup_worker.go:50-55).                                          *)
THEOREM CleanupNeverMakesReady == CleanupSpec => []ReadyMeansProved
<1>1. ProvedInv => ReadyMeansProved
  BY DEF ProvedInv, OrderInv, ReadyMeansProved, OrderSound
<1> QED
  BY <1>1, InitProvedInv, NextProvedInv, CleanupInvariance, PTL DEF CleanupSpec
-----------------------------------------------------------------------------
(* OrderPromise is kept while files disappear: the worker only hides the   *)
(* order, and a writer whose file is gone still answers its client.        *)
KeepingInv == ProvedInv /\ PromiseInv

LEMMA UnlinkedPromise ==
  ASSUME Shape, KeepingInv, NEW w \in Validations \cup Finalizes, WriteUnlinked(w)
  PROVE  /\ PromiseInv'
         /\ \/ UNCHANGED << pki, delivered, proved >>
            \/ \E c \in certFiles : /\ delivered' = delivered \cup {c}
                                    /\ UNCHANGED << pki, proved >>
<1>1. UNCHANGED << files, pki, create, proved >>
  BY DEF WriteUnlinked
<1>2. CASE w \in Validations
  <2>1. UNCHANGED << finalize, delivered >>
    BY <1>2, CleanupAssumption DEF WriteUnlinked
  <2> QED BY <1>1, <2>1 DEF KeepingInv, PromiseInv, pki
<1>3. CASE w \in Finalizes
  <2>1. PICK c : c = finalize[w].cert
    OBVIOUS
  <2>2. /\ finalize[w].pc = "writeOrder"
        /\ finalize' = [finalize EXCEPT ![w] = IdleFinalize]
        /\ delivered' = delivered \cup {c}
    BY <1>3, <2>1, CleanupAssumption DEF WriteUnlinked, Writers, WritesTo, Respond
  <2>3. c \in certFiles
    BY <1>3, <2>1, <2>2 DEF KeepingInv, ProvedInv, OrderInv, FinalizeSound
  <2>4. \A f \in Finalizes : finalize'[f].pc # "idle" => finalize[f].pc # "idle"
    BY <1>3, <2>2 DEF Shape, TypeOK, IdleFinalize
  <2> QED BY <1>1, <2>2, <2>3, <2>4 DEF KeepingInv, PromiseInv, pki
<1> QED BY <1>2, <1>3

LEMMA NextKeeping ==
  CleanupInv /\ KeepingInv /\ [CleanupNext]_cleanupVars
    => PromiseInv' /\ [Promise!Next]_(Promise!promised)
<1> SUFFICES ASSUME CleanupInv, KeepingInv, [CleanupNext]_cleanupVars
             PROVE  PromiseInv' /\ (Promise!Next \/ UNCHANGED Promise!promised)
  OBVIOUS
<1>0. Shape /\ CleanupTypeOK /\ AuthzInv /\ OrderInv /\ PromiseInv
  BY DEF CleanupInv, KeepingInv, ProvedInv
<1>1. Shape' /\ OrderInv'
  BY NextCleanupInv, NextProvedInv DEF CleanupInv, KeepingInv, ProvedInv
<1>2. ASSUME [Next]_vars
      PROVE  PromiseInv' /\ (Promise!Next \/ UNCHANGED Promise!promised)
  BY <1>0, <1>1, <1>2, NextPromiseInv, NextKeepsPromise
<1>3. CASE Create \/ CreateFails \/ Rewrite \/ Otherwise \/ CrashAll
  <2>1. Next
    BY <1>3 DEF Create, CreateFails, Rewrite, Otherwise, CrashAll, Next
  <2> QED BY <1>2, <2>1
<1>4. CASE Night \/ ReadDir \/ EndPass \/ (\E f \in Files : Look(f)) \/ UNCHANGED cleanupVars
  <2>1. UNCHANGED vars
    BY <1>4 DEF Night, ReadDir, EndPass, Look, cleanupVars
  <2> QED BY <1>2, <2>1
<1>5. CASE Remove \/ CleanupFails
  <2>1. UNCHANGED << pki, finalize, delivered, proved >>
    BY <1>5 DEF Remove, CleanupFails
  <2>2. PromiseInv' /\ ProvedSet' = ProvedSet
    BY <1>0, <2>1 DEF PromiseInv, ProvedSet, Proved, pki
  <2> QED BY <1>1, <2>1, <2>2, StepShows DEF Promise!Next
<1>6. ASSUME NEW w \in unlinked, WriteUnlinked(w)
      PROVE  PromiseInv' /\ (Promise!Next \/ UNCHANGED Promise!promised)
  <2>1. w \in Validations \cup Finalizes
    BY <1>0 DEF CleanupTypeOK
  <2>2. PromiseInv'
    BY <1>0, <1>6, <2>1, UnlinkedPromise
  <2>3. CASE UNCHANGED << pki, delivered, proved >>
    <3>1. ProvedSet' = ProvedSet
      BY <2>3 DEF ProvedSet, Proved
    <3> QED BY <1>1, <2>2, <2>3, <3>1, StepShows DEF Promise!Next
  <2>4. ASSUME NEW c \in certFiles, delivered' = delivered \cup {c},
               UNCHANGED << pki, proved >>
        PROVE  PromiseInv' /\ Promise!Next
    BY <1>0, <1>1, <2>2, <2>4, StepNames DEF Promise!Next
  <2> QED BY <1>0, <1>6, <2>1, <2>3, <2>4, UnlinkedPromise
<1> QED BY <1>3, <1>4, <1>5, <1>6 DEF CleanupNext, Pass

(* For any limit and however the pass interleaves with handlers and        *)
(* goroutines, removing old files breaks none of OrderPromise: an order    *)
(* that comes back from a goroutine's copy says no more than it may, and a *)
(* certificate named to a client is stored, and signed only once           *)
(* (acme_cleanup_worker.go:34-60, acme_handler.go:590-744).                *)
THEOREM CleanupKeepsPromise == CleanupSpec => KeepsPromise
<1>1. CleanupInit => Init
  BY DEF CleanupInit
<1>2. CleanupSpec => [](CleanupInv /\ KeepingInv)
  <2>1. CleanupInit => KeepingInv
    BY <1>1, InitProvedInv, InitPromiseInv DEF KeepingInv
  <2>2. CleanupInv /\ KeepingInv /\ [CleanupNext]_cleanupVars => KeepingInv'
    BY NextProvedInv, NextKeeping DEF KeepingInv
  <2> QED BY <2>1, <2>2, CleanupInvariance, PTL DEF CleanupSpec
<1>3. CleanupInit => Promise!Init
  BY <1>1, InitKeepsPromise
<1> QED
  BY <1>2, <1>3, NextKeeping, PTL DEF CleanupSpec, KeepsPromise, Promise!Spec
=============================================================================
