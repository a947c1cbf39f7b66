------------------------- MODULE AcmeAccountsProofs -------------------------
(***************************************************************************)
(* Theorems about AcmeAccounts for any number of accounts, overlapping     *)
(* requests and deactivations, and faults.                                 *)
(***************************************************************************)
EXTENDS AcmeAccounts, FiniteSetTheorems, TLAPS

(* Types, and that a handler past the lookup of an account holds one.      *)
Shape ==
    /\ TypeOK
    /\ \A r \in Requests : request[r].pc \notin {"idle", "create"} => request[r].acc \in Accounts
    /\ \A d \in Deactivations : deactivate[d].pc # "idle" => deactivate[d].acc \in Accounts
    /\ misreads <= faults

(* The account has a document, or a deactivation has truncated it.         *)
Documented(a) ==
    \/ Readable(a)
    \/ accountFile[a] = Empty /\ (BeingDeactivated(a) \/ faults > misreads)

(* AccountResolves also for the account a creator is about to map: it is   *)
(* what makes the mapping and the answer safe when they are written.       *)
Resolves ==
    \A a \in Accounts :
        \/ a = keyFile
        \/ a \in answered
        \/ \E r \in Requests : request[r].pc \in {"saveKey", "writeKey"} /\ request[r].acc = a
        => Documented(a)

LEMMA StepShape == Shape /\ [Next]_vars => Shape'
<1> SUFFICES ASSUME Shape, [Next]_vars PROVE Shape'
    OBVIOUS
<1> USE AccountAssumption DEF Shape, TypeOK, Idle, Goto, Answer, Readable
<1>1. ASSUME NEW r \in Requests, LookUpKey(r) PROVE Shape'
    BY <1>1 DEF LookUpKey, Note
<1>2. ASSUME NEW r \in Requests, ReturnExisting(r) PROVE Shape'
    BY <1>2 DEF ReturnExisting
<1>3. ASSUME NEW r \in Requests, MissExisting(r) PROVE Shape'
    BY <1>3 DEF MissExisting
<1>4. ASSUME NEW r \in Requests, OnlyReturnExisting(r) PROVE Shape'
    BY <1>4 DEF OnlyReturnExisting
<1>5. ASSUME NEW r \in Requests, NEW a \in Accounts, SaveAccount(r, a) PROVE Shape'
    BY <1>5 DEF SaveAccount
<1>6. ASSUME NEW r \in Requests, NEW a \in Accounts, SaveAccountFails(r, a) PROVE Shape'
    BY <1>6 DEF SaveAccountFails, Fault
<1>7. ASSUME NEW r \in Requests, TruncateKey(r) PROVE Shape'
    BY <1>7 DEF TruncateKey
<1>8. ASSUME NEW r \in Requests, WriteKey(r) PROVE Shape'
    BY <1>8 DEF WriteKey
<1>9. ASSUME NEW r \in Requests, SaveKeyFails(r) PROVE Shape'
    BY <1>9 DEF SaveKeyFails, Fault
<1>10. ASSUME NEW d \in Deactivations, NEW a \in Accounts, LoadForDeactivation(d, a) PROVE Shape'
    BY <1>10 DEF LoadForDeactivation
<1>11. ASSUME NEW d \in Deactivations, TruncateAccount(d) PROVE Shape'
    BY <1>11 DEF TruncateAccount
<1>12. ASSUME NEW d \in Deactivations, WriteDeactivated(d) PROVE Shape'
    BY <1>12 DEF WriteDeactivated
<1>13. ASSUME NEW d \in Deactivations, DeactivationFails(d) PROVE Shape'
    BY <1>13 DEF DeactivationFails, Fault
<1>14. CASE Crash
    BY <1>14 DEF Crash, Fault
<1>15. ASSUME NEW r \in Requests, LookUpKeyFails(r) \/ LoadExistingFails(r) PROVE Shape'
    <2>1. CASE LookUpKeyFails(r)
        BY <2>1 DEF LookUpKeyFails, Note, Misread, Fault
    <2>2. CASE LoadExistingFails(r)
        BY <2>2 DEF LoadExistingFails, Misread, Fault
    <2> QED
        BY <1>15, <2>1, <2>2
<1>16. CASE UNCHANGED vars
    BY <1>16 DEF vars
<1> QED
    BY <1>1, <1>2, <1>3, <1>4, <1>5, <1>6, <1>7, <1>8, <1>9, <1>10, <1>11, <1>12, <1>13,
       <1>14, <1>15, <1>16 DEF Next

LEMMA StepResolves == Shape /\ Resolves /\ [Next]_vars => Resolves'
<1> SUFFICES ASSUME Shape, Resolves, [Next]_vars PROVE Resolves'
    OBVIOUS
<1> USE AccountAssumption DEF Resolves, Documented, Readable, BeingDeactivated, Shape, TypeOK,
        Idle, Goto, Answer
<1>1. ASSUME NEW r \in Requests, LookUpKey(r) PROVE Resolves'
    BY <1>1 DEF LookUpKey
<1>2. ASSUME NEW r \in Requests, ReturnExisting(r) PROVE Resolves'
    BY <1>2 DEF ReturnExisting
<1>3. ASSUME NEW r \in Requests, MissExisting(r) PROVE Resolves'
    BY <1>3 DEF MissExisting
<1>4. ASSUME NEW r \in Requests, OnlyReturnExisting(r) PROVE Resolves'
    BY <1>4 DEF OnlyReturnExisting
<1>5. ASSUME NEW r \in Requests, NEW a \in Accounts, SaveAccount(r, a) PROVE Resolves'
    BY <1>5 DEF SaveAccount
<1>6. ASSUME NEW r \in Requests, NEW a \in Accounts, SaveAccountFails(r, a) PROVE Resolves'
    BY <1>6 DEF SaveAccountFails, Fault
<1>7. ASSUME NEW r \in Requests, TruncateKey(r) PROVE Resolves'
    BY <1>7 DEF TruncateKey
<1>8. ASSUME NEW r \in Requests, WriteKey(r) PROVE Resolves'
    BY <1>8 DEF WriteKey
<1>9. ASSUME NEW r \in Requests, SaveKeyFails(r) PROVE Resolves'
    BY <1>9 DEF SaveKeyFails, Fault
<1>10. ASSUME NEW d \in Deactivations, NEW a \in Accounts, LoadForDeactivation(d, a)
       PROVE Resolves'
    BY <1>10 DEF LoadForDeactivation
<1>11. ASSUME NEW d \in Deactivations, TruncateAccount(d) PROVE Resolves'
    BY <1>11 DEF TruncateAccount
<1>12. ASSUME NEW d \in Deactivations, WriteDeactivated(d) PROVE Resolves'
    BY <1>12 DEF WriteDeactivated
<1>13. ASSUME NEW d \in Deactivations, DeactivationFails(d) PROVE Resolves'
    BY <1>13 DEF DeactivationFails, Fault
<1>14. CASE Crash
    BY <1>14 DEF Crash, Fault
<1>15. ASSUME NEW r \in Requests, LookUpKeyFails(r) \/ LoadExistingFails(r) PROVE Resolves'
    <2>1. CASE LookUpKeyFails(r)
        BY <2>1 DEF LookUpKeyFails, Note, Misread, Fault
    <2>2. CASE LoadExistingFails(r)
        BY <2>2 DEF LoadExistingFails, Misread, Fault
    <2> QED
        BY <1>15, <2>1, <2>2
<1>16. CASE UNCHANGED vars
    BY <1>16 DEF vars
<1> QED
    BY <1>1, <1>2, <1>3, <1>4, <1>5, <1>6, <1>7, <1>8, <1>9, <1>10, <1>11, <1>12, <1>13,
       <1>14, <1>15, <1>16 DEF Next

(* Only creators and deactivations write an account file: the first only   *)
(* one that does not exist, the second nothing but "deactivated".          *)
LEMMA StepRetired == Shape /\ RetiredForGood /\ [Next]_vars => RetiredForGood'
<1> SUFFICES ASSUME Shape, RetiredForGood, [Next]_vars PROVE RetiredForGood'
    OBVIOUS
<1> USE AccountAssumption DEF RetiredForGood, Shape, TypeOK
<1>1. ASSUME NEW r \in Requests, NEW a \in Accounts, SaveAccount(r, a) PROVE RetiredForGood'
    BY <1>1 DEF SaveAccount
<1>2. ASSUME NEW r \in Requests, NEW a \in Accounts, SaveAccountFails(r, a)
      PROVE RetiredForGood'
    BY <1>2 DEF SaveAccountFails
<1>3. ASSUME NEW d \in Deactivations, TruncateAccount(d) PROVE RetiredForGood'
    BY <1>3 DEF TruncateAccount
<1>4. ASSUME NEW d \in Deactivations, WriteDeactivated(d) PROVE RetiredForGood'
    BY <1>4 DEF WriteDeactivated
<1>5. CASE UNCHANGED << accountFile, retired >>
    BY <1>5
<1> QED
    BY <1>1, <1>2, <1>3, <1>4, <1>5
    DEF Next, vars, LookUpKey, LookUpKeyFails, LoadExistingFails, ReturnExisting, MissExisting,
        OnlyReturnExisting, TruncateKey, WriteKey, SaveKeyFails, LoadForDeactivation,
        DeactivationFails, Crash

(* Why the last creator's account is the one the key leads to: no reader   *)
(* or client comes before the mapping, the mapping and the answer carry    *)
(* the same id, and a truncated mapping has its writer.                    *)
Led ==
    /\ keyFile = Absent => /\ answered = {}
                           /\ \A r \in Requests : request[r].pc # "load"
    /\ keyFile \in Accounts => keyFile \in answered
    /\ \A r \in Requests : request[r].pc = "load" => request[r].acc \in answered
    /\ faults = misreads /\ keyFile = Empty => \E r \in Requests : request[r].pc = "writeKey"

LEMMA StepLed == Shape /\ Led /\ [Next]_vars => Led'
<1> SUFFICES ASSUME Shape, Led, [Next]_vars PROVE Led'
    OBVIOUS
<1> USE AccountAssumption DEF Led, Shape, TypeOK, Idle, Goto, Answer
<1>1. ASSUME NEW r \in Requests, LookUpKey(r) PROVE Led'
    BY <1>1 DEF LookUpKey
<1>2. ASSUME NEW r \in Requests, ReturnExisting(r) PROVE Led'
    BY <1>2 DEF ReturnExisting
<1>3. ASSUME NEW r \in Requests, MissExisting(r) PROVE Led'
    BY <1>3 DEF MissExisting
<1>4. ASSUME NEW r \in Requests, OnlyReturnExisting(r) PROVE Led'
    BY <1>4 DEF OnlyReturnExisting
<1>5. ASSUME NEW r \in Requests, NEW a \in Accounts, SaveAccount(r, a) PROVE Led'
    BY <1>5 DEF SaveAccount
<1>6. ASSUME NEW r \in Requests, NEW a \in Accounts, SaveAccountFails(r, a) PROVE Led'
    BY <1>6 DEF SaveAccountFails, Fault
<1>7. ASSUME NEW r \in Requests, TruncateKey(r) PROVE Led'
    BY <1>7 DEF TruncateKey
<1>8. ASSUME NEW r \in Requests, WriteKey(r) PROVE Led'
    BY <1>8 DEF WriteKey
<1>9. ASSUME NEW r \in Requests, SaveKeyFails(r) PROVE Led'
    BY <1>9 DEF SaveKeyFails, Fault
<1>10. CASE Crash
    BY <1>10 DEF Crash, Fault
<1>11. CASE UNCHANGED << keyFile, request, answered, misreads >> /\ faults' >= faults
    BY <1>11
<1>12. ASSUME NEW r \in Requests, LookUpKeyFails(r) \/ LoadExistingFails(r) PROVE Led'
    <2>1. CASE LookUpKeyFails(r)
        BY <2>1 DEF LookUpKeyFails, Misread, Fault
    <2>2. CASE LoadExistingFails(r)
        BY <2>2 DEF LoadExistingFails, Misread, Fault
    <2> QED
        BY <1>12, <2>1, <2>2
<1> QED
    BY <1>1, <1>2, <1>3, <1>4, <1>5, <1>6, <1>7, <1>8, <1>9, <1>10, <1>11, <1>12
    DEF Next, vars, LoadForDeactivation, TruncateAccount, WriteDeactivated, DeactivationFails,
        Fault

(* While nothing is disturbed: nobody deactivates, at most one request is  *)
(* handled, and the account it is about to map is readable.                *)
Undisturbed ==
    /\ \A d \in Deactivations : deactivate[d].pc = "idle"
    /\ \A r, q \in Requests : request[r].pc = "idle" \/ request[q].pc = "idle" \/ r = q
    /\ \A r \in Requests :
          request[r].pc \in {"saveKey", "writeKey"} => accountFile[request[r].acc] = "valid"

(* The key leads to a readable account some client was told of, and the    *)
(* request under way, if any, is led there, too.                           *)
Settled ==
    /\ keyFile \in answered
    /\ accountFile[keyFile] = "valid"
    /\ \A r \in Requests :
          \/ request[r].pc = "idle"
          \/ request[r].pc = "load" /\ request[r].acc = keyFile

(* FurtherAccountsAreMisreads, with one account to spare until the key is  *)
(* settled: only a read error leads a request away from it again.          *)
Sole ==
    ~ disturbed =>
        /\ Undisturbed
        /\ IsFiniteSet(answered)
        /\ Cardinality(answered) <= misreads + (IF Settled THEN 1 ELSE 0)

LEMMA StaysUndisturbed ==
  ASSUME Shape, Undisturbed, ~ disturbed, [Next]_vars, ~ disturbed'
  PROVE  Undisturbed'
<1> USE AccountAssumption DEF Undisturbed, Shape, TypeOK, Idle, Goto, Answer
<1>1. ASSUME NEW r \in Requests, LookUpKey(r) \/ LookUpKeyFails(r) PROVE Undisturbed'
    <2>1. \A q \in Requests : q # r => request[q].pc = "idle"
        BY <1>1 DEF LookUpKey, LookUpKeyFails, Note
    <2>2. PICK h : request' = [request EXCEPT ![r] = h] /\ h.pc \in {"load", "create"}
        BY <1>1 DEF LookUpKey, LookUpKeyFails
    <2>3. UNCHANGED << accountFile, deactivate >>
        BY <1>1 DEF LookUpKey, LookUpKeyFails
    <2> QED
        BY <2>1, <2>2, <2>3
<1>2. ASSUME NEW r \in Requests, ReturnExisting(r) \/ OnlyReturnExisting(r) PROVE Undisturbed'
    BY <1>2 DEF ReturnExisting, OnlyReturnExisting
<1>3. ASSUME NEW r \in Requests, MissExisting(r) \/ LoadExistingFails(r) PROVE Undisturbed'
    BY <1>3 DEF MissExisting, LoadExistingFails
<1>4. ASSUME NEW r \in Requests, NEW a \in Accounts, SaveAccount(r, a) PROVE Undisturbed'
    BY <1>4 DEF SaveAccount
<1>5. ASSUME NEW r \in Requests, NEW a \in Accounts, SaveAccountFails(r, a)
      PROVE Undisturbed'
    BY <1>5 DEF SaveAccountFails
<1>6. ASSUME NEW r \in Requests, TruncateKey(r) PROVE Undisturbed'
    BY <1>6 DEF TruncateKey
<1>7. ASSUME NEW r \in Requests, WriteKey(r) PROVE Undisturbed'
    BY <1>7 DEF WriteKey
<1>8. ASSUME NEW r \in Requests, SaveKeyFails(r) PROVE Undisturbed'
    BY <1>8 DEF SaveKeyFails
<1>9. ASSUME NEW d \in Deactivations,
             \/ \E a \in Accounts : LoadForDeactivation(d, a)
             \/ TruncateAccount(d) \/ WriteDeactivated(d) \/ DeactivationFails(d)
      PROVE  FALSE
    BY <1>9 DEF LoadForDeactivation, TruncateAccount, WriteDeactivated, DeactivationFails
<1>10. CASE Crash
    BY <1>10 DEF Crash
<1>11. CASE UNCHANGED vars
    BY <1>11 DEF vars
<1> HIDE DEF Undisturbed, Shape, TypeOK, Idle, Goto, Answer
<1> QED
    BY <1>1, <1>2, <1>3, <1>4, <1>5, <1>6, <1>7, <1>8, <1>9, <1>10, <1>11 DEF Next

(* Nothing disturbs without leaving its mark.                              *)
LEMMA DisturbedForGood == [Next]_vars /\ ~ disturbed' /\ disturbed \in BOOLEAN => ~ disturbed
BY DEF Next, vars, LookUpKey, LookUpKeyFails, Note, ReturnExisting, MissExisting,
       LoadExistingFails, OnlyReturnExisting, SaveAccount, SaveAccountFails, TruncateKey,
       WriteKey, SaveKeyFails, LoadForDeactivation, TruncateAccount, WriteDeactivated,
       DeactivationFails, Crash

(* The steps that take nobody away from a settled key.                     *)
LEMMA StaysSettled ==
  ASSUME Shape, Undisturbed, Settled, NEW r \in Requests,
         \/ LookUpKey(r) \/ ReturnExisting(r) \/ MissExisting(r) \/ OnlyReturnExisting(r)
         \/ \E a \in Accounts : SaveAccount(r, a) \/ SaveAccountFails(r, a)
         \/ TruncateKey(r) \/ WriteKey(r) \/ SaveKeyFails(r)
  PROVE  Settled' /\ answered' = answered
<1> USE AccountAssumption DEF Settled, Shape, TypeOK
<1>1. CASE LookUpKey(r)
    BY <1>1 DEF LookUpKey, Goto
<1>2. CASE ReturnExisting(r)
    BY <1>2 DEF ReturnExisting, Answer, Idle
<1>3. CASE MissExisting(r)
    BY <1>3 DEF MissExisting, Readable
<1>4. CASE \/ OnlyReturnExisting(r)
           \/ \E a \in Accounts : SaveAccount(r, a) \/ SaveAccountFails(r, a)
           \/ TruncateKey(r) \/ WriteKey(r) \/ SaveKeyFails(r)
    BY <1>4 DEF OnlyReturnExisting, SaveAccount, SaveAccountFails, TruncateKey, WriteKey,
                SaveKeyFails
<1> QED
    BY <1>1, <1>2, <1>3, <1>4

(* The mapping written by the only request there is settles the key.       *)
LEMMA WritingSettles ==
  ASSUME Shape, Undisturbed, NEW r \in Requests, WriteKey(r)
  PROVE  Settled' /\ answered' = answered \cup {request[r].acc}
BY DEF WriteKey, Answer, Idle, Undisturbed, Settled, Shape, TypeOK

LEMMA StepSole == Shape /\ Led /\ Sole /\ [Next]_vars => Sole'
<1> SUFFICES ASSUME Shape, Led, Sole, [Next]_vars, ~ disturbed' PROVE Sole'
    BY DEF Sole
<1>0. ~ disturbed /\ Undisturbed /\ Undisturbed'
    BY DisturbedForGood, StaysUndisturbed DEF Sole, Shape, TypeOK
<1>1. /\ IsFiniteSet(answered) /\ Cardinality(answered) \in Nat
      /\ misreads \in Nat
      /\ Cardinality(answered) <= misreads + (IF Settled THEN 1 ELSE 0)
    BY <1>0, AccountAssumption, FS_CardinalityType DEF Sole, Shape, TypeOK
<1>2. ASSUME answered' = answered,
             \/ misreads' = misreads /\ (Settled => Settled')
             \/ misreads' = misreads + 1
      PROVE  Sole'
    BY <1>0, <1>1, <1>2 DEF Sole
<1>3. ASSUME NEW r \in Requests, WriteKey(r) PROVE Sole'
    <2>1. ~ Settled
        BY <1>3 DEF WriteKey, Settled
    <2>2. /\ Settled' /\ answered' = answered \cup {request[r].acc}
          /\ misreads' = misreads
        BY <1>0, <1>3, WritingSettles DEF WriteKey
    <2>3. IsFiniteSet(answered') /\ Cardinality(answered') <= Cardinality(answered) + 1
        BY <1>1, <2>2, FS_AddElement
    <2>4. Cardinality(answered') \in Nat
        BY <2>3, FS_CardinalityType
    <2> QED
        BY <1>0, <1>1, <2>1, <2>2, <2>3, <2>4 DEF Sole
<1>4. ASSUME NEW r \in Requests, LookUpKeyFails(r) \/ LoadExistingFails(r) PROVE Sole'
    BY <1>2, <1>4 DEF LookUpKeyFails, LoadExistingFails, Misread
<1>5. ASSUME NEW r \in Requests,
             \/ LookUpKey(r) \/ ReturnExisting(r) \/ MissExisting(r) \/ OnlyReturnExisting(r)
             \/ \E a \in Accounts : SaveAccount(r, a) \/ SaveAccountFails(r, a)
             \/ TruncateKey(r) \/ SaveKeyFails(r)
      PROVE  Sole'
    <2>1. misreads' = misreads /\ answered' = answered
        BY <1>5 DEF Led, LookUpKey, ReturnExisting, Answer, MissExisting, OnlyReturnExisting,
                    SaveAccount, SaveAccountFails, TruncateKey, SaveKeyFails
    <2>2. Settled => Settled'
        BY <1>0, <1>5, StaysSettled
    <2> QED
        BY <1>2, <2>1, <2>2
<1>6. ASSUME NEW d \in Deactivations,
             \/ \E a \in Accounts : LoadForDeactivation(d, a)
             \/ TruncateAccount(d) \/ WriteDeactivated(d) \/ DeactivationFails(d)
      PROVE  Sole'
    BY <1>0, <1>6
    DEF LoadForDeactivation, TruncateAccount, WriteDeactivated, DeactivationFails, Undisturbed
<1>7. CASE Crash
    <2>1. answered' = answered /\ misreads' = misreads /\ (Settled => Settled')
        BY <1>7 DEF Crash, Settled, Idle
    <2> QED
        BY <1>2, <2>1
<1>8. CASE UNCHANGED vars
    BY <1>2, <1>8 DEF vars, Settled
<1> QED
    BY <1>3, <1>4, <1>5, <1>6, <1>7, <1>8 DEF Next

(* The accounts that exist at all, and whether one of them is spoken for:  *)
(* the key leads to it or a creator still holds it.                        *)
Extant == {a \in Accounts : accountFile[a] # Absent}

SpokenFor ==
    \/ Settled
    \/ \E r \in Requests : request[r].pc \in {"saveKey", "writeKey"}

(* OrphansAreFaults with the account that is spoken for told from the      *)
(* others: only a fault makes it an orphan, and only then comes a second.  *)
Orphans ==
    ~ disturbed => /\ IsFiniteSet(Extant)
                   /\ Cardinality(Extant) <= faults + (IF SpokenFor THEN 1 ELSE 0)

LEMMA StepOrphans == Shape /\ Sole /\ Orphans /\ [Next]_vars => Orphans'
<1> SUFFICES ASSUME Shape, Sole, Orphans, [Next]_vars, ~ disturbed' PROVE Orphans'
    BY DEF Orphans
<1>0. ~ disturbed /\ Undisturbed /\ Undisturbed'
    BY DisturbedForGood, StaysUndisturbed DEF Sole, Shape, TypeOK
<1>1. /\ IsFiniteSet(Extant)
      /\ Cardinality(Extant) \in Nat
      /\ Cardinality(Extant) <= faults + (IF SpokenFor THEN 1 ELSE 0)
    BY <1>0, FS_CardinalityType DEF Orphans
<1>2. faults \in Nat /\ faults' \in Nat
    BY StepShape, AccountAssumption DEF Shape, TypeOK
<1>3. ASSUME accountFile' = accountFile,
             \/ faults' = faults /\ (SpokenFor => SpokenFor')
             \/ faults' = faults + 1
      PROVE  Orphans'
    <2>1. Extant' = Extant
        BY <1>3 DEF Extant
    <2> QED
        BY <1>1, <1>2, <1>3, <2>1 DEF Orphans
<1>4. ASSUME NEW r \in Requests, NEW a \in Accounts, SaveAccount(r, a) PROVE Orphans'
    <2>1. ~ SpokenFor
        BY <1>0, <1>4 DEF SaveAccount, Undisturbed, Settled, SpokenFor
    <2>2. SpokenFor' /\ faults' = faults
        BY <1>4 DEF SaveAccount, Goto, SpokenFor, Shape, TypeOK
    <2>3. Extant' = Extant \cup {a}
        BY <1>4, AccountAssumption DEF SaveAccount, Extant, Shape, TypeOK
    <2>4. IsFiniteSet(Extant') /\ Cardinality(Extant') <= Cardinality(Extant) + 1
        BY <1>1, <2>3, FS_AddElement
    <2>5. Cardinality(Extant') \in Nat
        BY <2>4, FS_CardinalityType
    <2> QED
        BY <1>1, <1>2, <2>1, <2>2, <2>4, <2>5 DEF Orphans
<1>5. ASSUME NEW r \in Requests, NEW a \in Accounts, SaveAccountFails(r, a) PROVE Orphans'
    <2>1. SpokenFor => SpokenFor'
        BY <1>0, <1>5 DEF SaveAccountFails, Undisturbed, Settled, SpokenFor
    <2>2. faults' = faults + 1
        BY <1>5 DEF SaveAccountFails, Fault
    <2>3. Extant' = Extant \/ Extant' = Extant \cup {a}
        BY <1>5, AccountAssumption DEF SaveAccountFails, Extant, Shape, TypeOK
    <2>4. IsFiniteSet(Extant') /\ Cardinality(Extant') <= Cardinality(Extant) + 1
        BY <1>1, <2>3, FS_AddElement
    <2>5. Cardinality(Extant') \in Nat
        BY <2>4, FS_CardinalityType
    <2> QED
        BY <1>1, <1>2, <2>1, <2>2, <2>4, <2>5 DEF Orphans
<1>6. ASSUME NEW r \in Requests,
             LookUpKey(r) \/ ReturnExisting(r) \/ MissExisting(r) \/ OnlyReturnExisting(r)
      PROVE  SpokenFor => SpokenFor'
    <2>1. Settled => Settled'
        BY <1>0, <1>6, StaysSettled
    <2>2. \A q \in Requests \ {r} : request'[q] = request[q]
        BY <1>6 DEF LookUpKey, ReturnExisting, MissExisting, OnlyReturnExisting, Goto, Answer,
                    Shape, TypeOK
    <2>3. request[r].pc \notin {"saveKey", "writeKey"}
        BY <1>6 DEF LookUpKey, ReturnExisting, MissExisting, OnlyReturnExisting
    <2> QED
        BY <2>1, <2>2, <2>3 DEF SpokenFor
<1>7. ASSUME NEW r \in Requests, TruncateKey(r) \/ WriteKey(r)
      PROVE  SpokenFor'
    <2>1. CASE WriteKey(r)
        BY <1>0, <2>1, WritingSettles DEF SpokenFor
    <2>2. CASE TruncateKey(r)
        <3>1. request'[r].pc = "writeKey"
            BY <2>2 DEF TruncateKey, Goto, Shape, TypeOK
        <3> QED
            BY <3>1 DEF SpokenFor
    <2> QED
        BY <1>7, <2>1, <2>2
<1>8. ASSUME NEW d \in Deactivations,
             \/ \E a \in Accounts : LoadForDeactivation(d, a)
             \/ TruncateAccount(d) \/ WriteDeactivated(d) \/ DeactivationFails(d)
      PROVE  FALSE
    BY <1>0, <1>8
    DEF LoadForDeactivation, TruncateAccount, WriteDeactivated, DeactivationFails, Undisturbed
<1>9. CASE UNCHANGED vars
    BY <1>3, <1>9 DEF vars, SpokenFor, Settled
<1>10. CASE Next
    BY <1>3, <1>4, <1>5, <1>6, <1>7, <1>8, <1>10
    DEF Next, LookUpKey, LookUpKeyFails, ReturnExisting, MissExisting, LoadExistingFails,
        OnlyReturnExisting, TruncateKey, WriteKey, SaveKeyFails, Crash, Misread, Fault
<1> QED
    BY <1>9, <1>10

IInv == Shape /\ Resolves /\ RetiredForGood /\ Led /\ Sole /\ Orphans

LEMMA InitIInv == Init => IInv
<1> SUFFICES ASSUME Init PROVE IInv
    OBVIOUS
<1> USE AccountAssumption DEF Init, Idle
<1>1. Shape
    <2>1. faults \in 0..MaxFaults
        OBVIOUS
    <2>4. disturbed \in BOOLEAN
        OBVIOUS
    <2>5. misreads \in 0..MaxFaults /\ misreads <= faults
        OBVIOUS
    <2>2. request \in [Requests -> [pc : {"idle", "load", "create", "saveKey", "writeKey"},
                                   acc : Accounts \cup {NoAccount}]]
        OBVIOUS
    <2>3. deactivate \in [Deactivations -> [pc : {"idle", "save", "write"},
                                           acc : Accounts \cup {NoAccount}]]
        OBVIOUS
    <2> QED
        BY <2>1, <2>2, <2>3, <2>4, <2>5 DEF Shape, TypeOK
<1>2. Resolves /\ RetiredForGood
    BY DEF Resolves, RetiredForGood
<1>3. Led
    BY DEF Led
<1>4. Sole
    <2>1. IsFiniteSet(answered) /\ Cardinality(answered) = 0
        BY FS_EmptySet
    <2> QED
        BY <2>1 DEF Sole, Undisturbed
<1>5. Orphans
    <2>1. Extant = {}
        BY DEF Extant
    <2> QED
        BY <2>1, FS_EmptySet DEF Orphans
<1> QED
    BY <1>1, <1>2, <1>3, <1>4, <1>5 DEF IInv

LEMMA Inductive == Spec => []IInv
<1>1. IInv /\ [Next]_vars => IInv'
    BY StepShape, StepResolves, StepRetired, StepLed, StepSole, StepOrphans DEF IInv
<1> QED
    BY InitIInv, <1>1, PTL DEF Spec

(* The type invariant of account.go and storage.go's files and handlers.   *)
THEOREM TypeCorrect == Spec => []TypeOK
<1>1. IInv => TypeOK
    BY DEF IInv, Shape
<1> QED
    BY Inductive, <1>1, PTL

(* Whatever new-account answered or mapped has a document, unless a        *)
(* deactivation has truncated it (acme_handler.go:226-233).                *)
THEOREM AccountAlwaysResolves == Spec => []AccountResolves
<1>1. IInv => AccountResolves
    BY DEF IInv, Resolves, Documented, AccountResolves
<1> QED
    BY Inductive, <1>1, PTL

(* A deactivated account never becomes valid again                         *)
(* (acme_handler.go:937-945).                                              *)
THEOREM RetiredStaysRetired == Spec => []RetiredForGood
<1>1. IInv => RetiredForGood
    BY DEF IInv
<1> QED
    BY Inductive, <1>1, PTL

(* However the creators overlap, and whatever they fail to read, without   *)
(* failing writes the key leads in the end to an account some client was   *)
(* told of (acme_handler.go:202-240).                                      *)
THEOREM KeyAlwaysLeadsToAClient == Spec => []KeyLeadsToAClient
<1>1. IInv => KeyLeadsToAClient
    BY AccountAssumption DEF IInv, Shape, TypeOK, Led, KeyLeadsToAClient, AtRest
<1> QED
    BY Inductive, <1>1, PTL

(* Requests that come one after the other are told one account more than   *)
(* reads have failed in them at the most; failing writes and crashes do    *)
(* not count (account.go:63-66, acme_handler.go:201-240).                  *)
THEOREM FurtherAccountsStayMisreads == Spec => []FurtherAccountsAreMisreads
<1>1. IInv => FurtherAccountsAreMisreads
    <2> SUFFICES ASSUME IInv, ~ disturbed PROVE Cardinality(answered) <= 1 + misreads
        BY DEF FurtherAccountsAreMisreads
    <2>1. misreads \in Nat /\ Cardinality(answered) \in Nat
        BY AccountAssumption, FS_CardinalityType DEF IInv, Shape, TypeOK, Sole
    <2> QED
        BY <2>1 DEF IInv, Sole
<1> QED
    BY Inductive, <1>1, PTL

(* In the same circumstances every account but one is what a fault left    *)
(* behind (acme_handler.go:226-233).                                       *)
THEOREM OrphansStayFaults == Spec => []OrphansAreFaults
<1>1. IInv => OrphansAreFaults
    <2> SUFFICES ASSUME IInv, ~ disturbed PROVE Cardinality(Extant) <= 1 + faults
        BY DEF OrphansAreFaults, Extant
    <2>1. faults \in Nat /\ Cardinality(Extant) \in Nat
        BY AccountAssumption, FS_CardinalityType DEF IInv, Shape, TypeOK, Orphans
    <2> QED
        BY <2>1 DEF IInv, Orphans
<1> QED
    BY Inductive, <1>1, PTL
=============================================================================
