------------------------- MODULE NonceManagerProofs -------------------------
(***************************************************************************)
(* What NonceManager guarantees for any number of nonces and concurrent    *)
(* requests, any lifetime and any number of restarts.                      *)
(***************************************************************************)
EXTENDS NonceManager, TLAPS

(* The mutex excludes: whoever is between lookup and deletion is alone.    *)
Exclusion ==
    /\ \A r \in Requests : r \in mu <=> request[r].pc = "consume"
    /\ \A r, s \in mu : r = s

(* What a request found under the mutex is still there when it deletes.    *)
LookupIsCurrent ==
    \A r \in Requests :
        request[r].pc = "consume" /\ request[r].exists => request[r].presented \in nonces

(* The map holds issued nonces nobody has redeemed, none from the future.  *)
MapIsUnspent ==
    /\ \A n \in nonces : n \in Issued /\ accepted[n] = 0
    /\ \A n \in Nonces : createdAt[n] <= clock
    /\ \A n \in Nonces \ Issued : accepted[n] = 0

IInv ==
    /\ TypeOK
    /\ Exclusion
    /\ LookupIsCurrent
    /\ MapIsUnspent
    /\ AcceptedOnce
    /\ GoodForItsLifetime
    /\ SweptByGenerate
-----------------------------------------------------------------------------
(* Initially nothing is issued, held or running (nonce.go:23-25).          *)
LEMMA InitIInv == Init => IInv
  BY NonceAssumption
  DEF Init, IInv, TypeOK, Exclusion, LookupIsCurrent, MapIsUnspent, AcceptedOnce,
      GoodForItsLifetime, SweptByGenerate, Issued, Expired, Idle, Never

(* Generate only adds: the map gains one unspent entry of the current time *)
(* and a cleanup is pending (nonce.go:36-41).                              *)
LEMMA GenerateKeepsMap ==
  ASSUME IInv, NEW n \in Nonces, Generate(n), UNCHANGED << clock, mu, accepted, lost >>
  PROVE  /\ nonces' \subseteq Nonces
         /\ createdAt' \in [Nonces -> {Never} \cup (0..MaxClock)]
         /\ cleanups' \in Nat
         /\ MapIsUnspent'
         /\ AcceptedOnce'
         /\ GoodForItsLifetime'
         /\ SweptByGenerate'
         /\ nonces \subseteq nonces'
<1>1. /\ createdAt' \in [Nonces -> {Never} \cup (0..MaxClock)]
      /\ createdAt'[n] = clock
      /\ \A m \in Nonces \ {n} : createdAt'[m] = createdAt[m]
  BY NonceAssumption DEF IInv, TypeOK, Generate
<1>2. Issued' = Issued \cup {n} /\ n \notin nonces /\ accepted[n] = 0
  BY <1>1, NonceAssumption DEF IInv, TypeOK, MapIsUnspent, Generate, Fresh, Issued, Never
<1>3. MapIsUnspent'
  BY <1>1, <1>2, NonceAssumption DEF IInv, TypeOK, MapIsUnspent, Generate
<1>4. GoodForItsLifetime'
  BY <1>1, <1>2, NonceAssumption DEF IInv, TypeOK, GoodForItsLifetime, Generate, Expired
<1>5. cleanups' \in Nat /\ SweptByGenerate'
  BY NonceAssumption DEF IInv, TypeOK, SweptByGenerate, Generate
<1> QED
  BY <1>1, <1>3, <1>4, <1>5 DEF IInv, TypeOK, AcceptedOnce, Generate

(* A step that leaves map, clock and mutex alone keeps all that is said    *)
(* of them.                                                                *)
LEMMA MapUntouched ==
  ASSUME IInv,
         UNCHANGED << clock, nonces, createdAt, cleanups, accepted, lost >>
  PROVE  MapIsUnspent' /\ AcceptedOnce' /\ GoodForItsLifetime' /\ SweptByGenerate'
  BY DEF IInv, MapIsUnspent, AcceptedOnce, GoodForItsLifetime, SweptByGenerate,
         Issued, Expired

(* Every step keeps the inductive invariant.                               *)
LEMMA NextIInv == IInv /\ [Next]_vars => IInv'
<1> SUFFICES ASSUME IInv, [Next]_vars PROVE IInv'
  OBVIOUS
<1> USE NonceAssumption
<1>1. ASSUME NEW n \in Nonces, NewNonce(n) PROVE IInv'
  <2>1. UNCHANGED << clock, mu, request, accepted, lost, restarts >> /\ Generate(n)
    BY <1>1 DEF NewNonce
  <2>2. TypeOK'
    BY <1>1, <2>1, GenerateKeepsMap DEF IInv, TypeOK, NewNonce
  <2>3. Exclusion' /\ LookupIsCurrent'
    BY <2>1, GenerateKeepsMap DEF IInv, Exclusion, LookupIsCurrent
  <2> QED BY <2>1, <2>2, <2>3, GenerateKeepsMap DEF IInv
<1>2. ASSUME NEW r \in Requests, NEW n \in Nonces, NEW p \in Nonces \cup {NoNonce},
             Begin(r, n, p)
      PROVE  IInv'
  <2>1. UNCHANGED << clock, mu, accepted, delivered, lost, restarts >> /\ Generate(n)
    BY <1>2 DEF Begin
  <2>2. TypeOK'
    BY <1>2, <2>1, GenerateKeepsMap DEF IInv, TypeOK, Begin
  <2>3. Exclusion' /\ LookupIsCurrent'
    BY <1>2, <2>1, GenerateKeepsMap DEF IInv, TypeOK, Exclusion, LookupIsCurrent, Begin
  <2> QED BY <2>1, <2>2, <2>3, GenerateKeepsMap DEF IInv
<1>3. ASSUME NEW r \in Requests, NEW p \in Nonces \cup {NoNonce},
             BeginWithoutReplyNonce(r, p)
      PROVE  IInv'
  <2>1. MapIsUnspent' /\ AcceptedOnce' /\ GoodForItsLifetime' /\ SweptByGenerate'
    BY <1>3, MapUntouched DEF BeginWithoutReplyNonce
  <2>2. TypeOK' /\ Exclusion' /\ LookupIsCurrent'
    BY <1>3 DEF IInv, TypeOK, Exclusion, LookupIsCurrent, BeginWithoutReplyNonce
  <2> QED BY <2>1, <2>2 DEF IInv
<1>4. ASSUME NEW r \in Requests, ReplyEarly(r) PROVE IInv'
  <2>1. MapIsUnspent' /\ AcceptedOnce' /\ GoodForItsLifetime' /\ SweptByGenerate'
    BY <1>4, MapUntouched DEF ReplyEarly
  <2>2. TypeOK' /\ Exclusion' /\ LookupIsCurrent'
    BY <1>4 DEF IInv, TypeOK, Exclusion, LookupIsCurrent, ReplyEarly, Reply, Idle
  <2> QED BY <2>1, <2>2 DEF IInv
<1>5. ASSUME NEW r \in Requests, Lookup(r) PROVE IInv'
  <2>1. MapIsUnspent' /\ AcceptedOnce' /\ GoodForItsLifetime' /\ SweptByGenerate'
    BY <1>5, MapUntouched DEF Lookup
  <2> DEFINE found == request[r].presented \in nonces
  <2>2. /\ mu = {} /\ mu' = {r}
        /\ found \in BOOLEAN
        /\ request' = [request EXCEPT ![r].pc = "consume", ![r].exists = found]
        /\ UNCHANGED << clock, nonces, createdAt, cleanups, accepted, delivered,
                        lost, restarts >>
    BY <1>5 DEF Lookup, Unlocked
  <2> HIDE DEF found
  <2>3. TypeOK'
    BY <2>2 DEF IInv, TypeOK
  <2>4. Exclusion'
    BY <2>2 DEF IInv, TypeOK, Exclusion
  <2>5. LookupIsCurrent'
    BY <2>2 DEF IInv, TypeOK, Exclusion, LookupIsCurrent, found
  <2> QED BY <2>1, <2>3, <2>4, <2>5 DEF IInv
<1>6. ASSUME NEW r \in Requests, Consume(r) PROVE IInv'
  <2> DEFINE n == request[r].presented
  <2>1. /\ UNCHANGED << clock, createdAt, cleanups, lost, restarts >>
        /\ request' = [request EXCEPT ![r] = Idle]
        /\ delivered' = delivered \cup ({request[r].reply} \ {NoNonce})
        /\ mu' = mu \ {r}
        /\ request[r].pc = "consume"
    BY <1>6 DEF Consume, Reply
  <2>2. mu' = {} /\ \A s \in Requests : request'[s].pc # "consume"
    BY <2>1 DEF IInv, TypeOK, Exclusion, Idle
  <2>3. Exclusion' /\ LookupIsCurrent'
    BY <2>2 DEF Exclusion, LookupIsCurrent
  <2>4. CASE ~ request[r].exists
    <3>1. UNCHANGED << nonces, accepted >>
      BY <1>6, <2>4 DEF Consume
    <3>2. MapIsUnspent' /\ AcceptedOnce' /\ GoodForItsLifetime' /\ SweptByGenerate'
      BY <2>1, <3>1, MapUntouched
    <3>3. TypeOK'
      BY <2>1, <3>1 DEF IInv, TypeOK, Idle
    <3> QED BY <2>3, <3>2, <3>3 DEF IInv
  <2>5. CASE request[r].exists
    <3>1. n \in nonces /\ n \in Issued /\ accepted[n] = 0 /\ nonces' = nonces \ {n}
      BY <1>6, <2>1, <2>5 DEF Consume, IInv, LookupIsCurrent, MapIsUnspent
    <3>2. \/ Expired(n) /\ accepted' = accepted
          \/ ~ Expired(n) /\ accepted' = [accepted EXCEPT ![n] = @ + 1]
      BY <1>6, <2>5 DEF Consume
    <3>3. TypeOK'
      BY <2>1, <3>1, <3>2 DEF IInv, TypeOK, Idle
    <3>4. MapIsUnspent' /\ AcceptedOnce'
      BY <2>1, <3>1, <3>2 DEF IInv, TypeOK, MapIsUnspent, AcceptedOnce, Issued
    <3>5. GoodForItsLifetime' /\ SweptByGenerate'
      BY <2>1, <3>1, <3>2
      DEF IInv, TypeOK, GoodForItsLifetime, SweptByGenerate, Issued, Expired
    <3> QED BY <2>3, <3>3, <3>4, <3>5 DEF IInv
  <2> QED BY <2>4, <2>5
<1>7. ASSUME Cleanup PROVE IInv'
  <2>1. /\ UNCHANGED << clock, createdAt, mu, request, accepted, delivered, lost, restarts >>
        /\ mu = {}
        /\ nonces' = {n \in nonces : ~ Expired(n)}
        /\ cleanups' = cleanups - 1
        /\ cleanups > 0
    BY <1>7 DEF Cleanup, Unlocked
  <2>2. TypeOK' /\ Exclusion' /\ LookupIsCurrent'
    BY <2>1 DEF IInv, TypeOK, Exclusion, LookupIsCurrent
  <2>3. MapIsUnspent' /\ AcceptedOnce'
    BY <2>1 DEF IInv, MapIsUnspent, AcceptedOnce, Issued
  <2>4. GoodForItsLifetime'
    BY <2>1 DEF IInv, TypeOK, GoodForItsLifetime, Issued, Expired, Never
  <2>5. SweptByGenerate'
    BY <2>1 DEF IInv, TypeOK, MapIsUnspent, SweptByGenerate, Issued, Expired, Never
  <2> QED BY <2>2, <2>3, <2>4, <2>5 DEF IInv
<1>8. ASSUME Tick PROVE IInv'
  <2>1. /\ UNCHANGED << nonces, createdAt, mu, cleanups, request, accepted, delivered,
                        lost, restarts >>
        /\ clock' = clock + 1
        /\ clock < MaxClock
    BY <1>8 DEF Tick
  <2>2. TypeOK' /\ Exclusion' /\ LookupIsCurrent'
    BY <2>1 DEF IInv, TypeOK, Exclusion, LookupIsCurrent
  <2>3. AcceptedOnce' /\ SweptByGenerate'
    BY <2>1 DEF IInv, AcceptedOnce, SweptByGenerate, Issued
  <2>4. MapIsUnspent'
    BY <2>1 DEF IInv, TypeOK, MapIsUnspent, Issued, Never
  <2>5. GoodForItsLifetime'
    BY <2>1 DEF IInv, TypeOK, GoodForItsLifetime, Issued, Expired, Never
  <2> QED BY <2>2, <2>3, <2>4, <2>5 DEF IInv
<1>9. ASSUME Restart PROVE IInv'
  <2>1. TypeOK' /\ Exclusion' /\ LookupIsCurrent'
    BY <1>9 DEF IInv, TypeOK, Exclusion, LookupIsCurrent, Restart, Idle
  <2>2. MapIsUnspent' /\ AcceptedOnce' /\ GoodForItsLifetime' /\ SweptByGenerate'
    BY <1>9 DEF IInv, MapIsUnspent, AcceptedOnce, GoodForItsLifetime, SweptByGenerate,
                Issued, Expired, Restart
  <2> QED BY <2>1, <2>2 DEF IInv
<1>10. CASE UNCHANGED vars
  <2>1. MapIsUnspent' /\ AcceptedOnce' /\ GoodForItsLifetime' /\ SweptByGenerate'
    BY <1>10, MapUntouched DEF vars
  <2>2. TypeOK' /\ Exclusion' /\ LookupIsCurrent'
    BY <1>10 DEF IInv, TypeOK, Exclusion, LookupIsCurrent, vars
  <2> QED BY <2>1, <2>2 DEF IInv
<1> QED
  BY <1>1, <1>2, <1>3, <1>4, <1>5, <1>6, <1>7, <1>8, <1>9, <1>10 DEF Next

(* The inductive invariant holds in every reachable state.                 *)
LEMMA Invariance == Spec => []IInv
  BY InitIInv, NextIInv, PTL DEF Spec
-----------------------------------------------------------------------------
(* Type correctness (nonce.go:12-25 and the handlers' local state).        *)
THEOREM TypeCorrect == Spec => []TypeOK
<1>1. IInv => TypeOK
  BY DEF IInv
<1> QED BY <1>1, Invariance, PTL

(* Replay protection: no nonce is ever accepted twice (nonce.go:47-65).    *)
THEOREM ReplayProtection == Spec => []AcceptedOnce
<1>1. IInv => AcceptedOnce
  BY DEF IInv
<1> QED BY <1>1, Invariance, PTL

(* A generated nonce keeps its value for the whole lifetime unless it is   *)
(* redeemed or a restart wipes it (nonce.go:36-41, 72-76).                 *)
THEOREM KeptForLifetime == Spec => []GoodForItsLifetime
<1>1. IInv => GoodForItsLifetime
  BY DEF IInv
<1> QED BY <1>1, Invariance, PTL

(* The map is bounded by the nonces of one lifetime around the last        *)
(* Generate once its cleanup has run (nonce.go:41, 68-77).                 *)
THEOREM SweptAfterGenerate == Spec => []SweptByGenerate
<1>1. IInv => SweptByGenerate
  BY DEF IInv
<1> QED BY <1>1, Invariance, PTL
-----------------------------------------------------------------------------
(* A step that changes neither map, entries nor acceptances is a stutter   *)
(* of the abstract token.                                                  *)
LEMMA TokenStutters ==
  ASSUME UNCHANGED << nonces, createdAt, accepted >>
  PROVE  UNCHANGED [n \in Nonces |-> TokenOf(n)]
  BY DEF TokenOf, Issued

(* Generate issues exactly one abstract token.                             *)
LEMMA GenerateIssues ==
  ASSUME IInv, NEW n \in Nonces, Generate(n), UNCHANGED << clock, accepted >>
  PROVE  Token!Next
<1> DEFINE st == [m \in Nonces |-> TokenOf(m)]
<1>1. /\ n \notin Issued
      /\ n \notin nonces
      /\ accepted[n] = 0
      /\ nonces' = nonces \cup {n}
      /\ createdAt' = [createdAt EXCEPT ![n] = clock]
      /\ accepted' = accepted
  BY DEF IInv, MapIsUnspent, Generate, Fresh
<1>2. Issued' = Issued \cup {n}
  BY <1>1, NonceAssumption DEF IInv, TypeOK, Issued, Never
<1>3. st[n] = "unissued"
  BY <1>1 DEF TokenOf
<1>4. TokenOf(n)' = "live"
  BY <1>1, <1>2 DEF TokenOf
<1>5. \A m \in Nonces \ {n} : TokenOf(m)' = TokenOf(m)
  BY <1>1, <1>2 DEF TokenOf
<1>6. [m \in Nonces |-> TokenOf(m)]' = [st EXCEPT ![n] = "live"]
  BY <1>4, <1>5
<1>7. Token!Issue(n)
  BY <1>3, <1>6 DEF Token!Issue
<1> QED BY <1>7 DEF Token!Next

(* Entries that leave the map unredeemed become void tokens, all at once.  *)
LEMMA LossVoids ==
  ASSUME IInv, NEW D \in SUBSET nonces, nonces' = nonces \ D,
         UNCHANGED << createdAt, accepted >>
  PROVE  Token!Next
<1> DEFINE st == [m \in Nonces |-> TokenOf(m)]
<1>1. D \in SUBSET Nonces /\ Issued' = Issued
  BY DEF IInv, TypeOK, Issued
<1>2. \A m \in D : TokenOf(m) = "live" /\ TokenOf(m)' = "void"
  BY <1>1 DEF IInv, TypeOK, MapIsUnspent, TokenOf
<1>3. \A m \in Nonces \ D : TokenOf(m)' = TokenOf(m)
  BY <1>1 DEF TokenOf
<1>4. Token!Void(D)
  BY <1>1, <1>2, <1>3 DEF Token!Void
<1> QED BY <1>1, <1>4 DEF Token!Next

(* A successful Consume redeems exactly one abstract token.                *)
LEMMA AcceptRedeems ==
  ASSUME IInv, NEW n \in nonces, nonces' = nonces \ {n}, createdAt' = createdAt,
         accepted' = [accepted EXCEPT ![n] = @ + 1]
  PROVE  Token!Next
<1> DEFINE st == [m \in Nonces |-> TokenOf(m)]
<1>1. /\ n \in Nonces
      /\ n \in Issued
      /\ accepted[n] = 0
      /\ Issued' = Issued
      /\ accepted'[n] = 1
      /\ \A m \in Nonces \ {n} : accepted'[m] = accepted[m]
  BY DEF IInv, TypeOK, MapIsUnspent, Issued
<1>2. TokenOf(n) = "live" /\ TokenOf(n)' = "spent"
  BY <1>1 DEF TokenOf
<1>3. \A m \in Nonces \ {n} : TokenOf(m)' = TokenOf(m)
  BY <1>1 DEF TokenOf
<1>4. Token!Redeem(n)
  BY <1>1, <1>2, <1>3 DEF Token!Redeem
<1> QED BY <1>1, <1>4 DEF Token!Next

(* Every step of the manager is a step of the abstract token or a stutter. *)
LEMMA StepImplements ==
  IInv /\ [Next]_vars => [Token!Next]_([n \in Nonces |-> TokenOf(n)])
<1> SUFFICES ASSUME IInv, [Next]_vars
             PROVE  Token!Next \/ UNCHANGED [n \in Nonces |-> TokenOf(n)]
  OBVIOUS
<1>1. ASSUME NEW n \in Nonces, NewNonce(n) PROVE Token!Next
  BY <1>1, GenerateIssues DEF NewNonce
<1>2. ASSUME NEW r \in Requests, NEW n \in Nonces, NEW p \in Nonces \cup {NoNonce},
             Begin(r, n, p)
      PROVE  Token!Next
  BY <1>2, GenerateIssues DEF Begin
<1>3. ASSUME NEW r \in Requests, NEW p \in Nonces \cup {NoNonce},
             BeginWithoutReplyNonce(r, p)
      PROVE  UNCHANGED [n \in Nonces |-> TokenOf(n)]
  BY <1>3, TokenStutters DEF BeginWithoutReplyNonce
<1>4. ASSUME NEW r \in Requests, ReplyEarly(r) \/ Lookup(r)
      PROVE  UNCHANGED [n \in Nonces |-> TokenOf(n)]
  BY <1>4, TokenStutters DEF ReplyEarly, Lookup
<1>5. ASSUME NEW r \in Requests, Consume(r)
      PROVE  Token!Next \/ UNCHANGED [n \in Nonces |-> TokenOf(n)]
  <2> DEFINE n == request[r].presented
  <2>1. createdAt' = createdAt
    BY <1>5 DEF Consume
  <2>2. CASE ~ request[r].exists
    BY <1>5, <2>1, <2>2, TokenStutters DEF Consume
  <2>3. CASE request[r].exists
    <3>1. n \in nonces /\ nonces' = nonces \ {n}
      BY <1>5, <2>3 DEF Consume, IInv, LookupIsCurrent
    <3>2. CASE accepted' = accepted
      BY <2>1, <3>1, <3>2, LossVoids
    <3>3. CASE accepted' = [accepted EXCEPT ![n] = @ + 1]
      BY <2>1, <3>1, <3>3, AcceptRedeems
    <3> QED BY <1>5, <2>3, <3>2, <3>3 DEF Consume
  <2> QED BY <2>2, <2>3
<1>6. ASSUME Cleanup PROVE Token!Next
  <2>1. nonces' = nonces \ {n \in nonces : Expired(n)}
    BY <1>6 DEF Cleanup
  <2> QED BY <1>6, <2>1, LossVoids DEF Cleanup
<1>7. ASSUME Tick PROVE UNCHANGED [n \in Nonces |-> TokenOf(n)]
  BY <1>7, TokenStutters DEF Tick
<1>8. ASSUME Restart PROVE Token!Next
  <2>1. nonces' = nonces \ nonces
    BY <1>8 DEF Restart
  <2> QED BY <1>8, <2>1, LossVoids DEF Restart
<1>9. CASE UNCHANGED vars
  BY <1>9, TokenStutters DEF vars
<1> QED
  BY <1>1, <1>2, <1>3, <1>4, <1>5, <1>6, <1>7, <1>8, <1>9 DEF Next

(* The manager implements the single-use token: what is spent or void      *)
(* never becomes live again, not even across a restart (nonce.go:28-77).   *)
THEOREM Implements == Spec => ImplementsSingleUseToken
<1>1. Init => Token!Init
  BY DEF Init, Token!Init, TokenOf, Issued
<1>2. IInv /\ [Next]_vars => [Token!Next]_([n \in Nonces |-> TokenOf(n)])
  BY StepImplements
<1> QED
  BY <1>1, <1>2, Invariance, PTL DEF Spec, ImplementsSingleUseToken, Token!Spec
=============================================================================
