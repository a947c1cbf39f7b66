------------------------ MODULE OcspResponderProofs -------------------------
(***************************************************************************)
(* Theorems about OcspResponder for any number of issuers, serial numbers, *)
(* overlapping requests and faults, and any lifetime.                      *)
(***************************************************************************)
EXTENDS OcspResponder, TLAPS

(* What a program counter says of the rest of a handler.                   *)
HandlerOK(h) ==
    /\ h.pc = "idle" <=> h.cert = None
    /\ h.pc \in {"sign", "store", "reply"} => h.response \in Response
    /\ h.pc \in {"idle", "fetch"} => h.response = None

Shape == TypeOK /\ \A r \in Requests : HandlerOK(request[r])

(* What may be said of c: "revoked" if it is listed, and, once a           *)
(* clear-cache has made that effective, nothing else.                      *)
Allowed(c, x) ==
    \/ x = None
    \/ /\ x.status = "revoked" => Listed(c)
       /\ c \in cleared => x.status = "revoked"

Sound ==
    /\ cleared \subseteq Certificates
    /\ \A c \in cleared : Listed(c)
    /\ \A c \in Certificates : Allowed(c, cache[c])
    /\ \A r \in Requests : Allowed(request[r].cert, request[r].response)

IInv == Shape /\ Sound

Handler == [pc : {"idle", "fetch", "sign", "store", "reply"},
            cert : Certificates \cup {None}, response : Response \cup {None}]

LEMMA DataOf == ASSUME NEW x \in Response
                PROVE  Data(x) \in Response /\ Data(x).status = x.status
BY OcspAssumption DEF Data, Response

LEMMA AgedOf == ASSUME NEW x \in Response \cup {None}
                PROVE  /\ Aged(x) \in Response \cup {None}
                       /\ Aged(x) = None <=> x = None
                       /\ x # None => Aged(x) \in Response /\ Aged(x).status = x.status
<1>1. CASE x = None
    BY <1>1 DEF Aged, Fresh
<1>2. CASE x # None /\ x.left = 0
    BY <1>2 DEF Aged, Fresh, Response
<1>3. CASE x # None /\ x.left # 0
    <2>1. x \in Response /\ x.left \in 1..Lifetime /\ x.left - 1 \in 0..Lifetime
        BY <1>3, OcspAssumption DEF Response
    <2>2. Aged(x) = [x EXCEPT !.left = @ - 1]
        BY <1>3, <2>1 DEF Aged, Fresh
    <2>3. Aged(x) \in Response /\ Aged(x).status = x.status
        BY <2>1, <2>2 DEF Response
    <2> QED
        BY <1>3, <2>3, OcspAssumption
<1> QED
    BY <1>1, <1>2, <1>3

(* Whatever overlapping accesses show of the cache is a response somebody  *)
(* has made for that certificate, but for its expiry.                      *)
LEMMA SeenOf ==
    ASSUME Shape, NEW c \in Certificates, NEW x \in Seen(c)
    PROVE  /\ x \in Response \cup {None}
           /\ Sound => Allowed(c, x)
<1> DEFINE versions == ({cache[c]} \cup {request[q].response : q \in Storing(c)}) \ {None}
<1>1. ASSUME NEW y \in versions PROVE y \in Response /\ (Sound => Allowed(c, y))
    <2>1. CASE y = cache[c]
        BY <1>1, <2>1 DEF Shape, TypeOK, Sound
    <2>2. CASE \E q \in Storing(c) : y = request[q].response
        <3>1. PICK q \in Storing(c) : y = request[q].response
            BY <2>2
        <3>2. q \in Requests /\ request[q].pc = "store" /\ request[q].cert = c
            BY DEF Storing
        <3> QED
            BY <3>1, <3>2 DEF Shape, HandlerOK, Sound
    <2> QED
        BY <1>1, <2>1, <2>2
<1>2. CASE x \in {cache[c], None}
    BY <1>2 DEF Shape, TypeOK, Sound, Allowed
<1>3. CASE \E a, b \in versions : x = [a EXCEPT !.left = b.left]
    <2>1. PICK a \in versions, b \in versions : x = [a EXCEPT !.left = b.left]
        BY <1>3
    <2>2. a \in Response /\ b \in Response /\ (Sound => Allowed(c, a))
        BY <1>1
    <2>3. x \in Response /\ x.status = a.status
        BY <2>1, <2>2 DEF Response
    <2>4. a # None
        BY <2>2, OcspAssumption
    <2> HIDE DEF versions
    <2> QED
        BY <2>2, <2>3, <2>4 DEF Allowed
<1>4. x \in {cache[c], None} \/ \E a, b \in versions : x = [a EXCEPT !.left = b.left]
    BY DEF Seen
<1> QED
    BY <1>2, <1>3, <1>4
-----------------------------------------------------------------------------
(* Steps that change one handler and leave the cache and the backend alone.*)
LEMMA OneHandler ==
    ASSUME IInv,
           NEW r \in Requests, NEW h \in Handler,
           HandlerOK(h), Allowed(h.cert, h.response),
           request' = [request EXCEPT ![r] = h],
           UNCHANGED << revoked, cache, cleared >>,
           faults' \in 0..MaxFaults
    PROVE  IInv'
<1>1. TypeOK'
    BY DEF IInv, Shape, TypeOK, Handler
<1>2. \A q \in Requests : request'[q] = IF q = r THEN h ELSE request[q]
    BY DEF IInv, Shape, TypeOK
<1>3. \A q \in Requests : HandlerOK(request[q])'
    BY <1>2 DEF IInv, Shape, HandlerOK
<1>4. Sound'
    BY <1>2 DEF IInv, Sound, Allowed, Listed
<1> QED
    BY <1>1, <1>3, <1>4 DEF IInv, Shape

LEMMA FaultType == ASSUME IInv, Fault PROVE faults' \in 0..MaxFaults
BY OcspAssumption DEF IInv, Shape, TypeOK, Fault

(* What is listed stays listed.                                            *)
LEMMA ListsGrow ==
    ASSUME IInv, NEW i \in Intermediates, NEW e \in Entries, Revoke(i, e),
           NEW c \in Certificates, Listed(c)
    PROVE  Listed(c)'
<1>1. c[1] \in Intermediates
    BY OcspAssumption
<1>2. revoked[c[1]] \subseteq revoked'[c[1]]
    BY <1>1 DEF Revoke, IInv, Shape, TypeOK
<1> QED
    BY <1>2 DEF Listed, Numbers

LEMMA StepRevoke ==
    ASSUME IInv, NEW i \in Intermediates, NEW e \in Entries, Revoke(i, e)
    PROVE  IInv'
<1>1. /\ revoked' = [revoked EXCEPT ![i] = @ \cup {e}]
      /\ UNCHANGED << cache, request, cleared, faults >>
    BY DEF Revoke
<1>2. revoked' \in [Intermediates -> SUBSET Entries]
    BY <1>1 DEF IInv, Shape, TypeOK
<1>3. Shape'
    BY <1>1, <1>2 DEF IInv, Shape, TypeOK, HandlerOK
<1>4. \A c \in Certificates : Listed(c) => Listed(c)'
    BY ListsGrow
<1>5. (cleared \subseteq Certificates /\ \A c \in cleared : Listed(c))'
    BY <1>1, <1>4 DEF IInv, Sound
<1>6. ASSUME NEW c \in Certificates \cup {None}, NEW x, Allowed(c, x),
             c = None => x = None
      PROVE  Allowed(c, x)'
    BY <1>1, <1>4, <1>6 DEF Allowed
<1>7. \A c \in Certificates : Allowed(c, cache[c])'
    BY <1>1, <1>6, OcspAssumption DEF IInv, Sound
<1>8. ASSUME NEW r \in Requests PROVE Allowed(request[r].cert, request[r].response)'
    <2>1. /\ request[r].cert \in Certificates \cup {None}
          /\ request[r].cert = None => request[r].response = None
        BY DEF IInv, Shape, TypeOK, HandlerOK
    <2> QED
        BY <1>1, <1>6, <2>1 DEF IInv, Sound
<1> QED
    BY <1>3, <1>5, <1>7, <1>8 DEF IInv, Sound

LEMMA StepLookUp == ASSUME IInv, NEW r \in Requests, NEW c \in Certificates, LookUp(r, c)
                    PROVE  IInv'
<1>1. PICK x \in Seen(c) :
          IF Fresh(x) THEN Goto(r, "reply", c, Data(x)) ELSE Goto(r, "fetch", c, None)
    BY DEF LookUp
<1>2. x \in Response \cup {None} /\ Allowed(c, x)
    BY SeenOf DEF IInv
<1>3. UNCHANGED << revoked, cache, cleared, faults >> /\ faults' \in 0..MaxFaults
    BY DEF LookUp, IInv, Shape, TypeOK
<1>4. CASE Fresh(x)
    <2> DEFINE h == [pc |-> "reply", cert |-> c, response |-> Data(x)]
    <2>1. x \in Response /\ Data(x) \in Response /\ Data(x).status = x.status /\ x # None
        BY <1>2, <1>4, DataOf DEF Fresh
    <2>2. h \in Handler /\ HandlerOK(h) /\ Allowed(h.cert, h.response)
        BY <1>2, <2>1, OcspAssumption DEF Handler, HandlerOK, Allowed
    <2>3. request' = [request EXCEPT ![r] = h]
        BY <1>1, <1>4 DEF Goto
    <2> HIDE DEF h
    <2> QED
        BY <1>3, <2>2, <2>3, OneHandler
<1>5. CASE ~ Fresh(x)
    <2> DEFINE h == [pc |-> "fetch", cert |-> c, response |-> None]
    <2>1. h \in Handler /\ HandlerOK(h) /\ Allowed(h.cert, h.response)
        BY OcspAssumption DEF Handler, HandlerOK, Allowed
    <2>2. request' = [request EXCEPT ![r] = h]
        BY <1>1, <1>5 DEF Goto
    <2> HIDE DEF h
    <2> QED
        BY <1>3, <2>1, <2>2, OneHandler
<1> QED
    BY <1>4, <1>5

LEMMA StepFetch == ASSUME IInv, NEW r \in Requests, Fetch(r) PROVE IInv'
<1> DEFINE c == request[r].cert
           h == [pc |-> "sign", cert |-> c,
                 response |-> Found(IF Listed(c) THEN "revoked" ELSE "good")]
<1>1. request' = [request EXCEPT ![r] = h] /\ request[r].pc = "fetch"
    BY DEF Fetch, Goto
<1>2. c \in Certificates
    BY <1>1 DEF IInv, Shape, TypeOK, HandlerOK
<1>3. h \in Handler /\ HandlerOK(h)
    BY <1>2, OcspAssumption DEF Handler, HandlerOK, Found, Response
<1>4. Allowed(h.cert, h.response)
    BY DEF IInv, Sound, Allowed, Found
<1>5. UNCHANGED << revoked, cache, cleared, faults >> /\ faults' \in 0..MaxFaults
    BY DEF Fetch, IInv, Shape, TypeOK
<1> HIDE DEF h
<1> QED
    BY <1>1, <1>3, <1>4, <1>5, OneHandler

LEMMA StepFetchFails == ASSUME IInv, NEW r \in Requests, FetchFails(r) PROVE IInv'
<1> DEFINE c == request[r].cert
           h == [pc |-> "sign", cert |-> c, response |-> Found("good")]
<1>1. /\ request' = [request EXCEPT ![r] = h]
      /\ request[r].pc = "fetch"
      /\ cleared' = cleared \ {c}
      /\ UNCHANGED << revoked, cache >>
    BY DEF FetchFails, Goto
<1>2. c \in Certificates
    BY <1>1 DEF IInv, Shape, TypeOK, HandlerOK
<1>3. h \in Handler /\ HandlerOK(h)
    BY <1>2, OcspAssumption DEF Handler, HandlerOK, Found, Response
<1>4. \A q \in Requests : request'[q] = IF q = r THEN h ELSE request[q]
    BY <1>1 DEF IInv, Shape, TypeOK
<1>5. TypeOK'
    BY <1>1, <1>3, FaultType DEF FetchFails, IInv, Shape, TypeOK, Handler
<1>6. \A q \in Requests : HandlerOK(request[q])'
    BY <1>3, <1>4 DEF IInv, Shape, HandlerOK
<1>7. Allowed(h.cert, h.response)'
    BY <1>1 DEF Allowed, Found
<1>8. Sound'
    BY <1>1, <1>4, <1>7 DEF IInv, Sound, Allowed, Listed
<1> QED
    BY <1>5, <1>6, <1>8 DEF IInv, Shape

LEMMA StepSign == ASSUME IInv, NEW r \in Requests, Sign(r) PROVE IInv'
<1> DEFINE x == request[r].response
           h == [request[r] EXCEPT !.pc = "store", !.response = [x EXCEPT !.left = Lifetime]]
<1>1. request[r] \in Handler /\ request[r].pc = "sign" /\ HandlerOK(request[r])
      /\ Allowed(request[r].cert, x)
    BY DEF Sign, IInv, Shape, TypeOK, Handler, Sound
<1>2. x \in Response /\ x # None
    BY <1>1, OcspAssumption DEF HandlerOK
<1>3. [x EXCEPT !.left = Lifetime] \in Response /\ [x EXCEPT !.left = Lifetime].status = x.status
    BY <1>2, OcspAssumption DEF Response
<1>4. /\ h \in Handler
      /\ h.pc = "store"
      /\ h.cert = request[r].cert
      /\ h.response = [x EXCEPT !.left = Lifetime]
    BY <1>1, <1>3 DEF Handler
<1>5. HandlerOK(h) /\ Allowed(h.cert, h.response)
    BY <1>1, <1>2, <1>3, <1>4 DEF HandlerOK, Allowed
<1>6. request' = [request EXCEPT ![r] = h]
    BY DEF Sign, IInv, Shape, TypeOK
<1>7. UNCHANGED << revoked, cache, cleared, faults >> /\ faults' \in 0..MaxFaults
    BY DEF Sign, IInv, Shape, TypeOK
<1> HIDE DEF h
<1> QED
    BY <1>4, <1>5, <1>6, <1>7, OneHandler

LEMMA StepDone == ASSUME IInv, NEW r \in Requests, SignFails(r) \/ Reply(r) PROVE IInv'
<1>1. Idle \in Handler /\ HandlerOK(Idle) /\ Allowed(Idle.cert, Idle.response)
    BY OcspAssumption DEF Idle, Handler, HandlerOK, Allowed
<1>2. request' = [request EXCEPT ![r] = Idle]
    BY DEF SignFails, Reply
<1>3. UNCHANGED << revoked, cache, cleared, faults >> /\ faults' \in 0..MaxFaults
    BY DEF SignFails, Reply, IInv, Shape, TypeOK
<1> QED
    BY <1>1, <1>2, <1>3, OneHandler

LEMMA ReplyingOf ==
    ASSUME IInv, NEW r \in Requests, request[r].pc = "store"
    PROVE  /\ request[r].cert \in Certificates
           /\ request[r].response \in Response
           /\ Allowed(request[r].cert, request[r].response)
           /\ Replying(request[r]) \in Handler
           /\ HandlerOK(Replying(request[r]))
           /\ Allowed(request[r].cert, Replying(request[r]).response)
<1> DEFINE h == request[r]
<1>1. h \in Handler /\ HandlerOK(h) /\ Allowed(h.cert, h.response)
    BY DEF IInv, Shape, TypeOK, Handler, Sound
<1>2. h.cert \in Certificates /\ h.response \in Response /\ h.response # None
    BY <1>1, OcspAssumption DEF Handler, HandlerOK
<1>3. Data(h.response) \in Response /\ Data(h.response).status = h.response.status
    BY <1>2, DataOf
<1>4. Replying(h) \in Handler /\ HandlerOK(Replying(h))
    BY <1>2, <1>3, OcspAssumption DEF Replying, Handler, HandlerOK
<1>5. Allowed(h.cert, Replying(h).response)
    BY <1>1, <1>2, <1>3 DEF Replying, Allowed
<1> QED
    BY <1>1, <1>2, <1>4, <1>5

LEMMA StepStoreLost == ASSUME IInv, NEW r \in Requests, StoreLost(r) PROVE IInv'
<1>1. request[r].pc = "store" /\ request' = [request EXCEPT ![r] = Replying(request[r])]
    BY DEF StoreLost, Goto, Replying
<1>2. UNCHANGED << revoked, cache, cleared >> /\ faults' \in 0..MaxFaults
    BY FaultType DEF StoreLost
<1>3. Replying(request[r]).cert = request[r].cert
    BY DEF Replying
<1> QED
    BY <1>1, <1>2, <1>3, ReplyingOf, OneHandler

LEMMA StepStore == ASSUME IInv, NEW r \in Requests, Store(r) PROVE IInv'
<1> DEFINE c == request[r].cert
           h == Replying(request[r])
<1>1. /\ request[r].pc = "store"
      /\ request' = [request EXCEPT ![r] = h]
      /\ cache' = [cache EXCEPT ![c] = request[r].response]
      /\ UNCHANGED << revoked, cleared, faults >>
    BY DEF Store, Goto, Replying
<1>2. /\ c \in Certificates
      /\ request[r].response \in Response
      /\ Allowed(c, request[r].response)
      /\ h \in Handler /\ HandlerOK(h) /\ h.cert = c /\ Allowed(c, h.response)
    BY <1>1, ReplyingOf DEF Replying
<1> HIDE DEF h
<1>3. \A q \in Requests : request'[q] = IF q = r THEN h ELSE request[q]
    BY <1>1 DEF IInv, Shape, TypeOK
<1>4. \A d \in Certificates : cache'[d] = IF d = c THEN request[r].response ELSE cache[d]
    BY <1>1 DEF IInv, Shape, TypeOK
<1>5. TypeOK'
    BY <1>1, <1>2 DEF IInv, Shape, TypeOK, Handler
<1>6. \A q \in Requests : HandlerOK(request[q])'
    BY <1>2, <1>3 DEF IInv, Shape, HandlerOK
<1>7. \A d \in Certificates : Allowed(d, cache[d])'
    BY <1>1, <1>2, <1>4 DEF IInv, Sound, Allowed, Listed
<1>8. \A q \in Requests : Allowed(request[q].cert, request[q].response)'
    BY <1>1, <1>2, <1>3 DEF IInv, Sound, Allowed, Listed
<1> QED
    BY <1>1, <1>5, <1>6, <1>7, <1>8 DEF IInv, Shape, Sound, Listed

LEMMA StepClearCache == ASSUME IInv, ClearCache PROVE IInv'
<1>1. /\ cache' = [c \in Certificates |-> None]
      /\ cleared' = cleared \cup {c \in Certificates : Listed(c) /\ Quiet(c)}
      /\ UNCHANGED << revoked, faults >>
    BY DEF ClearCache
<1>2. PICK R \in SUBSET {r \in Requests : request[r].pc = "store"} :
          request' = [r \in Requests |->
                        IF r \in R THEN Replying(request[r]) ELSE request[r]]
    BY DEF ClearCache
<1>3. \A r \in Requests : request'[r] = IF r \in R THEN Replying(request[r]) ELSE request[r]
    BY <1>2, ReplyingOf
<1>4. \A r \in R : /\ Replying(request[r]) \in Handler
                   /\ HandlerOK(Replying(request[r]))
                   /\ Replying(request[r]).cert = request[r].cert
                   /\ Allowed(request[r].cert, Replying(request[r]).response)
    BY <1>2, ReplyingOf DEF Replying
<1>5. \A r \in Requests : request'[r] \in Handler
    BY <1>3, <1>4 DEF IInv, Shape, TypeOK, Handler
<1>6. request' \in [Requests -> Handler]
    BY <1>2, <1>5
<1>7. TypeOK'
    BY <1>1, <1>6 DEF IInv, Shape, TypeOK, Handler
<1>8. \A r \in Requests : HandlerOK(request[r])'
    BY <1>3, <1>4 DEF IInv, Shape, HandlerOK
<1>9. \A c \in Certificates : Allowed(c, cache[c])'
    BY <1>1 DEF Allowed
<1>10. ASSUME NEW r \in Requests PROVE Allowed(request[r].cert, request[r].response)'
    <2> DEFINE h == request'[r]
    <2>1. h.cert = request[r].cert /\ Allowed(h.cert, h.response)
        BY <1>3, <1>4 DEF IInv, Sound
    <2>2. CASE h.cert \in cleared \/ h.cert \notin cleared'
        BY <1>1, <2>1, <2>2 DEF Allowed, Listed
    <2>3. CASE h.cert \in cleared' /\ h.cert \notin cleared
        <3>1. request[r].pc = "fetch"
            BY <1>1, <2>1, <2>3 DEF Quiet
        <3>2. h = request[r] /\ request[r].response = None
            BY <1>2, <1>3, <3>1 DEF IInv, Shape, HandlerOK
        <3> QED
            BY <3>2 DEF Allowed
    <2> QED
        BY <2>2, <2>3
<1>11. (cleared \subseteq Certificates /\ \A c \in cleared : Listed(c))'
    BY <1>1 DEF IInv, Sound, Listed
<1> QED
    BY <1>7, <1>8, <1>9, <1>10, <1>11 DEF IInv, Shape, Sound

LEMMA StepRestart == ASSUME IInv, Restart PROVE IInv'
<1>1. /\ cache' = [c \in Certificates |-> None]
      /\ request' = [r \in Requests |-> Idle]
      /\ cleared' = {c \in Certificates : Listed(c)}
      /\ UNCHANGED revoked
      /\ faults' \in 0..MaxFaults
    BY FaultType DEF Restart
<1>2. Idle \in Handler /\ HandlerOK(Idle)
    BY DEF Idle, Handler, HandlerOK
<1>3. TypeOK'
    BY <1>1, <1>2 DEF IInv, Shape, TypeOK, Handler
<1>4. Sound'
    BY <1>1 DEF Sound, Allowed, Idle, Listed
<1> QED
    BY <1>1, <1>2, <1>3, <1>4 DEF IInv, Shape

LEMMA StepTick == ASSUME IInv, Tick PROVE IInv'
<1>1. /\ cache' = [c \in Certificates |-> Aged(cache[c])]
      /\ request' = [r \in Requests |-> [request[r] EXCEPT !.response = Aged(@)]]
      /\ UNCHANGED << revoked, cleared, faults >>
    BY DEF Tick
<1>2. ASSUME NEW r \in Requests
      PROVE  /\ request'[r] \in Handler
             /\ request'[r].pc = request[r].pc
             /\ request'[r].cert = request[r].cert
             /\ request'[r].response = Aged(request[r].response)
    <2>1. request[r] \in Handler
        BY DEF IInv, Shape, TypeOK, Handler
    <2>2. Aged(request[r].response) \in Response \cup {None}
        BY <2>1, AgedOf DEF Handler
    <2> QED
        BY <1>1, <2>1, <2>2 DEF Handler
<1>3. ASSUME NEW x \in Response \cup {None}, NEW c, Allowed(c, x) PROVE Allowed(c, Aged(x))'
    BY <1>1, <1>3, AgedOf DEF Allowed, Listed
<1>4. cache' \in [Certificates -> Response \cup {None}]
    BY <1>1, AgedOf DEF IInv, Shape, TypeOK
<1>5. request' \in [Requests -> Handler]
    BY <1>1, <1>2
<1>6. TypeOK'
    BY <1>1, <1>4, <1>5 DEF IInv, Shape, TypeOK, Handler
<1>7. ASSUME NEW r \in Requests
      PROVE  HandlerOK(request[r])' /\ Allowed(request[r].cert, request[r].response)'
    <2>1. request[r] \in Handler /\ HandlerOK(request[r])
          /\ Allowed(request[r].cert, request[r].response)
        BY DEF IInv, Shape, TypeOK, Handler, Sound
    <2>2. request[r].response \in Response \cup {None}
        BY <2>1 DEF Handler
    <2>3. HandlerOK(request[r])'
        BY <1>2, <2>1, <2>2, AgedOf, OcspAssumption DEF HandlerOK
    <2>4. Allowed(request[r].cert, Aged(request[r].response))'
        BY <1>1, <2>1, <2>2, AgedOf, <1>2 DEF Allowed, Listed
    <2>5. Allowed(request[r].cert, request[r].response)'
        BY <1>1, <1>2, <2>1, <2>2, AgedOf DEF Allowed, Listed
    <2> QED
        BY <2>3, <2>5
<1>8. ASSUME NEW c \in Certificates PROVE Allowed(c, cache[c])'
    <2>1. cache[c] \in Response \cup {None} /\ Allowed(c, cache[c])
        BY DEF IInv, Shape, TypeOK, Sound
    <2>2. cache'[c] = Aged(cache[c])
        BY <1>1
    <2> QED
        BY <1>1, <2>1, <2>2, AgedOf DEF Allowed, Listed
<1> QED
    BY <1>1, <1>6, <1>7, <1>8 DEF IInv, Shape, Sound, Listed
-----------------------------------------------------------------------------
LEMMA Inductive == Spec => []IInv
<1>1. Init => IInv
    <2> SUFFICES ASSUME Init PROVE IInv
        OBVIOUS
    <2>1. Idle \in Handler /\ HandlerOK(Idle)
        BY DEF Idle, Handler, HandlerOK
    <2>2. TypeOK
        BY <2>1, OcspAssumption DEF Init, TypeOK, Handler
    <2>3. Sound
        BY DEF Init, Sound, Allowed, Idle
    <2> QED
        BY <2>1, <2>2, <2>3 DEF Init, IInv, Shape
<1>2. IInv /\ [Next]_vars => IInv'
    <2> SUFFICES ASSUME IInv, [Next]_vars PROVE IInv'
        OBVIOUS
    <2>1. CASE UNCHANGED vars
        BY <2>1 DEF vars, IInv, Shape, TypeOK, HandlerOK, Sound, Allowed, Listed
    <2>2. CASE \E i \in Intermediates, e \in Entries : Revoke(i, e)
        BY <2>2, StepRevoke
    <2>3. ASSUME NEW r \in Requests,
                 \/ \E c \in Certificates : LookUp(r, c)
                 \/ Fetch(r) \/ FetchFails(r) \/ Sign(r) \/ SignFails(r)
                 \/ Store(r) \/ StoreLost(r) \/ Reply(r)
          PROVE  IInv'
        BY <2>3, StepLookUp, StepFetch, StepFetchFails, StepSign, StepDone, StepStore,
           StepStoreLost
    <2>4. CASE ClearCache \/ Restart \/ Tick
        BY <2>4, StepClearCache, StepRestart, StepTick
    <2> QED
        BY <2>1, <2>2, <2>3, <2>4 DEF Next
<1> QED
    BY <1>1, <1>2, PTL DEF Spec

(* The cache and the handlers of ocsp_handler.go keep their types.         *)
THEOREM TypeCorrect == Spec => []TypeOK
<1>1. IInv => TypeOK
    BY DEF IInv, Shape
<1> QED
    BY Inductive, <1>1, PTL

(* No response, cached or on its way to a client, says "revoked" of a      *)
(* certificate whose number does not stand on its own issuer's list        *)
(* (ocsp_handler.go:68-96, 124).                                           *)
THEOREM RevokedAlwaysListed == Spec => []RevokedIsListed
<1>1. IInv => RevokedIsListed
    BY DEF IInv, Sound, Allowed, RevokedIsListed, Responses
<1> QED
    BY Inductive, <1>1, PTL

(* After a quiet clear-cache a listed certificate is not answered "good"   *)
(* until a fetch for it fails (ocsp_cache.go:5-8, ocsp_handler.go:70-133).        *)
THEOREM ClearedAlwaysRevoked == Spec => []ClearedStaysRevoked
<1>1. IInv => ClearedStaysRevoked
    BY OcspAssumption DEF IInv, Shape, HandlerOK, Sound, Allowed, ClearedStaysRevoked
<1> QED
    BY Inductive, <1>1, PTL
-----------------------------------------------------------------------------
LEMMA GoodUntilWanes ==
    \A c, n : GoodUntil(c, n) <=>
                 GoodFor(n, cache[c]) /\ \A r \in Requests : Wanes(c, n, request[r])
BY DEF GoodUntil

LEMMA GoodUntilWanesNext ==
    \A c, n : GoodUntil(c, n)' <=>
                 GoodFor(n, cache'[c]) /\ \A r \in Requests : Wanes(c, n, request'[r])
BY DEF GoodUntil, Wanes, GoodFor

(* A tick brings the end nearer.                                           *)
LEMMA TickWanes ==
    ASSUME IInv, Tick, NEW c \in Certificates, NEW n \in 0..Lifetime, GoodUntil(c, n)
    PROVE  GoodUntil(c, n)' /\ (n > 0 => GoodUntil(c, n - 1)')
<1>1. ASSUME NEW x \in Response \cup {None}, GoodFor(n, x)
      PROVE  GoodFor(n, Aged(x)) /\ (n > 0 => GoodFor(n - 1, Aged(x)))
    <2>1. CASE x = None
        BY <2>1 DEF Aged, Fresh, GoodFor
    <2>2. CASE x # None /\ x.left = 0
        BY <1>1, <2>2, OcspAssumption DEF Aged, Fresh, GoodFor
    <2>3. CASE x # None /\ x.left # 0
        <3>1. x \in Response /\ x.left \in 1..Lifetime
            BY <2>3, OcspAssumption DEF Response
        <3>2. Aged(x) = [x EXCEPT !.left = @ - 1]
            BY <2>3, <3>1 DEF Aged, Fresh
        <3>3. Aged(x).left = x.left - 1 /\ Aged(x).status = x.status
            BY <3>1, <3>2 DEF Response
        <3> QED
            BY <1>1, <2>3, <3>1, <3>3, OcspAssumption DEF GoodFor
    <2> QED
        BY <2>1, <2>2, <2>3
<1>2. cache[c] \in Response \cup {None} /\ cache'[c] = Aged(cache[c])
    BY DEF Tick, IInv, Shape, TypeOK
<1>3. ASSUME NEW r \in Requests
      PROVE  Wanes(c, n, request'[r]) /\ (n > 0 => Wanes(c, n - 1, request'[r]))
    <2>1. request[r] \in Handler /\ HandlerOK(request[r]) /\ Wanes(c, n, request[r])
        BY GoodUntilWanes DEF IInv, Shape, TypeOK, Handler
    <2>2. /\ request'[r].pc = request[r].pc /\ request'[r].cert = request[r].cert
          /\ request'[r].response = Aged(request[r].response)
        BY <2>1 DEF Tick, Handler
    <2>3. request[r].response \in Response \cup {None}
        BY <2>1 DEF Handler
    <2>4. request[r].pc = "sign" =>
              Aged(request[r].response).status = request[r].response.status
        BY <2>1, <2>3, AgedOf, OcspAssumption DEF HandlerOK
    <2> QED
        BY <1>1, <2>1, <2>2, <2>3, <2>4 DEF Wanes
<1> QED
    BY <1>1, <1>2, <1>3, GoodUntilWanes, GoodUntilWanesNext

(* No other step puts it off.                                              *)
LEMMA StepWanes ==
    ASSUME IInv, Next, NEW c \in Certificates, Listed(c),
           NEW n \in 0..Lifetime, GoodUntil(c, n), ~ FailsFor(c), ~ Tick
    PROVE  GoodUntil(c, n)'
<1>0. /\ c \in Certificates /\ GoodFor(n, cache[c]) /\ GoodFor(n, None)
      /\ \A r \in Requests : Wanes(c, n, request[r])
    BY GoodUntilWanes DEF IInv, Shape, TypeOK, GoodFor
<1>1. ASSUME NEW r \in Requests, NEW h, request' = [request EXCEPT ![r] = h], Wanes(c, n, h),
             GoodFor(n, cache'[c])
      PROVE  GoodUntil(c, n)'
    <2>1. \A q \in Requests : request'[q] = IF q = r THEN h ELSE request[q]
        BY <1>1 DEF IInv, Shape, TypeOK
    <2> QED
        BY <1>0, <1>1, <2>1, GoodUntilWanesNext
<1>2. ASSUME NEW i, NEW e, Revoke(i, e) PROVE GoodUntil(c, n)'
    BY <1>0, <1>2, GoodUntilWanesNext DEF Revoke
<1>3. ASSUME NEW r \in Requests, NEW d \in Certificates, LookUp(r, d) PROVE GoodUntil(c, n)'
    <2>1. PICK x : IF Fresh(x) THEN Goto(r, "reply", d, Data(x)) ELSE Goto(r, "fetch", d, None)
        BY <1>3 DEF LookUp
    <2>2. PICK pc, y : pc \in {"reply", "fetch"} /\ Goto(r, pc, d, y)
        BY <2>1
    <2>3. Wanes(c, n, [pc |-> pc, cert |-> d, response |-> y])
        BY <2>2 DEF Wanes
    <2>4. cache' = cache
        BY <1>3 DEF LookUp
    <2> QED
        BY <1>0, <1>1, <2>2, <2>3, <2>4 DEF Goto
<1>4. ASSUME NEW r \in Requests, Fetch(r) PROVE GoodUntil(c, n)'
    <2> DEFINE h == [pc |-> "sign", cert |-> request[r].cert,
                     response |-> Found(IF Listed(request[r].cert) THEN "revoked" ELSE "good")]
    <2>1. request' = [request EXCEPT ![r] = h] /\ cache' = cache
        BY <1>4 DEF Fetch, Goto
    <2>2. Wanes(c, n, h)
        BY DEF Wanes, Found
    <2> HIDE DEF h
    <2> QED
        BY <1>0, <1>1, <2>1, <2>2
<1>5. ASSUME NEW r \in Requests, FetchFails(r) PROVE GoodUntil(c, n)'
    <2> DEFINE h == [pc |-> "sign", cert |-> request[r].cert, response |-> Found("good")]
    <2>1. request' = [request EXCEPT ![r] = h] /\ cache' = cache
        BY <1>5 DEF FetchFails, Goto
    <2>2. Wanes(c, n, h)
        BY <1>5 DEF Wanes, FailsFor
    <2> HIDE DEF h
    <2> QED
        BY <1>0, <1>1, <2>1, <2>2
<1>6. ASSUME NEW r \in Requests, Sign(r) PROVE GoodUntil(c, n)'
    <2> DEFINE h == [request[r] EXCEPT !.pc = "store",
                                       !.response = [@ EXCEPT !.left = Lifetime]]
    <2>1. /\ request[r] \in Handler /\ request[r].pc = "sign"
          /\ request[r].response \in Response
        BY <1>6 DEF Sign, IInv, Shape, TypeOK, Handler, HandlerOK
    <2>2. request' = [request EXCEPT ![r] = h] /\ cache' = cache
        BY <1>6 DEF Sign, IInv, Shape, TypeOK
    <2>3. /\ h.pc = "store" /\ h.cert = request[r].cert
          /\ h.response.status = request[r].response.status
        BY <2>1 DEF Handler, Response
    <2> HIDE DEF h
    <2>4. Wanes(c, n, h)
        BY <1>0, <2>1, <2>3 DEF Wanes, GoodFor
    <2> QED
        BY <1>0, <1>1, <2>2, <2>4
<1>7. ASSUME NEW r \in Requests, SignFails(r) \/ Reply(r) PROVE GoodUntil(c, n)'
    <2>1. request' = [request EXCEPT ![r] = Idle] /\ cache' = cache
        BY <1>7 DEF SignFails, Reply
    <2>2. Wanes(c, n, Idle)
        BY DEF Wanes, Idle
    <2> QED
        BY <1>0, <1>1, <2>1, <2>2
<1>8. ASSUME NEW r \in Requests, Store(r) \/ StoreLost(r) PROVE GoodUntil(c, n)'
    <2> DEFINE h == Replying(request[r])
    <2>1. request[r].pc = "store" /\ request' = [request EXCEPT ![r] = h]
        BY <1>8 DEF Store, StoreLost, Goto, Replying
    <2>2. Wanes(c, n, h)
        BY DEF Wanes, Replying
    <2>3. \/ cache'[c] = cache[c]
          \/ request[r].cert = c /\ cache'[c] = request[r].response
        BY <1>0, <1>8 DEF Store, StoreLost, IInv, Shape, TypeOK
    <2>4. GoodFor(n, cache'[c])
        BY <1>0, <2>1, <2>3 DEF Wanes
    <2> HIDE DEF h
    <2> QED
        BY <1>1, <2>1, <2>2, <2>4
<1>9. CASE ClearCache
    <2>1. PICK R : request' = [r \in Requests |->
                                  IF r \in R THEN Replying(request[r]) ELSE request[r]]
        BY <1>9 DEF ClearCache
    <2>2. \A r \in Requests : Wanes(c, n, request'[r])
        BY <1>0, <2>1 DEF Wanes, Replying
    <2> QED
        BY <1>0, <1>9, <2>2, GoodUntilWanesNext DEF ClearCache
<1>10. CASE Restart
    <2>1. \A r \in Requests : Wanes(c, n, request'[r])
        BY <1>10 DEF Restart, Wanes, Idle
    <2> QED
        BY <1>0, <1>10, <2>1, GoodUntilWanesNext DEF Restart
<1> QED
    BY <1>2, <1>3, <1>4, <1>5, <1>6, <1>7, <1>8, <1>9, <1>10 DEF Next

(* After a revocation the "good" answers made before it have an end that   *)
(* nothing but a failing fetch puts off, for any lifetime and any number   *)
(* of overlapping requests: the reason why GoodEnds holds                  *)
(* (ocsp_handler.go:71-78, 97-127).                                        *)
THEOREM GoodAlwaysWanes == Spec => GoodWanes
<1> DEFINE Wane == \A c \in Certificates : Listed(c) /\ ~ FailsFor(c) =>
          \A n \in 0..Lifetime : GoodUntil(c, n) =>
              /\ GoodUntil(c, n)'
              /\ n > 0 /\ Tick => GoodUntil(c, n - 1)'
<1>1. IInv /\ [Next]_vars => [Wane]_vars
    BY TickWanes, StepWanes
<1> QED
    BY <1>1, Inductive, PTL DEF Spec, GoodWanes
=============================================================================
