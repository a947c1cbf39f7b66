--------------------------- MODULE OcspResponder ----------------------------
(***************************************************************************)
(* The OCSP responder (ocsp_handler.go, ocsp_cache.go, ca/ocsp.go): its    *)
(* handlers share one response cache without a lock and ask the backend    *)
(* for the list of revoked certificates when the cache has no fresh        *)
(* response; an answer that cannot be had counts as "not revoked".  The    *)
(* backend's lists grow through the ACME revoke-cert handler and through   *)
(* the backend's own administration.                                       *)
(*                                                                         *)
(* Time is the time that responses have left, counted down by Tick.        *)
(***************************************************************************)
EXTENDS Integers, RevokedList

CONSTANTS
    Certificates,   \* those that are asked for, by issuer and serial number
    Requests,       \* OCSP requests handled at the same time
    Lifetime,       \* the hour between thisUpdate and nextUpdate
    None,           \* no response
    MaxFaults       \* bound: lost entries of the cache, ends of the process

Response == [status : {"good", "revoked"}, left : 0..Lifetime]

ASSUME OcspAssumption ==
    /\ Certificates \subseteq Intermediates \X Serials
    /\ Lifetime \in Nat \ {0}
    /\ MaxFaults \in Nat
    /\ None \notin Response
    /\ None \notin Certificates

VARIABLES
    revoked,    \* the entries of the backend's lists, by issuer
    cache,      \* ocspCache, by issuer and serial number
    request,    \* the handlers
    cleared,    \* history: certificates whose revocation a clear-cache made effective
    faults      \* faults so far

vars == << revoked, cache, request, cleared, faults >>

Idle == [pc |-> "idle", cert |-> None, response |-> None]

TypeOK ==
    /\ revoked \in [Intermediates -> SUBSET Entries]
    /\ cache \in [Certificates -> Response \cup {None}]
    /\ request \in [Requests -> [pc : {"idle", "fetch", "sign", "store", "reply"},
                                 cert : Certificates \cup {None},
                                 response : Response \cup {None}]]
    /\ cleared \subseteq Certificates
    /\ faults \in 0..MaxFaults

Init ==
    /\ revoked = [i \in Intermediates |-> {}]
    /\ cleared = {}
    /\ cache = [c \in Certificates |-> None]
    /\ request = [r \in Requests |-> Idle]
    /\ faults = 0

Fault == faults < MaxFaults /\ faults' = faults + 1
-----------------------------------------------------------------------------
(* Revocation.  The ACME handler has the backend enter the certificate, by *)
(* one POST whose answer may get lost; or its administration does so.      *)
Revoke(i, e) ==
    /\ e \notin revoked[i]
    /\ revoked' = [revoked EXCEPT ![i] = @ \cup {e}]
    /\ UNCHANGED << cache, request, cleared, faults >>

(* For a reader of the list, c is revoked.                                 *)
Listed(c) == c[2] \in Numbers(revoked[c[1]])
-----------------------------------------------------------------------------
(* The handler.  A request it cannot parse, or whose issuer is not among   *)
(* the intermediates, gets no further than that.                           *)

Goto(r, pc, c, x) == request' = [request EXCEPT ![r] = [pc |-> pc, cert |-> c, response |-> x]]

(* The data of a response; its expiry no longer matters.                   *)
Data(x) == [x EXCEPT !.left = 0]

Storing(c) == {r \in Requests : request[r].pc = "store" /\ request[r].cert = c}

(* The map is read while it may be written: an entry can be missed, and    *)
(* the two fields of the entry under the writer's hands can be of          *)
(* different age.                                                          *)
Seen(c) ==
    LET versions == ({cache[c]} \cup {request[q].response : q \in Storing(c)}) \ {None}
    IN  IF \A q \in Requests : request[q].pc # "store" THEN {cache[c]}
        ELSE {cache[c], None} \cup {[x EXCEPT !.left = y.left] : x, y \in versions}

Fresh(x) == x # None /\ x.left > 0

(* Mutant of LookUp: every hit gives the response another hour.            *)
LookUpRefreshing(r, c) ==
    /\ request[r].pc = "idle"
    /\ \E x \in Seen(c) :
          /\ IF Fresh(x) THEN Goto(r, "reply", c, Data(x)) ELSE Goto(r, "fetch", c, None)
          /\ cache' = [cache EXCEPT ![c] = IF Fresh(x) THEN [x EXCEPT !.left = Lifetime] ELSE @]
    /\ UNCHANGED << revoked, cleared, faults >>

LookUp(r, c) ==
    /\ request[r].pc = "idle"
    /\ \E x \in Seen(c) :
          IF Fresh(x) THEN Goto(r, "reply", c, Data(x)) ELSE Goto(r, "fetch", c, None)
    /\ UNCHANGED << revoked, cache, cleared, faults >>

Found(status) == [status |-> status, left |-> 0]

(* The backend answers with the list as it is; its answer may then take    *)
(* its time to arrive.                                                     *)
Fetch(r) ==
    LET c == request[r].cert
    IN  /\ request[r].pc = "fetch"
        /\ Goto(r, "sign", c, Found(IF Listed(c) THEN "revoked" ELSE "good"))
        /\ UNCHANGED << revoked, cache, cleared, faults >>

(* No answer, or none that can be decoded, for as long as the backend or   *)
(* the way to it is in trouble.                                            *)
FetchFails(r) ==
    /\ request[r].pc = "fetch"
    /\ Goto(r, "sign", request[r].cert, Found("good"))
    /\ cleared' = cleared \ {request[r].cert}
    /\ UNCHANGED << revoked, cache, faults >>

(* thisUpdate is the time of the signature, nextUpdate an hour later.      *)
Sign(r) ==
    /\ request[r].pc = "sign"
    /\ request' = [request EXCEPT ![r].pc = "store", ![r].response.left = Lifetime]
    /\ UNCHANGED << revoked, cache, cleared, faults >>

SignFails(r) ==
    /\ request[r].pc = "sign"
    /\ request' = [request EXCEPT ![r] = Idle]
    /\ UNCHANGED << revoked, cache, cleared, faults >>

(* Mutant of Store: the key of the cache is the serial number alone.       *)
StoreBySerial(r) ==
    LET h == request[r]
    IN  /\ h.pc = "store"
        /\ cache' = [c \in Certificates |-> IF c[2] = h.cert[2] THEN h.response ELSE cache[c]]
        /\ Goto(r, "reply", h.cert, Data(h.response))
        /\ UNCHANGED << revoked, cleared, faults >>

(* Mutant of Store: the hour of the entry begins when it is stored.        *)
StoreForAnHour(r) ==
    LET h == request[r]
    IN  /\ h.pc = "store"
        /\ cache' = [cache EXCEPT ![h.cert] = [h.response EXCEPT !.left = Lifetime]]
        /\ Goto(r, "reply", h.cert, Data(h.response))
        /\ UNCHANGED << revoked, cleared, faults >>

Store(r) ==
    LET h == request[r]
    IN  /\ h.pc = "store"
        /\ cache' = [cache EXCEPT ![h.cert] = h.response]
        /\ Goto(r, "reply", h.cert, Data(h.response))
        /\ UNCHANGED << revoked, cleared, faults >>

(* Two writers of the map: the entry of one gets lost.                     *)
StoreLost(r) ==
    /\ Fault
    /\ request[r].pc = "store"
    /\ \E q \in Requests \ {r} : request[q].pc = "store"
    /\ Goto(r, "reply", request[r].cert, Data(request[r].response))
    /\ UNCHANGED << revoked, cache, cleared >>

Reply(r) ==
    /\ request[r].pc = "reply"
    /\ request' = [request EXCEPT ![r] = Idle]
    /\ UNCHANGED << revoked, cache, cleared, faults >>
-----------------------------------------------------------------------------
(* Nobody is about to answer for c from what was known earlier.            *)
Quiet(c) == \A r \in Requests : request[r].cert = c => request[r].pc = "fetch"

(* Mutant of ClearCache: only what has expired is removed.                 *)
ClearExpired ==
    /\ cache' = [c \in Certificates |-> IF Fresh(cache[c]) THEN cache[c] ELSE None]
    /\ cleared' = cleared \cup {c \in Certificates : Listed(c) /\ Quiet(c)}
    /\ UNCHANGED << revoked, request, faults >>

(* The handler a completed store leaves behind.                            *)
Replying(h) == [pc |-> "reply", cert |-> h.cert, response |-> Data(h.response)]

(* clear-cache assigns a new map.  A handler that has begun to store may   *)
(* do so into the old one.                                                 *)
ClearCache ==
    /\ cache' = [c \in Certificates |-> None]
    /\ \E R \in SUBSET {r \in Requests : request[r].pc = "store"} :
          request' = [r \in Requests |->
                        IF r \in R THEN Replying(request[r]) ELSE request[r]]
    /\ cleared' = cleared \cup {c \in Certificates : Listed(c) /\ Quiet(c)}
    /\ UNCHANGED << revoked, faults >>

(* The process dies, for whatever reason or because the runtime notices    *)
(* overlapping accesses to the map, and starts again with an empty cache.  *)
Restart ==
    /\ Fault
    /\ cache' = [c \in Certificates |-> None]
    /\ request' = [r \in Requests |-> Idle]
    /\ cleared' = {c \in Certificates : Listed(c)}
    /\ UNCHANGED revoked

(* Mutant of Aged: a response is served until it is found to be expired.   *)
AgedTooFar(x) == IF x = None THEN None ELSE [x EXCEPT !.left = @ - 1]

Aged(x) == IF Fresh(x) THEN [x EXCEPT !.left = @ - 1] ELSE x

Tick ==
    /\ cache' = [c \in Certificates |-> Aged(cache[c])]
    /\ request' = [r \in Requests |-> [request[r] EXCEPT !.response = Aged(@)]]
    /\ UNCHANGED << revoked, cleared, faults >>

Next ==
    \/ \E i \in Intermediates, e \in Entries : Revoke(i, e)
    \/ \E r \in Requests :
          \/ \E c \in Certificates : LookUp(r, c)
          \/ Fetch(r) \/ FetchFails(r) \/ Sign(r) \/ SignFails(r)
          \/ Store(r) \/ StoreLost(r) \/ Reply(r)
    \/ ClearCache
    \/ Restart
    \/ Tick

Spec == Init /\ [][Next]_vars

(* Time passes, and a handler that has its status runs on.  Of the backend *)
(* nothing is assumed here: a handler may wait for its answer for ever, as *)
(* the client has no timeout, and every fetch may fail.                    *)
FairSpec ==
    /\ Spec
    /\ WF_vars(Tick)
    /\ \A r \in Requests : WF_vars(Sign(r) \/ Store(r) \/ Reply(r))
-----------------------------------------------------------------------------
(* Properties.                                                             *)

Responses(c) ==
    {cache[c]} \cup {request[r].response : r \in {q \in Requests : request[q].cert = c}}

(* "Revoked" is said of a certificate only if its number is read from the  *)
(* list of its own issuer, however the accesses to the cache overlap and   *)
(* although another issuer may use the same number.  That the certificate  *)
(* is revoked follows from it where the entries of the list are legible:   *)
(* of an illegible one, "revoked" is said of whatever certificate has the  *)
(* number that is left (ocsp_handler.go:23-25, 68-96, 124, crl.go:44-55).  *)
RevokedIsListed ==
    \A c \in Certificates : \A x \in Responses(c) :
        x # None /\ x.status = "revoked" => Listed(c)

(* What clear-cache is for: once a certificate is listed and the cache has *)
(* been cleared, or lost in a restart, while no older answer for it was on *)
(* its way, no client is told "good" any more, until a fetch for it fails  *)
(* (ocsp_cache.go:5-8, ocsp_handler.go:70-133).                            *)
ClearedStaysRevoked ==
    \A r \in Requests :
        request[r].pc = "reply" /\ request[r].cert \in cleared
        => request[r].response.status = "revoked"

GoodFor(n, x) == x # None /\ x.status = "good" => x.left <= n

(* What a handler may still make of c.                                     *)
Wanes(c, n, h) ==
    h.cert = c =>
        /\ h.pc = "store" => GoodFor(n, h.response)
        /\ h.pc = "sign" => h.response.status = "revoked"

(* No "good" of c, cached or about to be, outlives n more ticks.           *)
GoodUntil(c, n) ==
    /\ GoodFor(n, cache[c])
    /\ \A r \in Requests : Wanes(c, n, request[r])

(* A failing fetch for c, which makes a new "good".                        *)
FailsFor(c) == \E r \in Requests : request[r].cert = c /\ FetchFails(r)

(* Once a certificate is listed, the "good" answers made before it have an *)
(* end that no step puts off, neither a hit in the cache nor a late store  *)
(* nor a clear-cache, and that every tick brings nearer; only a failing    *)
(* fetch for that certificate begins anew (ocsp_handler.go:71-78, 97-127). *)
GoodWanes ==
    [][\A c \in Certificates : Listed(c) /\ ~ FailsFor(c) =>
          \A n \in 0..Lifetime : GoodUntil(c, n) =>
              /\ GoodUntil(c, n)'
              /\ n > 0 /\ Tick => GoodUntil(c, n - 1)']_vars

AnswersGood(c) ==
    \E r \in Requests : /\ request[r].pc = "reply"
                        /\ request[r].cert = c
                        /\ request[r].response.status = "good"

(* A revocation ends the "good" answers without anybody's help, provided   *)
(* that the fetches for the certificate do not go on failing for ever:     *)
(* stale responses, cached late or in a failing fetch, expire, and reading *)
(* them does not renew them.  Without the premise it does not hold: each   *)
(* failing fetch gives another hour of "good"                              *)
(* (ocsp_handler.go:71-78, 80-127).                                        *)
GoodEnds ==
    \A c \in Certificates :
        <>[][~ FailsFor(c)]_vars => <>[](Listed(c) => ~ AnswersGood(c))
=============================================================================
