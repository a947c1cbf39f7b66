---------------------------- MODULE NonceManager ----------------------------
(***************************************************************************)
(* The replay nonces of the ACME server: acme/nonce.go, a map guarded by a *)
(* mutex, and the way every ACME handler uses it (acme_handler.go): a new  *)
(* nonce is generated for the reply before the request is even parsed, the *)
(* presented one is consumed later, and the reply leaves with its nonce    *)
(* whatever the outcome.  Each Generate starts a goroutine that removes    *)
(* the expired entries.  The map lives in memory only: a restart empties   *)
(* it.  Clients may present any nonce they were ever given, any number of  *)
(* times, and in several requests at once.                                 *)
(***************************************************************************)
EXTENDS Integers

CONSTANTS
    Nonces,       \* the values crypto/rand returns, each at most once
    NoNonce,      \* an empty or invented nonce
    Requests,     \* requests the server handles at the same time
    TTL,          \* lifetime of a nonce (one hour in the code)
    MaxClock,     \* bound: the clock stops here
    MaxRestarts   \* bound: restarts of the process

ASSUME NonceAssumption ==
    /\ NoNonce \notin Nonces
    /\ TTL \in Nat
    /\ MaxClock \in Nat
    /\ MaxRestarts \in Nat

VARIABLES
    clock,       \* the monotonic clock behind time.Now and time.Since
    nonces,      \* the keys of the map n.nonces
    createdAt,   \* nonceEntry.createdAt of a key; kept as history after its deletion
    mu,          \* the goroutines that hold the mutex n.mu across a step
    cleanups,    \* cleanup goroutines started and not yet run
    request,     \* what each handler goroutine is doing
    accepted,    \* history: how often Consume returned true for a nonce
    delivered,   \* history: the nonces that left the server in a reply
    lost,        \* history: the nonces a restart wiped from the map
    restarts

vars == << clock, nonces, createdAt, mu, cleanups, request,
           accepted, delivered, lost, restarts >>

Never == -1

Idle == [pc |-> "idle", presented |-> NoNonce, exists |-> FALSE, reply |-> NoNonce]

Issued == {n \in Nonces : createdAt[n] # Never}

(* Mutants of Expired: the boundary one tick early, and one tick late.     *)
ExpiredEarly(n) == clock - createdAt[n] >= TTL
ExpiredLate(n) == clock - createdAt[n] > TTL + 1

(* time.Since(entry.createdAt) > time.Hour                                 *)
Expired(n) == clock - createdAt[n] > TTL

TypeOK ==
    /\ clock \in 0..MaxClock
    /\ nonces \subseteq Nonces
    /\ createdAt \in [Nonces -> {Never} \cup (0..MaxClock)]
    /\ mu \subseteq Requests
    /\ cleanups \in Nat
    /\ request \in [Requests -> [pc : {"idle", "parse", "consume"},
                                 presented : Nonces \cup {NoNonce},
                                 exists : BOOLEAN,
                                 reply : Nonces \cup {NoNonce}]]
    /\ accepted \in [Nonces -> Nat]
    /\ delivered \subseteq Nonces
    /\ lost \subseteq Nonces
    /\ restarts \in 0..MaxRestarts

Init ==
    /\ clock = 0
    /\ nonces = {}
    /\ createdAt = [n \in Nonces |-> Never]
    /\ mu = {}
    /\ cleanups = 0
    /\ request = [r \in Requests |-> Idle]
    /\ accepted = [n \in Nonces |-> 0]
    /\ delivered = {}
    /\ lost = {}
    /\ restarts = 0
-----------------------------------------------------------------------------
(* Mutant of Fresh: a value can come back once it has left the map.        *)
FreshInMap(n) == n \notin nonces

(* 16 random bytes never repeat, not even across restarts.                 *)
Fresh(n) == n \notin Issued

(* Mutant of Unlocked: nobody waits for the mutex.                         *)
NeverLocked == TRUE

(* n.mu.Lock() returns.                                                    *)
Unlocked == mu = {}

(* Generate: insert under the mutex, then start a cleanup goroutine.       *)
Generate(n) ==
    /\ Fresh(n)
    /\ Unlocked
    /\ nonces' = nonces \cup {n}
    /\ createdAt' = [createdAt EXCEPT ![n] = clock]
    /\ cleanups' = cleanups + 1

(* GET or HEAD new-nonce.                                                  *)
NewNonce(n) ==
    /\ Generate(n)
    /\ delivered' = delivered \cup {n}
    /\ UNCHANGED << clock, mu, request, accepted, lost, restarts >>

(* A handler starts with addNonce; the request carries the nonce p.        *)
Begin(r, n, p) ==
    /\ request[r].pc = "idle"
    /\ p \in delivered \cup {NoNonce}
    /\ Generate(n)
    /\ request' = [request EXCEPT ![r] =
                     [pc |-> "parse", presented |-> p, exists |-> FALSE, reply |-> n]]
    /\ UNCHANGED << clock, mu, accepted, delivered, lost, restarts >>

(* The same when crypto/rand fails: addNonce leaves the header out.        *)
BeginWithoutReplyNonce(r, p) ==
    /\ request[r].pc = "idle"
    /\ p \in delivered \cup {NoNonce}
    /\ request' = [request EXCEPT ![r] =
                     [pc |-> "parse", presented |-> p, exists |-> FALSE, reply |-> NoNonce]]
    /\ UNCHANGED << clock, nonces, createdAt, mu, cleanups, accepted, delivered,
                    lost, restarts >>

(* Mutant of Reply: the header is set even when addNonce failed.           *)
ReplyAnyway(r) ==
    /\ request' = [request EXCEPT ![r] = Idle]
    /\ delivered' = delivered \cup {request[r].reply}

(* The reply of r leaves and its handler returns.                          *)
Reply(r) ==
    /\ request' = [request EXCEPT ![r] = Idle]
    /\ delivered' = delivered \cup ({request[r].reply} \ {NoNonce})

(* A handler that never reads the nonce (the GET handlers), or returns     *)
(* before it does: wrong method, unknown object, malformed JWS.            *)
ReplyEarly(r) ==
    /\ request[r].pc = "parse"
    /\ Reply(r)
    /\ UNCHANGED << clock, nonces, createdAt, mu, cleanups, accepted, lost, restarts >>

(* Consume up to the lookup: take the mutex, read the entry.               *)
Lookup(r) ==
    /\ request[r].pc = "parse"
    /\ Unlocked
    /\ mu' = mu \cup {r}
    /\ request' = [request EXCEPT ![r].pc = "consume",
                                  ![r].exists = request[r].presented \in nonces]
    /\ UNCHANGED << clock, nonces, createdAt, cleanups, accepted, delivered,
                    lost, restarts >>

(* The rest of Consume: an entry that was found is deleted, and accepted   *)
(* unless it has expired; the deferred Unlock; badNonce or not, the reply  *)
(* follows.                                                                *)
Consume(r) ==
    LET n == request[r].presented
    IN /\ request[r].pc = "consume"
       /\ mu' = mu \ {r}
       /\ \/ ~ request[r].exists /\ UNCHANGED << nonces, accepted >>
          \/ /\ request[r].exists /\ Expired(n)
             /\ nonces' = nonces \ {n}
             /\ UNCHANGED accepted
          \/ /\ request[r].exists /\ ~ Expired(n)
             /\ nonces' = nonces \ {n}
             /\ accepted' = [accepted EXCEPT ![n] = @ + 1]
       /\ Reply(r)
       /\ UNCHANGED << clock, createdAt, cleanups, lost, restarts >>

(* One cleanup goroutine: it holds the mutex from end to end.              *)
Cleanup ==
    /\ cleanups > 0
    /\ Unlocked
    /\ nonces' = {n \in nonces : ~ Expired(n)}
    /\ cleanups' = cleanups - 1
    /\ UNCHANGED << clock, createdAt, mu, request, accepted, delivered, lost, restarts >>

Tick ==
    /\ clock < MaxClock
    /\ clock' = clock + 1
    /\ UNCHANGED << nonces, createdAt, mu, cleanups, request, accepted, delivered,
                    lost, restarts >>

(* The process dies and starts again: memory and goroutines are gone.      *)
Restart ==
    /\ restarts < MaxRestarts
    /\ restarts' = restarts + 1
    /\ nonces' = {}
    /\ lost' = lost \cup nonces
    /\ mu' = {}
    /\ cleanups' = 0
    /\ request' = [r \in Requests |-> Idle]
    /\ UNCHANGED << clock, createdAt, accepted, delivered >>

Next ==
    \/ \E n \in Nonces : NewNonce(n)
    \/ \E r \in Requests, n \in Nonces, p \in Nonces \cup {NoNonce} : Begin(r, n, p)
    \/ \E r \in Requests, p \in Nonces \cup {NoNonce} : BeginWithoutReplyNonce(r, p)
    \/ \E r \in Requests : ReplyEarly(r) \/ Lookup(r) \/ Consume(r)
    \/ Cleanup
    \/ Tick
    \/ Restart

Spec == Init /\ [][Next]_vars

(* A goroutine that holds the mutex runs on.  A goroutine that waits for   *)
(* it gets it in the end although others keep taking it: a sync.Mutex      *)
(* hands itself over to a waiter that has waited for a millisecond.        *)
Fairness ==
    /\ \A r \in Requests : WF_vars(Consume(r))
    /\ SF_vars(Cleanup)

FairSpec == Spec /\ Fairness
-----------------------------------------------------------------------------
(* No nonce is accepted twice, however many requests present it at once    *)
(* and whatever restarts in between (Consume, nonce.go:47-65).             *)
AcceptedOnce == \A n \in Nonces : accepted[n] <= 1

(* A nonce the server has generated is good for an hour: unless it has     *)
(* been accepted or a restart wiped it, it is in the map.  In particular   *)
(* the reply to a rejected request carries a nonce the retry can use, and  *)
(* no cleanup takes a nonce away early (nonce.go:36-41, 72-76).            *)
GoodForItsLifetime ==
    \A n \in Issued :
        clock - createdAt[n] <= TTL /\ accepted[n] = 0 /\ n \notin lost => n \in nonces

(* The map does not keep what has expired beyond the next Generate: once   *)
(* no cleanup is pending, no entry is older than the youngest issued nonce *)
(* by more than the lifetime (go n.cleanup(), nonce.go:41).                *)
SweptByGenerate ==
    cleanups = 0 =>
        \A n \in nonces, m \in Issued : createdAt[m] - createdAt[n] <= TTL

(* An expired entry that a pending cleanup can see is reclaimed in the     *)
(* end, whatever requests keep taking the mutex (nonce.go:68-77).          *)
ExpiredReclaimed ==
    \A n \in Nonces :
        (n \in nonces /\ clock - createdAt[n] > TTL /\ cleanups > 0) ~> (n \notin nonces)

(* What the manager promises, as SingleUseToken states it: a nonce is live *)
(* while it is in the map, spent once accepted, void if it left the map    *)
(* any other way.                                                          *)
TokenOf(n) ==
    IF n \notin Issued THEN "unissued"
    ELSE IF accepted[n] > 0 THEN "spent"
    ELSE IF n \in nonces THEN "live" ELSE "void"

Token == INSTANCE SingleUseToken
           WITH Token <- Nonces, state <- [n \in Nonces |-> TokenOf(n)]

ImplementsSingleUseToken == Token!Spec
=============================================================================
