# Verification of the AD-PKI CA service

TLA+ models, TLC runs and TLAPS proofs for the CA service in this repository: a
Go process that issues certificates over ACME and to an administration backend,
publishes revocation (CRL, OCSP) and signs time stamps. Everything it keeps is
either a file under `PKI_BASE_DIR` or a map in memory; there is no database, and
no lock except the one around the nonces. The repository has no tests. What the
modules are about is therefore what happens when HTTP handlers, validation
goroutines and workers, each of them correct when run alone, overlap, fail
halfway, or die.

`src/` below is the repository; lines are those of `PROJECT.json`, whose `map`
gives the source lines of every definition.

## 1. The system

| component | state | operations | talks to |
|---|---|---|---|
| ACME nonces (`acme/nonce.go`) | map nonce -> creation time, mutex, cleanup goroutines | `Generate`, `Consume`, `cleanup` | every ACME handler |
| ACME accounts (`acme/account.go`, `storage.go`) | `acme/accounts/{id}.json`, `accounts/by-key/{thumbprint}` | new-account, deactivate, list | orders, finalize and revoke load the account |
| ACME orders (`acme/order.go`, `acme_handler.go`) | `orders/{id}.json`, `authz/{id}.json`, `challenges/{id}` | new-order, authz, challenge, order; `UpdateOrderStatus` in a goroutine | validation goroutines, finalize, cleanup |
| ACME issuance (`acme/sign.go`) | `certs/{id}.pem`, `issued/{cn}-{serial}/` | finalize: sign, store, notify, build chain, save | settings and notification endpoints of the backend |
| ACME revocation (`acme/revoke.go`) | none | revoke-cert forwards to the backend | the backend keeps the list |
| OCSP responder (`ocsp_handler.go`, `ocsp_cache.go`) | response cache in memory, no lock | `OCSPHandler`, clear-cache | revoked list of the backend |
| CRL worker (`worker/crl-worker.go`) | `crl_{id}.pem` | regenerate every 5 minutes, 1 minute after a failure to load | revoked list of the backend, `CRLHandler` |
| cleanup worker (`worker/acme_cleanup_worker.go`) | none | removes order, authorization and mapping files older than 30 days | the files of the orders |
| intermediates, root, TSA (`storage/*.go`, `import_handler.go`, `tsa*.go`) | certificate and key files in pairs | import, generate, load | every signer |
| administrative signing (`sign_handler.go`) | `issued/{cn}-{serial}/` | sign, sign-from-data | the backend is the caller |
| system (`system_*.go`), authentication | none | info, NTP, token check | `sudo` helper |

Hard behaviours, by cause:

* **No lock around files.** `os.WriteFile` truncates, then writes. A reader in
  between fails to parse; two writers can leave a mixture; a crash leaves an
  empty file. `UpdateOrderStatus` and finalize are read-modify-write cycles on
  one order file, the validation goroutine is one on an authorization file with a
  whole network round trip between read and write.
* **Errors that nobody looks at.** `SaveAuthz`, `SaveOrder` in the goroutine and
  in finalize, the notice to the backend, the reading of a key mapping and of the account
  it names, a serial number that is none, the fetch behind an OCSP response.
* **Work that is not resumed.** Goroutines and nonces do not survive a restart.
* **Clients without a timeout.** Settings, revoked lists and notices use
  `http.DefaultClient`; whatever waits for the backend may wait for ever.
* **Concurrency on a Go map** in the OCSP cache.

What makes each component correct: a nonce is accepted once and good for an hour (RFC
8555, 6.5); an order is ready only if each of its identifiers has been validated, and a
certificate URL leads to a certificate and stays with the order; the backend learns of
every certificate; one account per key; a revoked certificate stops being answered Good
within the lifetime of a cached answer, once the backend can be asked; a signer never uses
a key that is not its certificate's; cleanup never takes away a part of an order that is
still in use. `PROJECT.json` lists every hazard at its line with the properties that would
catch it.

## 2. Modules

| module | what it is |
|---|---|
| `SingleUseToken` | abstract specification: a token is issued once, redeemed at most once, and can lose its value but not regain it |
| `NonceManager` | `acme/nonce.go` and its use by the handlers; implements `SingleUseToken` |
| `OrderPromise` | abstract specification: what the CA promises about one order, without files or handlers |
| `AcmeOrder` | one order with its authorizations, validations, finalize requests and certificates; implements `OrderPromise` |
| `AcmeAccounts` | the accounts of one key: new-account, its mapping file, deactivation |
| `RevokedList` | the backend's list of revoked certificates and what `FetchRevokedCertificates` reads from it; used by the next two |
| `OcspResponder` | the OCSP handlers and their shared cache, the backend's revoked list, revoke-cert |
| `CrlWorker` | the CRL worker and the files it rewrites while they are served |
| `KeyPairFiles` | the certificate and key files of root, intermediate and time stamping, with everybody who replaces them and everybody who signs with them |
| `AcmeCleanup` | composition: `AcmeOrder` with the worker that removes its files by age |
| `NonceManagerProofs`, `AcmeOrderProofs`, `AcmeAccountsProofs`, `OcspResponderProofs`, `CrlWorkerProofs`, `KeyPairFilesProofs`, `AcmeCleanupProofs` | theorems about the module of that name |
| `AcmeOutcomeProofs` | more theorems about `AcmeOrder`: what becomes of the results of validations |
| `MCNonceManager`, `MCAcmeOrder`, `MCAcmeAccounts`, `MCOcspResponder`, `MCCrlWorker`, `MCKeyPairFiles`, `MCAcmeCleanup` | the same for TLC: symmetry and the choice of bounds |

Operators with the comment "Mutant of X" are wrong versions of the definition
that follows them. No specification uses them; each run is repeated with one of
them in the place of X to see that its property notices.

How the parts interact in the models: nonces, orders, accounts, revocation and key
files share no state in memory, and no file belongs to two of them, so each is a
module of its own with the others as environment. The two places where one
component works on another's state are composed: the cleanup worker with the orders
(`AcmeCleanup` EXTENDS `AcmeOrder`), and revoke-cert and clear-cache with the OCSP
handlers (one module).

### NonceManager

`nonces` is the key set of the Go map, `createdAt` the entries (kept after their
deletion as history), `mu` the mutex, `cleanups` the goroutines that `Generate`
has started. A request is at `parse` after `addNonce` (the reply's nonce has been
generated before anything is read), at `consume` between the lookup and the rest
of `Consume`, which hold the mutex across two steps so that the mutual exclusion
is the model's to show and not an assumption. `Generate` and `cleanup` are single
steps taken while the mutex is free. A client presents any nonce that was ever
delivered, as often as it likes. `Restart` empties the memory. The clock is the
monotonic clock behind `time.Since`.

### AcmeOrder

One order is enough: no path touches the files of two. The variables are the
files (a document, or `Absent`, `Empty` after a truncation, `Garbled`), the
certificates under `certs/` and `issued/`, what the backend has been told, and
one program counter with its local variables for new-order, every validation
goroutine and every finalize request. Actions are the accesses to files, in the
order of the code:

| code | actions |
|---|---|
| new-order | `SaveNewAuthz` for each identifier, `SaveNewOrder`; `NewOrderFails` anywhere |
| challenge handler | `PostChallenge` (finds the mapping, reads the authorization, marks it in memory, starts the goroutine) |
| goroutine | `Validate`, `TruncateAuthz`, `WriteAuthz`, then `UpdateOrderStatus`: `LoadOrder`, `ScanAuthz` once per authorization, `TruncateOrder`, `WriteOrder` |
| finalize | `StartFinalize`, `RejectFinalize`, `Sign`, `SaveCert`, `TruncateFinalized`, `WriteFinalized` |
| notifyLaravel | `Notified`, `NotifyLost` |
| faults | `SaveAuthzFails`, `SaveOrderFails`, `StoreFails`, `ChainFails`, `SaveFinalizedFails`, `NotifyLost`, `Crash` |

Abstractions. Identifiers, tokens, keys and certificates are values; whether a
validation succeeds and whether a CSR is acceptable is a free choice. A request
that is refused (bad nonce, bad signature, wrong account) changes nothing here;
its nonce is `NonceManager`'s subject. Before new-order has answered nobody knows
the random names of its files, so its writes are single steps. Of two overlapping
writers the later may leave its document or `Garbled`: lengths are not modelled,
so which of two documents sticks out behind the other is left open. Two order
documents that are equal in the model are equal byte for byte and overlap without
harm (`LandingOrder`). Two authorizations are not: each goroutine stamps the challenge
with a time of its own, times differ in length, and the file may be garbled although
the model has one document (`LandingAuthz`). Finalize writes back the order it loaded;
only status and certificate URL ever change and it overwrites both, so the loaded
copy is not kept. Polling an order changes nothing and is no action.

Finalize does not read the order's status (`acme_handler.go:624-716`), and neither does
`StartFinalize`: a client may have its certificate before any identifier has been
validated. No property says otherwise, since the code does not; `ReadyMeansProved` is
what the order is worth to a client that waits for it to be ready. `NamedForGood` is
about what finalize leaves in the file. The order loses its certificate URL again only
to a goroutine that loaded it before the finalize saved; once the file names a
certificate and no such copy is left (`Settled`), it names one for good whenever it can
be read, whatever is posted, validated, finalized again or written half.

`OrderPromise` is what remains of all that for those outside: the identifiers that have
passed, what a client can read of the order, how far each certificate has come (signed,
kept, named) and what becomes of its report (owed, told, lost). `Shown`, `ProvedSet`,
`Stages` and `Reports` read these off the files and sets of `AcmeOrder`: an order file
that is truncated, garbled or missing is hidden. A writer of the order file is a `Show`, a
response of finalize a `Name`, a crash a `Lose` of every notice on its way. The promise is
weak where the code is: the status may go from valid back to ready (a challenge posted
again after finalize does that), and the order may be hidden for ever. It is strict about
certificates: signed once, kept before named, told once or lost.

### AcmeAccounts

Accounts of different keys share no file, so one key is enough. The variables are
the account files (a status, `Absent` or `Empty`), the mapping file of the key,
and the handlers; `answered` and `retired` remember what clients and the
administrator were told. `disturbed` remembers that a request was looked up while
another was being handled, or that a deactivation began: what the properties about
the number of accounts except, so that one run can show them beside the overlaps.
`misreads` counts the read errors that new-account has taken for "no account".

| code | actions |
|---|---|
| new-account: `FindAccountByKey` | `LookUpKey` reads the mapping, then `ReturnExisting` or, when the file holds no document, `MissExisting` |
| new-account: creation | `OnlyReturnExisting` or `SaveAccount`, then `TruncateKey` and `WriteKey` (`SaveAccountKeyMapping`) |
| deactivate | `LoadForDeactivation`, `TruncateAccount`, `WriteDeactivated` |
| read errors | `LookUpKeyFails`, `LoadExistingFails`: both go on as if there were no account |
| other faults | `SaveAccountFails`, `SaveKeyFails`, `DeactivationFails`, `Crash` |

A request that is refused before the lookup changes no account. A new file is
written in one step because nobody knows its random name; ids are drawn without
repetition. Account ids all have 16 characters, so two writers of the mapping
leave one of the two ids; deactivations of one account write the same document.

### OcspResponder

`revoked` holds the entries of the backend's lists, `cache` the Go map by issuer and
serial number, `request` the handlers between their steps. Time is what a response has left:
`Sign` sets it to `Lifetime`, `Tick` counts it down.

| code | actions |
|---|---|
| `RevokeCertHandler`, administration of the backend | `Revoke`: an entry is made, whether or not the handler hears of it |
| `OCSPHandler`: cache | `LookUp`: a hit replies, a miss or a stale entry fetches |
| revoked list | `Fetch`; `FetchFails`, as often as it likes: no answer counts as good |
| response | `Sign`, `SignFails`, `Store`, `Reply` |
| clear-cache | `ClearCache` |
| faults | `StoreLost`, `Restart` |

An entry names its certificate by a text that `FetchRevokedCertificates` parses as a
hexadecimal number, without a look at whether it is one (`crl.go:46-54`). The entry is
kept in any case, under the number that is left: of `1a:2b` the prefix `1a`. `RevokedList`
has both, the certificate an entry is about (`Meant`) and the number that is read
(`Value`), and leaves open how they are related. `Legible` entries are those where the
two agree. The responder therefore says "revoked" of a certificate nobody revoked whose
number is left of another's entry, and "good" of that other one. `RevokedIsListed` says
what remains: "revoked" is said only of a number on the list of the certificate's own
issuer.

The map has no lock. `Seen` is what a reader may find while a handler is at `store`:
the old entry, none, or one whose two fields are of different age. Of two writers one
may lose its entry (`StoreLost`); a writer may still be busy with the map that
clear-cache has just replaced; and the runtime may end the process when it notices
(`Restart`). `cleared` remembers the certificates of which "good" may no longer be
said: listed when the cache was cleared, while no handler had an older answer for
them in hand. Without that condition the property is false, and the code promises no
more: an answer fetched before the revocation may be stored after clear-cache.

Not modelled: encodings, signature algorithms, GET against POST. Which intermediate
is the issuer is part of the certificate; a request for an unknown issuer, or one
that cannot be parsed, goes no further.

### CrlWorker

| code | actions |
|---|---|
| `StartCRLWorker`: directory of intermediates | `Load`, `LoadFails` (another attempt a minute later) |
| one intermediate | `Ask`, then `Answer`, `Refusal` or `Hang`; `Generate`, `GenerateFails` |
| `os.WriteFile` | `Open` (truncates), `Write`, `WriteFails` |
| end of the pass | `Sleep` |
| backend | `Revoke`, `Refuse` (begins or ceases to answer with an error); entries as in `RevokedList` |
| process | `Restart` |

`crl` is what `CRLHandler` serves at any moment, without a lock against the worker.
`published` remembers what complete files have listed.

Two assumptions about the backend. Revocations are final: nothing in this code
takes one back. And what the backend answers to a request it refuses does not decode
as a list: the worker never looks at the HTTP status, so an error document that
happened to be a JSON array would be signed as a list, and `NeverForgets` would fail.

Entries whose serial number cannot be parsed are not left out: they go on the CRL
under the number that is left of them, so a CRL may list a certificate nobody revoked and lack
one that was. `ListsItsOwn` says that every number on a CRL is read from an entry of that
intermediate's own list, `RevocationIsListed` that every legible entry is listed in the end,
whatever stands beside it.

### KeyPairFiles

A file holds the certificate or the key of a `Version`, is `Absent`, or `Truncated`.
There are three stores: root (certificate only), intermediate and time stamping.
`quiet` and `broken` remember which stores were being replaced while a handler used
them, and which were left behind by a failed or an overlapped writer.

| code | actions |
|---|---|
| import of an intermediate or root | `Import`, `OpenCrt`, `WriteCrt`, `OpenKey`, `WriteKey` |
| sign, sign-from-data, ACME finalize | `Begin`, `ReadCrt`, `ReadKey` (loads, signs, stores), `ReadChain`, `ReadRoot`, `Reply` |
| CRL and OCSP responses | `Begin`, `ReadCrt`, `ReadKey`, `Reply` |
| `GenerateTSA` | `Begin`, `ReadCrt`, `GenerateTsa`, then as an import |
| time stamps | `Begin`, `ReadCrt`, `ReadKey`, `Reply` with the files of the TSA |
| faults | `WriteFails`, `SignerFails`, `Restart` |

Abstractions. One intermediate: directories of different ones share no file. Every
certificate goes to a directory of its own, named by its serial number, so storing it is
no step. `Issuer` is the root that has signed the certificate of a version. An import of
an intermediate checks it against the root uploaded with it, not against the stored one
(`import_handler.go:57`), and an import of a root stores any bytes
(`root_handler.go:18-20`, `Junk` for those that are no root): so `Import` allows an
intermediate to stand beside a root that has not signed it, and chains are then built from
the two all the same. `AnswersVerify` has the premise `RootFits`, that the stored root has
signed the stored intermediate; only then does a chain end in the root that has. `Asked`
are the days of a request; `Corrected` is what each handler makes of them, `Certified`
what `ca.SignCSR` makes of that. The form of `sign` is passed on uncorrected and the
answer's `valid_to` is computed from it (`sign_handler.go:73`, `135`): for zero days or
fewer the certificate runs a year and the answer says otherwise. `ToldIsCertified` states
that this is the only case.

### AcmeCleanup

All of `AcmeOrder`, with a modification time for each file, and the worker.

| code | actions |
|---|---|
| every step of `AcmeOrder` | `Create`, `CreateFails`, `Rewrite`, `Otherwise`, `CrashAll`: the same steps with the times they leave |
| a write to a file removed since it was opened | `WriteUnlinked` |
| 02:00 | `Night` |
| one directory after the other | `ReadDir`, `Look` (`entry.Info` and the cutoff), `Remove`, `EndPass` |
| errors | `CleanupFails` |

Time goes by in nights, which is all the worker knows; `Limit` stands for the thirty
days, and a pass that lasts longer than a day skips the next night. The 24 hours an
order is said to be valid for are written into it and checked nowhere, so they limit
nothing here either. `apart` are the parts last written a night or more before the
order was: an order rewritten late outlives the authorizations it refers to, which is
what `PartsOutliveOrder` excepts, and is all it excepts. `exempt` are the
files removed in the instant between `Look` and `Remove` in which they were rewritten
(`docs/CA.md:361-366` says "older than 30 days", the code removes whatever the name
leads to by then), or spared because of an error. A new-order that has failed and then
loses its process is not told apart from one that only failed.

## 3. What the runs show

| run | bounds | properties |
|---|---|---|
| `nonce_manager` | 3 nonces, 2 requests, lifetime 1, clock 2, 1 restart | type invariant, `AcceptedOnce`, `GoodForItsLifetime`, `SweptByGenerate`, the refinement `ImplementsSingleUseToken`, `ExpiredReclaimed`; under `FairSpec` |
| `order_concurrent` | 2 identifiers (dns-01 only), 2 goroutines, 1 finalize, 1 certificate, 1 fault | `ReadyMeansProved`, the action property `NamedForGood` |
| `order_finalize` | 2 identifiers (dns-01 only), 1 goroutine, 2 finalize requests, 2 certificates, 1 fault | `CertUrlResolves`, `StatusFollowsAuthz`, `OrderIsComplete`, the refinement `KeepsPromise` |
| `order_posted` | 1 identifier with both challenges, 2 goroutines, 1 fault | `AuthzExplained`, `DecisionReachesDisk`, `PostedIsDecided`, `TruncatedIsRewritten`; under `FairSpec` |
| `order_otherwise_pending` | 2 identifiers, 1 goroutine, no fault | violated: `OtherwisePending` |
| `order_lost_update` | 2 identifiers, 2 goroutines, no fault | violated: `ReadyIfAllValid` |
| `accounts_concurrent` | 3 accounts, 2 requests, 2 deactivations, 2 faults, read errors among them | type invariant, `AccountResolves`, `RetiredForGood`, `KeyLeadsToAClient`, `FurtherAccountsAreMisreads`, `OrphansAreFaults` |
| `accounts_one_account` | 2 accounts, 1 request, 1 deactivation, no fault | violated: `OneAccountPerKey` |
| `ocsp_responder` | 2 issuers, 2 serial numbers, a legible entry and one that leaves the number of the other, the certificates of one number asked for, 2 requests, lifetime 2, 1 fault, any number of failing fetches | type invariant, `RevokedIsListed`, `ClearedStaysRevoked`, the action property `GoodWanes`, `GoodEnds`; under `FairSpec` |
| `crl_worker` | 2 intermediates, 3 serial numbers, 2 legible entries and one that leaves the number of another, 2 faults | type invariant, `ListsItsOwn`, `NeverForgets`, `ServedIsReadable`, `RevocationIsListed`; under `FairSpec` |
| `key_pair_files` | 2 handlers, 3 key pairs of one root, another root and bytes that are none, 0 or 30 days asked, 1 fault | type invariant, `PairsMatch`, `AnswersVerify`, `ToldIsCertified` |
| `acme_cleanup` | 1 identifier (dns-01 only), 1 goroutine, 1 finalize, 1 certificate, 1 fault, limit 1 night | type invariants of both modules, `ReadyMeansProved`, `PartsOutliveOrder`, `AllIsRemoved`; under `CleanupFairSpec` |

`KeepsPromise` says of certificates and notices what `IssuedIsReported` says and more, so only
the former has a run; the latter is part of an invariant and proved. The type invariant of
`AcmeOrder` is part of that of `AcmeCleanup`.

Why the bounds are enough.

* Nonces: a clock that reaches two lifetimes has a nonce of exactly one lifetime,
  which is good, and of more, which is not, beside a fresh one.
* Orders: two goroutines are the fewest that overlap, and every property speaks of
  at most one file and the two writers of it; two identifiers make a scan that is
  not atomic; a goroutine returns to idle, so each may run any number of times and
  retries need no bound. Two finalize requests and two certificates let one fail
  after signing and the other issue again. The bound on certificates also says that
  clients finalize finitely often. One fault at any point of any interleaving
  reaches every error path; several are the proofs' business. A wildcard
  identifier, which is offered one challenge instead of two, halves the state where
  the second challenge makes no difference; `order_posted` has both.
* Accounts: two creators and two deactivations are the fewest that overlap; a third
  account lets a request create again while two exist. Two faults let a read error
  follow a failed write, or another read error.
* OCSP: two handlers are the fewest that race for an entry; two issuers with the same
  serial number are the case a cache key can get wrong; the second number is that of a
  certificate whose entry, illegible, is taken for the first; a lifetime of two has fresh,
  older and expired responses. Failing fetches have no bound.
* CRL: two intermediates show that one does not stop or colour the other, two legible
  entries that lists grow, the third that an illegible one harms nothing but itself, two
  faults that a failed write is followed by another. Refusals have no bound.
* Key files: two handlers are one writer and one signer, two writers, or two signers,
  with the third pair as the one neither holds. Zero days stands for every number
  that is not positive.
* Cleanup: one order with one of everything. A limit of one night has files that are
  fresh, kept although a night old, and due, and nights go on for ever.

An order can stop for good: new-order failed, or an authorization that two
writers garbled answers every challenge with 404. The order runs do not check
deadlock for that reason; all others do.

Two of the three violated properties are sentences of `docs/CA.md` (299-301: "`invalid` if
any authorization is invalid, `ready` if all are valid, otherwise stays
`pending`"):

* *otherwise stays pending*: `UpdateOrderStatus` leaves the status as it loaded it.
  An identifier fails, the order is invalid; its challenge is posted again and
  succeeds while the other identifier is still pending; the order stays invalid,
  until the last validation makes it ready.
* *ready if all are valid*: the goroutine that finishes last finds the order file
  truncated by the other, `LoadOrder` fails and it returns; or the other saves an
  older scan after it. Nobody recomputes the status, and the client that polls
  waits until it posts a challenge again.

The third is docs/CA.md:289-290, "`new-account` returns the existing account (200 +
Location) if the key is already registered". As long as requests come one after the other
and no deactivation begins, failing writes and crashes do not break it; each error in
reading the mapping or the account may, because it counts as "no account"
(`account.go:63-66`, `acme_handler.go:203`): `FurtherAccountsAreMisreads` bounds the
further accounts by such errors. In the run there is no error, and it fails when a
deactivation rewrites the account file at that moment: the handler ignores the error of
`FindAccountByKey`, takes the account for missing and gives the key a second, valid one,
although its administrator is just deactivating the first.

Fairness.

* `NonceManager`: a goroutine that holds the mutex runs on (weak fairness), and a
  waiting cleanup gets the mutex in the end although requests keep taking it
  (strong fairness), which Go's mutex guarantees by handing itself to a waiter after
  a millisecond.
* `AcmeOrder`: weak fairness for goroutines and handlers where they only compute and
  write files, and for the end of an http-01 validation, whose client has a timeout.
  Nothing is assumed of dns-01 validations, of signing or of the notice: they wait
  for the backend, for its settings too, without a timeout. Nothing is assumed of clients.
* `OcspResponder`: time passes, and a handler that has its status signs, stores and
  replies. The specification assumes nothing of the fetch: it may never end, or fail every
  time. While the backend keeps failing, each time makes another hour of "good",
  for ever (`ocsp_handler.go:86-95`, as `docs/CA.md:404-408` has it). `GoodEnds` therefore
  has a premise for each certificate: from some time on no fetch for it fails.
* `CrlWorker`: weak fairness for the pass. That the backend never answers is a step
  of its own (`Hang`), which nothing forbids and after which nothing happens:
  `RevocationIsListed` is conditional on it.
* `AcmeCleanup`: nights pass and the worker, which waits only for the disk, gets
  through its pass (weak fairness, with what enables a step of it spelled out). Nothing is assumed of handlers and goroutines, which may
  sleep for any number of nights with an old copy in hand.
* `AcmeAccounts`, `KeyPairFiles`: safety only, no fairness.

## 4. What is proved

Every theorem holds for every value of the constants that satisfies the named
assumption of its module, which only give types and keep sentinels apart from
values. `ListAssumption` of `RevokedList` is one of them: any entry may be read as
any number. Invariants are inductive conjunctions, proved action by action.

`NonceManagerProofs`. The invariant `IInv` strengthens the checked ones by `Exclusion`
(whoever is between lookup and delete holds the mutex, alone), `LookupIsCurrent`
(what it found is still there) and `MapIsUnspent` (nothing in the map has been
accepted). `LookupIsCurrent` is where the mutex is needed: every action that removes
entries requires the mutex or belongs to its holder. Theorems: `TypeCorrect`,
`ReplayProtection`, `KeptForLifetime`, `SweptAfterGenerate`, and `Implements`, the
refinement: `Generate` issues a token, a successful `Consume` redeems one, an expired
`Consume`, a cleanup and a restart void a set of them, everything else is a stutter.

`AcmeOrderProofs`. Five invariants are stacked:

1. `Shape`: types, and what a program counter says of the local variables.
2. `AuthzInv`: what is in an authorization file, and in the copy a goroutine holds,
   is explained by validations that succeeded or failed.
3. `OrderInv`: a ready document, in the file or in a goroutine about to write it,
   has every identifier proved. The scan's invariant is that `allValid` covers the
   authorizations read so far; it survives changes behind the scan because a proof
   is never taken back. A certificate URL that a document or a handler holds has its
   file.
4. `CompleteInv`: how far new-order has come, and that nobody works on the order
   before it is done.
5. `PromiseInv`: what is delivered is stored and what is stored was issued, the three
   fates of a notice exclude each other.

Theorems: `TypeCorrect`, `AuthzAlwaysExplained`, `ReadyOnlyWhenProved`,
`CertUrlAlwaysResolves`, `IssuedAlwaysReported`, `OrderAlwaysComplete`, and
`OrderKeepsPromise`, the refinement `Spec => KeepsPromise`. The refinement has one lemma
for each step of `OrderPromise` (`StepShows`, `StepPasses`, `StepSigns`, `StepStores`,
`StepNames`, `StepReports`, `StepLoses`) that gives the changes which make it that step;
`NextKeepsPromise` assigns the actions of `AcmeOrder` to them. `OrderInv` is what makes
any file that is read showable (`FileIsSound`).

`AcmeOutcomeProofs`. What becomes of the results, first of a validation's when no fault intervenes:

* `DecisionAlwaysReachesDisk`, by `Landed`: as long as nothing has failed, an
  authorization of a proved identifier is decided on disk or some goroutine has yet to
  write it, a file is truncated only while its writer is at work, and no goroutine writes
  back a pending copy. It holds for any overlap of goroutines.
* `StatusAlwaysFollows`: `Spec /\ []OneAtATime => []StatusFollowsAuthz`. `OneAtATime` says that
  of two goroutines that are not idle there is only one; it is a premise about the
  behaviour and leaves the constants free, where the run has one goroutine to begin with.
  That it cannot go is the run `order_lost_update`. `FollowInv` describes each stop of the
  one goroutine: which file it has truncated, that the order it loaded is the one in
  the file, and that `allValid` and `anyInvalid` count exactly the authorizations below its
  index. It speaks of behaviours up to the first fault and the first certificate only,
  as the property does, and finalize writes the order only after a certificate.
* `OrderNamedForGood`: `Spec => NamedForGood`, for any number of goroutines, finalize
  requests and faults. A goroutine that begins to load a settled order gets its
  certificate with it, and every document about to be written names one.

`AcmeAccountsProofs`. `Resolves` extends `AccountResolves` to the account a creator is
about to map, which is what makes the mapping and the answer safe when they are
written; `RetiredForGood` is inductive with the types because creators only write
files that do not exist. `Led` does for `KeyLeadsToAClient` what `Resolves` does for
the mapping. `Settled` says that the key leads to a valid account some client was told
of, and the request under way, if any, is led there, too. `Sole` says of undisturbed
requests that the accounts told of are no more than the misreads, plus one while that is
so: only a misread leads a request away from a settled account, and what it then tells of
settles the key again. `Orphans` strengthens `OrphansAreFaults`: the
accounts on disk are finitely many and no more than the faults, plus one if an account
is spoken for, by an answer or by a creator about to map it. A creator makes
another account only when nobody speaks for one, and only a fault silences the one who
did. Theorems: `TypeCorrect`, `AccountAlwaysResolves`, `RetiredStaysRetired`,
`KeyAlwaysLeadsToAClient`, `FurtherAccountsStayMisreads`, `OrphansStayFaults`.

`OcspResponderProofs`. `Sound`: whatever the cache or a handler holds for a certificate is
`Allowed`, that is on its issuer's list if it says "revoked", and "revoked" if the
certificate is cleared. Nothing is assumed of how entries are read. A racing reader mixes
two allowed entries only in their age (`SeenOf`). `GoodWanes` is an action property: once
a certificate is listed, its "good" entries, in the cache or about to be stored, have an
end that no step puts off except a failing fetch for it, and a tick brings the end nearer.
It is the safety half of `GoodEnds`, and its proof needs the types and that only
`FetchFails` says "good" of what is on the list. Theorems: `TypeCorrect`,
`RevokedAlwaysListed`, `ClearedAlwaysRevoked`, `GoodAlwaysWanes`.

`CrlWorkerProofs`. `Held` (the list in hand is read from entries of the backend's) and `Covers` (it
contains everything its intermediate has published, from fetch to write, because
there is one worker) carry `FilesOK`. Theorems: `TypeCorrect`, `AlwaysListsItsOwn`,
`NeverForgetsARevocation`, `ServedAlwaysReadable`.

`KeyPairFilesProofs`. `Alone`: of two writers of one store neither is quiet.
`WriterOK`: a quiet writer finds its own certificate in the file when it comes to the
key, and one that is not quiet has its store marked broken. `ReaderOK`: what a
quiet signer holds is what is in the files, the root included. With the premise of
`AnswersVerify`, that the stored root fits the stored intermediate, the chain's last
certificate has signed the one before; without it the theorem says
of the root only that it is what somebody has uploaded. Theorems: `TypeCorrect`,
`PairsAlwaysMatch`, `AnswersAlwaysVerify`, `ToldAlwaysCertified`.

`AcmeCleanupProofs`. `CreationInv`: a part once written is there, older than the last
write of the order, or removed by the race. `AgeInv`: a part that is due has its order
due as well, or is `apart`. `PassInv`: once the pass has left the first directory, the
order is no longer due or was rewritten under its hands. That the order of the
directories is the right one enters here. `AuthzInv` and `OrderInv` of the order are
carried over: a removed authorization is read as an error, never as a valid one.
`PromiseInv` is carried over with them: the worker only hides the order, and a finalize
whose open file was removed still answers with a certificate that is stored
(`UnlinkedPromise`). So the composition implements `OrderPromise`, too. Theorems:
`CleanupTypeCorrect`, `PartsAlwaysOutliveOrder`, `CleanupNeverMakesReady`,
`CleanupKeepsPromise`; the last has no run of its own, the property is checked without the
worker and proved with it.

Only model-checked: the liveness properties `ExpiredReclaimed`, `PostedIsDecided`,
`TruncatedIsRewritten`, `GoodEnds`, `RevocationIsListed` and `AllIsRemoved`, because fairness and
ENABLED are outside the prover's reach. For three of them the safety they rest on is
proved: `SweptByGenerate` for `ExpiredReclaimed`, `Landed` for `PostedIsDecided`, `GoodWanes` for
`GoodEnds`. Every invariant and every action property of a passing run is stated by a theorem.

## 5. Plan

What is left, most valuable first:

1. `AcmeServer`: nonces and order composed, with a client that retries on badNonce,
   to show that a correct client gets its certificate when nothing fails.
2. An abstract publication of revocations that `CrlWorker` and `OcspResponder` implement:
   what a relying party may be told of a certificate, and when.
3. The safety that `RevocationIsListed` and `AllIsRemoved` rest on: what a pass without a
   failure has done when it ends.
4. The choice of the intermediate from the backend's settings, with its fallback to the
   `active` link and to the last directory, as operators checked against a reference
   definition.

## 6. Not modelled

* **System handlers.** Host information only reads. The NTP handler starts one command
  and waits for it or for fifteen seconds, over a channel with room for the
  late result. When both come at once either answer may be given, and "timeout" is also
  said when the server has been set. The outcome lies with the `sudo` helper, outside
  the process, and no state outlives the request: there is nothing a property could
  compare the answer with. It is one of the two hazards in `PROJECT.json` without a
  property; the other is that finalize does not look at the order's status (section 2).
* **Admin authentication.** One stateless comparison of a header with an environment
  variable, before any handler.
* **The choice of the intermediate** (settings, fallback): a lookup that keeps
  nothing. The models have the one that was chosen.
* **Encodings**: what `crypto/x509`, the OCSP library and the `openssl` program
  compute, and the formats of requests and responses. They succeed or fail.
* **Listings and downloads**: of accounts, intermediates, roots and certificates.
  They read files whose writers are modelled.
* **Code without a caller**: `jws.go`, `EnsureACMEDirs`, `ca/intermediate.go`, `LoadCA`.
