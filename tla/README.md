# 3f-guardian: a TLA+ verification project

3f-guardian runs *guardians*: services that look at what an off-chain protocol is about to do on
chain (bind a request to an intent, change a fund, swap, whitelist a request), check it against a
policy and live chain state, and sign it with EIP-712 if it passes. This directory holds TLA+
models of its parts, TLC configurations that check them on small instances, and theorems about
them that TLAPS checks for every value of the constants. All source paths are relative to the
repository; line numbers are in `PROJECT.json`, `map`.

## Inventory

| component | state it keeps | operations | what is hard | what makes it correct |
| --- | --- | --- | --- | --- |
| **Polling coordinator** `guardian-coordinator/src/index.ts` | per process: sign-deadline hits per request; per cycle: page, rows, counters; at grunt-api: open requests, durable nonce reservations, submissions | poll, skip, parse, read candidates, reserve a nonce, sign, submit, heartbeat | replicas share one key; calls time out but take effect; crashes; pages shift; a slow request is ahead in the list | what is signed carries the durable reservation; no nonce for two independent whitelistings; a spent nonce is not taken up again; only payloads grunt-api gave the hash of are submitted; heartbeat adds up; nobody starves |
| **Whitelist nonce window** `guardian-coordinator/src/whitelist-nonces.ts` | none of its own: the floor and consumption on chain, the account's mempool | read the window, offer free nonces, confirm at a finalized block, raise the floor | reads by block number under reorganisation; the count is read before the transaction is sent; end of uint256 | the floor never passes an unconsumed nonce, never closes the space, and a spent window reopens |
| **Role scan** `guardian-defaults/src/checks/role-events.ts`, probe and call in `intent-request-binding.ts` | logs gathered, next chunk | walk backwards in chunks, stop at the deployment, replay | chunk bounds; emitters; order of logs; the chain grows meanwhile; probe and scan must agree | complete role holders exactly when the deployment is in the window, else nothing but true holders |
| **A.1 binding check and its cached facts** `intent-request-binding.ts` | cached on-chain facts per request contract | trusted list, cache, factory slots, scan, verdict | stale entries against a live policy; failed reads masked as answers | nothing wrong is cached; a policy change is seen at once |
| **Rate limiter** `guardian-defaults/src/rate-limit` | a counter and window start per key, a lock queue per key | consume | read-modify-write across awaits, backlog cap, abort | never more than the budget in a window |
| **Bundled cache store** `guardian-defaults/src/cache` | a Map in insertion order, each entry with its expiry | get, set, delete, sweep, trim | a get validates after an await and purges what does not parse; expiry at its instant; sweep before trim | a lookup finds what was last written and has not expired; room is made by age alone |
| **HTTP service** `guardian/src/server.ts`, `plugins/`, `lib/signing.ts`, `lib/deadline.ts`, `abstractions.ts` | per request only: what authentication said, the deadline of the present host call | receive, read the body, authenticate, limit, validate, sign, answer; probe liveness | order of rejections; a host call outliving its deadline; a token revoked on the way | nothing signed that is not entitled; strangers learn nothing and spend nothing; one answer, in time |
| **Checks A.2 to A.4** `checks/helpers.ts`, `intent-swap.ts`, `intent-fund-binding.ts`, `request-whitelisting.ts` | the entries collected so far, per call | a read, an early return or the next read, the roll-up | reads that fail slot by slot, a chain that moves between reads, numeric edges, which of two errors wins | the verdict is the policy's on what was read; an outage is never the client's fault |
| **Domain cache, sign runners** `guardian/src/lib/eip712-domain.ts`, `typed-data/` | cached EIP-712 domains | run checks, look up or read the domain, build the payload, sign | a contract upgraded between a read and its write-back; two chains with one address; legs in either order | signs under a recent domain of the request's own contract, one payload per request |
| **Command line and signers** `cli.ts`, `kms-signers.ts`, `guardian/src/signers` | configuration | start, call the local key, KMS or HTTP signer | remote failures, a backend that holds another key | what is returned as a signature recovers to the guardian; configuration is outside the models |
| schemas, ABIs, logging, fixtures | none | none | none | declarative, not modelled |

The coordinator calls the nonce window once per independent whitelisting, reserves one of its
candidates at grunt-api, then calls `runSigning`, which runs the checks (the A.1 check among them
runs the role scan) and the signer; the HTTP service runs the same `runSigning` for callers from
outside. The parts share nothing but the guardian key, the chain and grunt-api; a replica is a
whole process.

## Plan

1. `GuardianCoordinator`, its instances and its proofs: the part that spends the key. *(done)*
2. `WhitelistNonces`, its instances and its proofs: the part that changes the chain. *(done)*
3. `RoleHistory`, `RoleAnswer`, `RoleScan` and the refinement with its proof: the part that reads
   the chain for the binding check. *(done)*
4. `FixedWindow` (abstract) and `RateLimiter` (detailed, the lock queue), refinement and proof: the
   one part that is a concurrent algorithm of its own. *(done)*
5. `RequestBinding` and its proofs: the A.1 check with its cache, under a policy that changes.
   *(done)*
6. `SignPipeline` and its proofs: what a request passes before its signature, in which order it
   is rejected, each host call under its deadline. *(done)*
7. `LossyMap` (abstract) and `BoundedCache` (the bundled store), with the refinement and its proof:
   expiry, capacity and purge of the in-memory cache. *(done)*
8. `CheckHelpers` and `PolicyChecks`, with their proofs: fund binding, swap and whitelisting, read
   by read, against the policy stated as a predicate on what was read. *(done)*
9. `Signers`, `TypedData`, `SignRunner` and its proofs: what each signer makes of its backend, the
   payload of each operation, the domain cache and the runner around them. *(done)*

Left: `kmsAccount` (the KMS key as sender of transactions), the configuration read by `cli.ts`, a
client that disconnects.

The abstract specifications are one answer for one head (`RoleAnswer`), the atomic budget
(`FixedWindow`) and the cache that may forget but never lie (`LossyMap`). All three are refined
with a proof, and `SignRunner` takes its domain cache from the last by `INSTANCE`.

## Modules

| module | role |
| --- | --- |
| `GuardianCoordinator` | the poll loop of each replica, grunt-api, the key |
| `MCGuardianCoordinator` | its instances: `CoordinatorRace`, `CoordinatorRows`, `CoordinatorQueue` |
| `GuardianCoordinatorProofs` | its theorems |
| `WhitelistNonces` | `whitelistNonceCandidates`, the chain, the account's mempool |
| `MCWhitelistNonces` | its instances: `NoncesFloor`, `NoncesReopen` |
| `WhitelistNoncesProofs` | its theorems |
| `RoleHistory` | the chain a role scan reads (external) |
| `RoleAnswer` | what a role scan promises: one answer for one head |
| `RoleScan` | the probe and the chunked backward scan; refines `RoleAnswer` |
| `MCRoleScan` | its instance: `RoleScan` |
| `RoleScanProofs` | its theorems, the refinement among them |
| `FixedWindow` | what the rate limiter promises: the bundled store's atomic `consume` |
| `RateLimiter` | the queue of one key over a store that only reads and writes; refines `FixedWindow` |
| `MCRateLimiter` | its instances: `RateQueue`, `RateAbandoned` |
| `RateLimiterProofs` | its theorems, the refinement among them |
| `RequestBinding` | `runA1`: the A.1 check of one contract, its reads, its cache, its verdict |
| `MCRequestBinding` | its instances: `RequestBinding`, `RequestBindingMarker` |
| `RequestBindingProofs` | its theorems |
| `SignPipeline` | HTTP requests side by side, from their headers to their response |
| `MCSignPipeline` | its instance: `SignPipeline` |
| `SignPipelineProofs` | its theorems |
| `Signers` | what a signer makes of what its backend answers; operators only |
| `TypedData` | the payload of each operation, the canonical order of swap legs; operators only |
| `SignRunner` | checks, domain from cache or chain, payload, signature |
| `SignRunnerProofs` | its theorems |
| `LossyMap` | what a caller may rely on of a cache |
| `BoundedCache` | the bundled store; refines `LossyMap` |
| `CheckHelpers` | entries, roll-up, tolerance, nonce window, multicall; operators only |
| `PolicyChecks` | the runners of fund binding, swap and whitelisting |
| `Filter` | what is left of a sequence when some positions go; operators only |
| `SigningPartsProofs` | the theorems about `BoundedCache` and `PolicyChecks`, the refinement among them |
| `MCSigningParts` | the instance `SigningParts` of `SignRunner`, `BoundedCache` and `PolicyChecks` |

### GuardianCoordinator

One replica is one run of `runGuardianCoordinator`. `pc[p]` names the await it is at: the page
read (`fetch`), the loop over the page (`items`), `whitelistNonceCandidates` (`candidates`), the
nonce PUT (`reserve`), `signWithGuardian` (`sign`), the submission PUT (`submit`). Between two
awaits the code runs without interruption, so it is one action; at each await everything else may
move. `timeouts[p]` is the `signTimeouts` map, `stats[p]` the counters of the cycle, `nonce[p]` the
nonce in the parsed body (none while the placeholder `"0"` is there), and `expected[p]` is
`request.payloadHash`, as the payload it is the hash of.

A row is a request id; what parsing and filtering make of it is `Class`: `malformed` (the schema
refuses it), `badBody` (the body does not parse, or chain or target differ), `foreign` (another
chain or facility), `independent` (a whitelisting with no nonce of its own), and `legacy`, which
stands for every other row that goes straight to signing. Payloads are pairs of an id and a nonce:
two payloads of one request differ in nothing else.

A legacy whitelisting brings a nonce of its own, `OwnNonce`, and nothing keeps it out of the window
the coordinator reserves from: `checkNonceWindow` asks that it lie between the floor and the
window's end and be unconsumed, which is what the window offers. So a legacy whitelisting may
spend a nonce that is reserved for an independent one, and `NoNonceReuse` is said of independent
ones only. What is promised of the others is `SpentNonceIsNotTakenUp`: once a nonce is spent, no
replica takes it up for the request it is reserved for, on whichever poll, after whichever restart;
the check after the reservation (`InWindow`) is what it rests on. Work in hand when the nonce is spent
is not called back and ends in a transaction that fails, which is why the property speaks of taking
up. The checks before the signer may also find the nonce spent: that is a `SignFails`, which may
happen or not, as the coordinator takes `signRequestWhitelisting` from its host.

`Announced` is the payload whose hash grunt-api lists for a request, `None` if it is the hash of
nothing this guardian may sign, and `Misreserved` names requests whose reservation is answered with
such a hash. `ReserveReturns` replaces the hash in hand by the one answered (`ExpectedHash`), and
`SignReturns` compares that with the payload signed. A signer's answer that does not parse or names
another guardian is a `SignFails` in which the key was used.

grunt-api is external. It lists open requests in any order and answers a page with the flag
`mySubmission`; it reserves a nonce durably, the one already reserved or a candidate nobody else
has; it takes submissions while the request is open. Every call may fail before or after it took
effect: the abandoned call is put into `strayNonce` or `straySubmit` and may arrive at any later
time. A signing task that lost against the deadline stays in `late` and may still reach the key. A
crash loses all of a replica's variables.

### WhitelistNonces

`chain` is the canonical chain, each block with the state it leaves: floor, consumed nonces,
transaction count. Reads name a block by number, as the source does, so after `Reorg` the same
number is another block. `mempool` holds the account's transactions: the coordinator's floor
transactions and the operator's own. A transaction with the count of a waiting one replaces it.
`SendFloor` may lose the node's answer. The two transaction counts are read in one step
(`ReadCounts`): the source asks for both at once, what could move between the answers may as well
move right after, and nothing but their equality is used. That comparison makes it rarer that a floor
transaction meets another of the account and cannot exclude it; no property rests on it, because a
floor that was confirmed before it was sent does no harm however often it is replaced, dropped or
sent twice.

### RoleHistory, RoleAnswer, RoleScan

`stored[h]` is what the request contract stores at block h, and `updates` are the logs that tell
of it, which is all the scan can see; factories emit logs of the same shape for their own roles,
and deployment logs may come from others. `RoleAnswer` asks for the head and answers in one step
with a right answer for that head. `RoleScan` does what the source does, a chunk per `getLogs`
call, and `ImplementsRoleAnswer` says that it is a `RoleAnswer`. The chain grows at any time. It never
reorganises during a scan: the code has no defence there and promises nothing.

### FixedWindow, RateLimiter

One key of one process; keys share nothing. `queue` is the promise chain of `withKeyLock`, its
running task first; `step[c]` is the await a call is at: in the queue, the store's read, the
store's write. `nowSec` is read when the turn comes, under the lock, and kept across both awaits
(`asOf`). The deadline of `lib/deadline.ts` answers the caller 503 at any moment and aborts the
signal, which the task looks at once, when its turn comes. `store` is external; a write that is
reported as failed may have taken effect, and has done so by then or never does: a store that
applies an abandoned write later could undo another request's count, and nothing in the source
could prevent it. `counted` and `since` are history variables: who was counted, under which number, in
which window; and the second a call joined the queue, then the second of its turn. `CountedWhileOpen`
compares the two, which is what the comment on the clock (`in-memory.ts:139-141`) is about.
`FixedWindow` is the bundled store's `consume`, which reads and writes in one turn;
`ImplementsFixedWindow` says that the queue amounts to it, a caller's answer included.

### RequestBinding

`history` holds every state of what can be read of one request contract (owner, the factories that
claim it and the one that deployed it, role holders, which of them inside the lookback window,
whether deployment has left the window, the retargetters with a fitting operation) and of the
operator's policy; the present is its last element, so properties can speak of "at some moment
since the call began". A call is at its cache lookup (`new`), the first multicall (`read`), the
retargetter's `operation()` (`operation`), the probe and the scan (`scan`), or the cache write
(`write`). A call keeps the policy it began with; the policy changing under a cache is the service
started anew, or a second one, over a shared cache. `ReadHits` and `ReadNoHit` choose the set of
factories whose slot failed; `ReadFails` is every 503. The scan is one step: `RoleScan` shows that
it implements one answer for one head. The cache is an entry or none: any lookup may miss, any
write may be lost, and an entry is served however old it is. `kind = "probed"` stands for a
`tooOld` without `partialHolders`, which the probe answers.

### SignPipeline

One HTTP request is `r`; `want[r]` is what the shell sees of it (a `Profile`: method, content type,
route, size, token, HMAC, ...), `pc[r]` the host call it awaits, `due[r]` when the deadline of that
call strikes. Between two awaits the shell runs without interruption, so `AuthReturns` takes the
request from the answer of `authenticate` through HMAC and scope to the call of
`accountRateLimit`, and `LimitReturns` from there through schema and chain to the call of
validate-and-sign. `DeadlineStrikes` answers the request 503 and leaves the call in `late`: it
still runs, and `LimiterCounts` may still count it. `since[r]` is when the body had been read, which
is where the sum of the deadlines starts. Host calls are external: they return, throw a tagged or
an untagged error, or never come back, and tokens are revoked at any time. `counted` is the
limiter's answer, which it has made up its mind about some time before it arrives. Timers fire when they
are due: the event loop is taken not to be held up. Statuses are kept, texts, codes and headers of
the envelope are not.

### Signers, TypedData, SignRunner

`SignRunner` stands for the four `makeSign*` functions, which differ in their checks, their payload
and the contract that verifies: the kind in `body[i]` decides. The checks are one step here that
passes or fails with the errors of that operation; `PolicyChecks` and `RequestBinding` have them.
`declared` is what each contract answers to `eip712Domain()`, and `Upgrade` changes it at any time.
`Latency` is an assumption on the environment, not on the code: no lookup, read or write is in
flight for longer, without which nothing could be said of the age of a domain. Likewise `Ttl` is the
`ttlMs` of the back-fill; a host that sets none has entries that never expire, and gets no such
bound from the code. The payload stands for its hash: hashing is taken to be injective, and
`recoverAddress` to give the guardian only for its own signature over that very digest.

`Signers` says for the local key, the two KMS and the remote HTTP signer what is returned for each
thing the backend may do: fail, time out, answer garbage, sign another digest, sign with another
key. Only the local key is trusted. A KMS answers without recovery bit, so both are tried.

### LossyMap, BoundedCache

`LossyMap` is the promise of `AsyncCache`: what a lookup finds is what was last written under that key
and has not expired; anything may be forgotten. `BoundedCache` is the `InMemoryCache`: `map` is the
JavaScript Map as the sequence of its entries in insertion order. `rawGet` and the validation after
it are two steps, with other calls between them: `getPurges` deletes the key of a value that
does not parse, whatever the key holds by then. That is why the promise lets other keys and fresh
writes be forgotten as well. An entry without `ttlMs` is one whose time of expiry is never reached.
Deletions are written with `Filter`, which names the positions that stay and is defined without
recursion: nothing could be proved of `SelectSeq` here. `MCSigningParts` has TLC compare the two.

### CheckHelpers, PolicyChecks

One call of one of the three runners. `phase` is the read it waits for; an arrival runs up to the
first read or an early return, each read up to the next. Every read finds what the chain answers
at that time (any of a set of answers: the chain moves between reads) and loses any of its slots:
`Lost` is all or none for the small multicalls, which are one `aggregate3`, and any subset for the
factory probe, which is spread over several. A slot may revert, return what the ABI cannot decode, or
be unreachable; which of these is a 422 and which a 503 is `isDeterministicContractCallFailure`.
`saw` is a history variable: what the reads of this call found. The properties compare the
verdict with the policy stated on `saw`, price by cross-multiplication and all. Entries keep their
check and subject and not their text. The A.1 checks of a batch are taken at their
promise (a contract passes, fails, or upstream is unavailable).

### MCSigningParts

The runner, the cache store and the checks share no state, and each is small alone. A behaviour of
`PartsSpec` draws one of them and is then a behaviour of that part, so each property is checked on
exactly the behaviours of its own part.

## Runs

| run | instance | what it shows |
| --- | --- | --- |
| `coordinator_race` | two replicas, two independent whitelistings, two nonces, one stray call, give-up after one deadline | `SignedUnderReservation`, `NoNonceReuse` |
| `coordinator_rows` | one replica, an independent, a legacy, a malformed and a foreign row under two filters, pages of one row, two nonces, one of them brought by the legacy row, a reservation answered with another hash than listed, one crash, one stray call, give-up after one deadline | `AcceptedAsAnnounced`, `StatsAddUp`, `ReservationInv`, `SpentNonceIsNotTakenUp` |
| `coordinator_queue` | one replica, one row that always times out, one that never does, one whose body is not the row's, give-up after two deadlines, one crash, fairness | `TimeoutsBounded`, `CycleEnds`, `PromptIsSubmitted` |
| `nonces_floor` | two replicas, three nonces, windows of two, one reorganisation or drop, one foreign transaction | `NeverPastUnconsumed`, `SpaceNeverClosed`, `FloorInv` |
| `nonces_reopen` | one replica, the same chain, fairness | `WindowReopens` |
| `role_scan` | two users, two role sets, chains of up to four blocks, lookback two, chunks of two, archive probe on, fairness | `ResolvedIsComplete`, `PartialIsSound`, `AgeDecides`, `ImplementsRoleAnswer`, `ScanEnds` |
| `rate_queue` | three calls of one key, limit two per two seconds, backlog two, five seconds, fairness | `WithinBudget`, `WindowsApart`, `CountedWhileOpen`, `ImplementsFixedWindow`, `QueueMovesOn` |
| `rate_abandoned` | the same | a finding: `NoBudgetForRejected` is violated |
| `request_binding` | two calls, two factories (one of either sort), two owners, two parties, four policies, histories of three states | `ApprovalJustified`, `NoFactoryIsDefinite`, `EvidenceInv`, types |
| `binding_marker` | the same | a finding: `DeploymentNotMissed` is violated |
| `sign_pipeline` | a request of any of fifteen profiles beside one in order, a budget of one, one revocation, deadlines of one second, idle timeout of four, fairness | `StrangersLearnNothing`, `SignedOnlyIfEntitled`, `AnsweredBeforeIdle`, `AnswerIsFinal`, `HungCallsAreAnswered` |
| `signing_parts` | two calls over one domain cache, remote HTTP and KMS, one upgrade; a cache of two entries and three keys; every request of the three kinds under three policies | `SignedDomainIsRecent`, `SignedWhatWasAsked`, `OnePayloadPerRequest`, `ImplementsLossyMap`, `RoomIsMadeByAge`, `BlameIsRight`, `VerdictIsRight`, `AppendixIsDescribed` |

The type invariants of the coordinator, the nonces, the scan, the limiter, the pipeline and the runner
are proved and are not checked again by a run.

### Findings

- `rate_abandoned`. The comment on the limiter (`rate-limit/in-memory.ts:66-69`) says of the abort
  signal "so no budget is burned for rejected requests". The signal is looked at once, when the
  task's turn comes; a request whose 503 comes while the store reads or writes is counted. The
  sentence is right of requests given up in the queue, which is the case the signal is for.
- `binding_marker`. When the read of a factory fails the source answers 503 only if no other
  factory claims the contract, as "the factory that DID deploy it" may be "the one we failed to
  read" (`intent-request-binding.ts:609-614`). If another claims it, the failed factory is dropped
  from the scan as well, which then cannot see the deployment event: the very thing the comment at
  627-631 sets out to prevent. A contract younger than the window is classed `tooOld`, cached, and
  rejected under `onLookbackExhausted: "fail"` or, under `"skip"`, passed without its roles being
  checked beyond what the window shows.

Noted while modelling, without a run of its own:

- `abstractions.ts:164-166` asks that identical body and on-chain state give an identical signature
  and payload hash. A cached domain may be older than the state, so within `MaxAge` of an upgrade
  two replicas can sign different payloads; `SignedDomainIsRecent` is what the code does promise.
- `abstractions.ts:126` says `now` is "captured once at request entry"; `runSigning` takes it after
  authentication and rate limit (`lib/signing.ts:57`), up to their deadlines later.
- A contract named by the client whose answer cannot be decoded is a 503, one that reverts or
  returns nothing a 422: `NotTheClients` in `PolicyChecks` says where the line is.

### Bounds, and why they are enough

- Two replicas and two requests are the least with which a nonce can be reserved twice, signed
  twice or spent under another's feet; nothing in the loop counts replicas. `MaxStray` bounds calls
  given up and still under way, `MaxCrashes` crashes. `GiveUpAfter` is 2 in the queue run, as in
  the source, where `TimeoutsBounded` is checked, and 1 in the other two, whose properties do not
  speak of it: the proofs hold for every value. Two nonces in the rows run let the legacy
  whitelisting spend the nonce reserved for the independent one while another is still free.
- Pages of one row make every list span several pages, so rows move between them.
- Three nonces with windows of two give a full window, a cut window at the end of the space and
  an exhausted one. `MaxFaults` counts reorganisations and dropped transactions together,
  `MaxOthers` the operator's transactions.
- A chain of `MaxHeight` 4 with a lookback of 2 leaves blocks before the window, at its edge and
  within; `BlockRange` 2 makes the last chunk a shorter or a full one. Two users are the least with
  which one is complete in the window and the other is not.
- Symmetry is used over the replicas and nonces of the race, the replicas of the floor, the calls
  of the binding run and the names a contract may declare. No liveness property is checked with it;
  the action properties of the binding run speak of single steps, and the temporal
  properties of `signing_parts` are of a part that has no names.
- Three calls fill a backlog of two and let one be refused; a limit of two over a width of two
  seconds and a clock of five lets two windows follow each other with a late write between them.
- Histories of three states let the world move twice, so between any two of a call's reads, or
  once before a second call finds the entry and once during it. The policies are: reject what
  cannot be seen, skip it, skip and list an owner as a retargetter, vouch for the contract. The
  worlds to start from are a contract not yet there, one deployed with its roles granted, and one
  older than the window with an unknown party granted inside it. The calls are symmetric.
- The pipeline meets one request of any profile beside one that is in order and takes from the same
  budget of one, so either may find it spent. All deadlines are one second and times of arrival go
  up to one: every await can begin and end at different times, and the idle timeout of four is
  just more than the three deadlines of a request together.
- Two calls are the least that share a domain cache. A life and a latency of one, a clock of four
  and one upgrade let a value be read before the upgrade, written and served after it, and expire.
  The workloads pair the requests that must not be confused: swaps with legs in either order, a
  batch listed and unlisted, one address on two chains.
- Three keys over a bound of two make every third write evict; lives of 0 to 2 give a refused write
  and entries that expire out of insertion order, so that the sweep and the trim differ.
- The requests and policies of the checks have amounts on both sides of the tolerance and of its
  floor of one wei, a denominator of zero, batches below, at and over the cap, books free and
  restricted, and factory lists of none, one and two.
- `CHECK_DEADLOCK FALSE` in `RateQueue`, `RateAbandoned`, the two binding runs, `SignPipeline` and
  `SigningParts`: every call is answered once, and then there is nothing left to do. In `RoleScan`:
  the model stops at `MaxHeight` when nothing was ever deployed.

### Fairness

- Coordinator: a step of the loop is not put off for ever, as every call has a timeout and the
  loop has no other wait; a crashed process is restarted by its host; a page or a row that is
  tried again and again is answered in the end (strong fairness per page and per step of a prompt
  row, since a failure in between disables the step). Nothing is assumed of closing, of new
  requests, of stray calls or of late tasks.
- Nonces: the coordinator calls again and again and each read succeeds in the end; the chain mines
  the account's next transaction and finalizes. No whitelisting need ever be executed, and faults
  are bounded.
- Scan: its calls return. It need not fail.
- Rate limiter: the store settles every call, with an answer or an error; a task whose turn has
  come takes its steps. No request need ever arrive and no deadline strike.
- Pipeline: the clock goes on and a timer that is due fires. Nothing is assumed of the host calls,
  the client or the limiter: `HungCallsAreAnswered` is about calls that never return.
- Binding check, runner, cache store and policy checks: none; their properties are of safety.

## Proofs

All theorems are checked by TLAPS for every value of the constants that satisfies the named
`ASSUME`s, and every one of those is evaluated by TLC on the instances.

- `GuardianCoordinatorProofs`. `ReservationInv` is the inductive invariant: the reservation table
  is injective and only for independent requests; every payload the key met, or may still meet in
  a late task, carries the nonce due to its request; so does the body in hand from the reservation
  on; a body that agrees with the hash in hand is one grunt-api vouches for; what is under way was
  signed and compared. None of the three signature properties is inductive alone, as the late tasks
  and stray calls act on data of steps long past. From it follow `SignedUnderReservation`,
  `NoNonceReuse` and `AcceptedAsAnnounced`. The action property `SpentNonceIsNotTakenUp` is proved
  step by step from the types (`HandStep`): candidates are read unconsumed, a body gets its nonce
  only from the candidates in hand, a late task only from the body. `LoopInv` adds that a page is fetched only when the
  one before is used up and that no row in work was given up, and gives `StatsAddUp` and
  `TimeoutsBounded`.
- `WhitelistNoncesProofs`. `FloorInv`: consumption only grows along the canonical chain, and each
  floor read, in hand, in the mempool or mined is *settled*, that is, every nonce below it is
  consumed at the finalized block. A reorganisation does not reach below the finalized block, so
  settled stays settled: this is why the source confirms at a finalized block. It gives
  `NeverPastUnconsumed` and `SpaceNeverClosed`.
- `RoleScanProofs`. The chain's part of the invariant says that at every block the logs so far
  tell the stored roles; the scan's part that the logs gathered are exactly the contract's own
  above the next chunk, up to the head, and that no deployment is among them. `ReplayTells` is the
  lemma that replaying a window gives the stored roles of all users the window tells of.
  They give `ResolvedIsComplete`, `PartialIsSound`, `AgeDecides`, and `Spec => ImplementsRoleAnswer`
  step by step. `ScanIsBounded` is the safety half of `ScanEnds`: every `getLogs` call after which the scan
  goes on takes a full block range off a window no longer than the lookback, whatever is mined
  meanwhile; `ChunksFit` says that no call asks for an empty range or for more than one range.
- `RateLimiterProofs`. The invariant has three parts beside the types: the chain holds each
  unsettled call once and nothing else; an unsettled call was not counted, and its caller knows at
  most of the deadline; no counted window is later than the store's, none of the store's window has
  a higher number, and a state being written is still the one that follows the store's. The last is
  what the lock is for. It gives `WithinBudget`, `WindowsApart`, with the clock's part of the
  invariant (`ClockInv`) `CountedWhileOpen`, and `Spec => ImplementsFixedWindow`, where a
  write that fails after it took effect maps to a request counted whose caller gets an error.
  `ChainCorrect` is the safety half of `QueueMovesOn`: no settled call is left in the chain.
- `RequestBindingProofs`. `EvidenceInv` says of every cache entry, and of what every call has in
  hand, that the chain has shown it: owner and factory at one moment, role holders at that moment or
  later, since the call began, or since ever for an entry; and that a call is on the branch its own
  policy gives the owner. `ApprovalJustified` needs it because an approval on a hit rests on reads of
  another call under another policy. It gives `ApprovalJustified` and `NoFactoryIsDefinite`. Beside
  the types of the constants it assumes that no factory recognises a contract that is not there.

- `SignPipelineProofs`. The invariant has three parts per request: what its place implies (a
  request at its host call has passed every gate before it, an answer is one its caller may see),
  what its traces imply (a count of the limiter, a late call of it or a call of validate-and-sign are
  only there for a request that authenticated and has the scope), and when its present await began
  and must end. The second is needed because a late call of the limiter counts after the request
  has left, and the third because the revocation of a token is judged by deadlines of calls that
  are over. It gives `StrangersLearnNothing`, `SignedOnlyIfEntitled`, and, if the deadlines of a
  request add up to less than the idle timeout, `AnsweredBeforeIdle`. `AnswerIsFinal` needs only the
  types.
- `SignRunnerProofs`. The invariant gives every value under way an age: what a contract declares it
  declared just now, what waits to be written was read `Latency` ago at most, an entry was read
  `Ttl + Latency` before its expiry at most, what was found is no older than that. It gives
  `SignedDomainIsRecent`. `SignerSound` (no signer returns what does not recover to the guardian,
  whatever its backend answers) and the invariant's part that a payload is of the call's own request
  give `SignedWhatWasAsked`; that `canonicaliseSwapLegs` maps two pairs of legs to one exactly when
  they are the same up to order gives `OnePayloadPerRequest`.

- `SigningPartsProofs`, the cache store. `StoreInv` says that no key is in the Map twice and that the
  Map is within its bound between two steps. The first is why deleting a key and appending it is a
  move to the end and why what is left of a Map holds of each key what the Map held; the second
  is why at most one entry too many is ever trimmed, the oldest, and so why a live entry makes room
  only when all are live. They give `CacheSpec => ImplementsLossyMap`, where lookups that delete, purges,
  sweeps and trims map to forgetting, and `RoomIsMadeByAge`.
- `SigningPartsProofs`, the check runners. The three properties speak of calls that are done, and
  none is inductive: what a verdict is worth depends on what was collected and seen at the awaits
  before. `ChecksInv` says where a call can stand. At each await it ties `checks` and `left` to the
  request, the policy and `saw`: between two contracts of a batch, the entries are the gate's and one
  for each contract seen, in order, and `left` is the others. At the end it has the nine ways a call
  ends, each with its verdict. `TwoSlotsThrow` and `ManagerLegIs` say what a multicall makes of
  answers and losses, `PriceMeans` that the rounding of the price check is the tolerance by
  cross-multiplication, `Join` that parts of a description with no check in common add up.
  They give `BlameIsRight`, `VerdictIsRight` and `AppendixIsDescribed` for batches and factory lists
  of any length and any numbers.

  The assumptions are what schemas, builders and the ABI guarantee: numbers are unsigned, a swap has
  two legs, no contract is in a batch twice (`BodiesWellFormed`), policies have numbers and a list of
  factories (`PoliciesWellFormed`), an answer that decodes has its type (`AnswersWellFormed`), and
  a failed slot is told from every answer (`SentinelsApart`, `AbsentApart` for the cache's misses).
  `FilterProperties` and the lemmas on concatenation stand in for induction on sequences: a filtered
  sequence is described by the positions kept, and that positions have ranks rests on
  `LeastNumber`, which is the well-foundedness of finite sets applied to one set and not an
  induction theorem.

Before it was proved, each inductive invariant was checked by TLC on the instance of its module.

Only model-checked: the liveness properties (`CycleEnds`, `PromptIsSubmitted`, `WindowReopens`,
`ScanEnds`, `QueueMovesOn`, `HungCallsAreAnswered`), since liveness under fairness and ENABLED are
out of the prover's reach; of `ScanEnds` and `QueueMovesOn` the safety halves are proved
(`ScanIsBounded`, `ChainCorrect`). Every other property of a passing run is a theorem.

## Not modelled

See the inventory and the component notes in `PROJECT.json`.

- A client that disconnects, and the abort signal handed to validate-and-sign: only the scan of the
  role events looks at it, and it changes nothing but when that stops.
- An optional rate limiter that is absent; texts, codes and headers of the error envelope.
- The configuration `cli.ts` reads from the environment, and `kmsAccount`, the KMS key as sender of
  floor transactions: `WhitelistNonces` has an account that signs what it is asked to.
- Schemas, ABIs, EIP-712 hashing, logging, version headers and fixtures: data, output, or code that
  runs only under test. What `SignPipeline` takes from a schema is whether a body fits.
- A reorganisation during a role scan: the source reads by number and promises nothing for one.
- The clock of the cache inside the A.1 check: `RequestBinding` serves an entry however old it is,
  which covers every time to live.
