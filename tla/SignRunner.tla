---------------------------- MODULE SignRunner ----------------------------
(***************************************************************************)
(* The sign runners (guardian/src/typed-data/sign-runners.ts): checks,     *)
(* then the verifying contract's EIP-712 domain, from a cache or from the  *)
(* chain, then the payload, then the signer.  Calls run concurrently and   *)
(* share the cache; contracts are upgraded under them; cache, node and     *)
(* signer fail one by one.                                                 *)
(***************************************************************************)
EXTENDS Integers, Signers, TypedData

CONSTANTS Calls,          \* one sign call each
          Workloads,      \* sets of requests in flight: [Calls -> request body]
          Places,         \* the <<chain, contract>> pairs the bodies name
          Names,          \* name and version a contract may declare
          NoDomain,       \* the contract declares none
          None,           \* no entry, no value
          Provider,       \* [Calls -> the signer of the replica that serves it]
          Ttl,            \* life of a cache entry
          Latency,        \* bound on one lookup, read or write in flight
          MaxTime,        \* bound on the clock
          MaxUpgrades     \* bound on upgrades

ASSUME TimesAreNat == Ttl \in Nat \ {0} /\ Latency \in Nat
ASSUME ProviderKnown == Provider \in [Calls -> Providers]
ASSUME BodiesNamePlaces ==
  \A w \in Workloads, i \in Calls :
    w[i].kind \in Kinds /\ <<w[i].chain, w[i].target>> \in Places
ASSUME SwapsHaveTwoLegs ==
  \A w \in Workloads, i \in Calls :
    w[i].kind = "swap" => w[i].what \in Leg \X Leg
ASSUME NothingApart == None \notin Names /\ NoDomain \notin Names

VARIABLES body,       \* the request of each call, validated upstream
          now,        \* the clock
          declared,   \* what each contract declares on its chain
          declaredAt, \* when each contract last declared each name, -1 never
          upgrades,   \* how many upgrades there were
          cache,      \* the domain cache
          pc,         \* where each call is
          since,      \* when it got its value from chain or cache, or built its payload
          name,       \* the name and version it found
          typedData,  \* the payload it handed to the signer
          cleared,     \* the calls whose checks passed
          answer      \* None, or what the runner returned

world == <<body, now, declared, declaredAt, upgrades>>
found == <<since, name>>
vars == <<world, cache, pc, found, typedData, cleared, answer>>

DomainCache == INSTANCE LossyMap
  WITH Keys <- Places, Values <- Names, Readers <- Calls, Lives <- {Ttl},
       held <- cache, found <- name, clock <- now

\* A faulty eip712DomainCacheKey: the chain is left out.
eip712DomainCacheKeyUnscoped(chainId, verifyingContract) == <<1, verifyingContract>>

\* Keys are scoped by chain; an address stands for all its spellings.
eip712DomainCacheKey(chainId, verifyingContract) == <<chainId, verifyingContract>>

Key(i) == eip712DomainCacheKey(body[i].chain, body[i].target)
Place(i) == <<body[i].chain, body[i].target>>

\* The contracts somebody asks about: only those matter.
Watched == {Place(i) : i \in Calls}

Init ==
  /\ body \in Workloads
  /\ now = 0 /\ upgrades = 0
  /\ declared \in {d \in [Places -> Names \cup {NoDomain}] :
                     \A p \in Places \ Watched : d[p] = NoDomain}
  /\ declaredAt = [p \in Places |-> [n \in Names |-> IF declared[p] = n THEN 0 ELSE -1]]
  /\ cache = [p \in Places |-> None]
  /\ pc = [i \in Calls |-> "checks"]
  /\ since = [i \in Calls |-> 0]
  /\ name = [i \in Calls |-> None]
  /\ typedData = [i \in Calls |-> None]
  /\ cleared = {}
  /\ answer = [i \in Calls |-> None]

Goto(i, from, to) == pc[i] = from /\ pc' = [pc EXCEPT ![i] = to]

Return(i, from, result) ==
  /\ Goto(i, from, "done")
  /\ answer' = [answer EXCEPT ![i] = result]

(* ---------------------------- the runner ------------------------------ *)

\* The checks of the operation bail, each with its own kind of error; only a
\* fund binding conflicts with the state of the fund.
ChecksFail(i) ==
  /\ \E status \in {422, 503} \cup (IF body[i].kind = "fund" THEN {409} ELSE {}) :
       Return(i, "checks", Err(status))
  /\ UNCHANGED <<world, cache, found, typedData, cleared>>

ChecksPass(i) ==
  /\ Goto(i, "checks", "lookup")
  /\ cleared' = cleared \cup {i}
  /\ UNCHANGED <<world, cache, found, typedData, answer>>

\* The store answers the lookup with a live entry.
CacheHit(i) ==
  /\ Goto(i, "lookup", "found")
  /\ DomainCache!Hit(Key(i))
  /\ name' = [name EXCEPT ![i] = cache[Key(i)].value]
  /\ since' = [since EXCEPT ![i] = now]
  /\ UNCHANGED <<world, cache, typedData, cleared, answer>>

\* No entry, an expired one, no cache at all, or a lookup that throws.
CacheMiss(i) ==
  /\ Goto(i, "lookup", "read")
  /\ UNCHANGED <<world, cache, found, typedData, cleared, answer>>

\* The node evaluates eip712Domain(); its reply is on its way.
ReadDomain(i) ==
  /\ Goto(i, "read", "write")
  /\ declared[Place(i)] \in Names
  /\ name' = [name EXCEPT ![i] = declared[Place(i)]]
  /\ since' = [since EXCEPT ![i] = now]
  /\ UNCHANGED <<world, cache, typedData, cleared, answer>>

\* A failed read: deterministic when the contract declares no domain, which
\* a revert with evidence or empty return data shows, otherwise transport.
isGenuineRevert(i) == declared[Place(i)] = NoDomain

ReadFails(i) ==
  /\ \E status \in {503} \cup (IF isGenuineRevert(i) THEN {404} ELSE {}) :
       Return(i, "read", Err(status))
  /\ UNCHANGED <<world, cache, found, typedData, cleared>>

\* The value is written back, its life counted from the write, not the read.
CacheSet(i) ==
  /\ Goto(i, "write", "found")
  /\ DomainCache!Put(Key(i), name[i], Ttl)
  /\ since' = [since EXCEPT ![i] = now]
  /\ UNCHANGED <<world, name, typedData, cleared, answer>>

\* A write that throws is swallowed; without a cache there is none.
CacheSetThrows(i) ==
  /\ Goto(i, "write", "found")
  /\ since' = [since EXCEPT ![i] = now]
  /\ UNCHANGED <<world, cache, name, typedData, cleared, answer>>

\* The payload is built over the domain the call found and sent to be signed.
BuildTypedData(i) ==
  LET domain == Domain(body[i], name[i]) IN
  /\ Goto(i, "found", "sign")
  /\ assertDomainMatches(domain, body[i])
  /\ typedData' = [typedData EXCEPT ![i] = TypedDataOf(domain, body[i], Guardian)]
  /\ since' = [since EXCEPT ![i] = now]
  /\ UNCHANGED <<world, cache, name, cleared, answer>>

\* The signer comes back, whatever its backend did.  An error is returned as
\* it is, a signature with the hash of the payload.
SignerReturns(i) ==
  /\ LET others == {typedData[j] : j \in Calls \ {i}} \ {None} IN
     \E reply \in Replies(Provider[i], typedData[i], others) :
       LET result == signTypedData(Provider[i], typedData[i], reply) IN
       Return(i, "sign",
              IF result.status = 200
              THEN [status |-> 200, signature |-> result.signature, payloadHash |-> typedData[i]]
              ELSE result)
  /\ UNCHANGED <<world, cache, found, typedData, cleared>>

Step(i) ==
  \/ ChecksFail(i) \/ ChecksPass(i) \/ CacheHit(i) \/ CacheMiss(i)
  \/ ReadDomain(i) \/ ReadFails(i) \/ CacheSet(i) \/ CacheSetThrows(i)
  \/ BuildTypedData(i) \/ SignerReturns(i)

(* ---------------------------- the world ------------------------------- *)

\* A contract is upgraded and declares something else.
Upgrade ==
  /\ upgrades < MaxUpgrades /\ upgrades' = upgrades + 1
  /\ \E p \in Watched, d \in Names \cup {NoDomain} :
       /\ d # declared[p]
       /\ declared' = [declared EXCEPT ![p] = d]
       /\ declaredAt' = [declaredAt EXCEPT ![p] =
            [n \in Names |-> IF n = d THEN now ELSE declaredAt[p][n]]]
  /\ UNCHANGED <<body, now, cache, pc, found, typedData, cleared, answer>>

\* Time passes, but nothing stays in flight for longer than Latency.
Tick ==
  /\ now < MaxTime /\ now' = now + 1
  /\ \A i \in Calls : pc[i] \in {"write", "found"} => now < since[i] + Latency
  /\ declaredAt' = [p \in Places |-> [n \in Names |->
       IF n = declared[p] THEN now + 1 ELSE declaredAt[p][n]]]
  /\ UNCHANGED <<body, declared, upgrades, cache, pc, found, typedData, cleared, answer>>

\* The cache forgets what it likes.
Forget ==
  /\ \E p \in Places : cache[p] # None /\ cache' = [cache EXCEPT ![p] = None]
  /\ UNCHANGED <<world, pc, found, typedData, cleared, answer>>

Next == (\E i \in Calls : Step(i)) \/ Upgrade \/ Tick \/ Forget

Spec == Init /\ [][Next]_vars

(* --------------------------- properties ------------------------------- *)

\* How old a domain may be when it is signed under: the life of an entry, the
\* time its value was under way to the cache, and the time from the cache to
\* the payload.
MaxAge == Ttl + 2 * Latency

\* A Guardian signature is only good for the domain its contract declares, and
\* contracts are upgraded.  The name and version signed under were declared by
\* the contract of the request, on its chain, no longer ago than MaxAge: the
\* back-fill of a slow read after an upgrade cannot extend that
\* (fetchEip712DomainNameVersion, cache back-fill with ttlMs).
SignedDomainIsRecent ==
  \A i \in Calls : typedData[i] # None =>
    LET d == typedData[i].domain IN
    /\ declaredAt[<<d.chain, d.verifier>>][d.name] >= 0
    /\ declaredAt[<<d.chain, d.verifier>>][d.name] >= since[i] - MaxAge

\* What the runner returns as signed passed its checks, recovers to the
\* Guardian over the hash it returns, whatever the signer's backend answered,
\* and that hash is of the request's own operation, contract, chain and message
\* (makeSign*, the signers, the builders).
SignedWhatWasAsked ==
  \A i \in Calls : answer[i] # None /\ answer[i].status = 200 =>
    LET hash == answer[i].payloadHash IN
    /\ i \in cleared
    /\ recoverAddress(hash, answer[i].signature) = Guardian
    /\ <<hash.domain.chain, hash.domain.verifier>> = Place(i)
    /\ hash.primaryType = PrimaryType(body[i].kind)
    /\ hash.message = Message(body[i], Guardian)

\* Two requests are the same to the contract when they differ at most in the
\* order of the legs of a swap.
SameRequest(b, c) ==
  /\ b.kind = c.kind /\ b.chain = c.chain /\ b.target = c.target
  /\ b.deadline = c.deadline
  /\ b.kind = "swap" => c.what \in {b.what, <<b.what[2], b.what[1]>>}
  /\ b.kind # "swap" => b.what = c.what
  /\ b.kind \in {"whitelist", "unwhitelist"} => b.nonce = c.nonce

\* A signature for one request is never one for another, and swaps that differ
\* only in the order of their legs get the same payload as long as the contract
\* keeps its domain (canonicaliseSwapLegs; the builders' types and messages).
OnePayloadPerRequest ==
  \A i, j \in Calls : typedData[i] # None /\ typedData[j] # None =>
    (typedData[i] = typedData[j]
       <=> SameRequest(body[i], body[j])
             /\ typedData[i].domain.name = typedData[j].domain.name)
===========================================================================
