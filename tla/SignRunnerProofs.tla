-------------------------- MODULE SignRunnerProofs --------------------------
(***************************************************************************)
(* Proofs about SignRunner: for any number of calls, contracts, upgrades   *)
(* and failures of cache, node and signer, a domain signed under is        *)
(* recent, what is returned as signed is what was asked for, and one       *)
(* request has one payload.                                                *)
(***************************************************************************)
EXTENDS SignRunner, TLAPS

-----------------------------------------------------------------------------
(* The inductive invariant.                                                *)

Pcs == {"checks", "lookup", "read", "write", "found", "sign", "done"}

CacheEntry == [value : Names, expires : Int]

\* Payloads and answers are of no set of their own: of them only that there is
\* one for each call.
TypeOK ==
  /\ body \in Workloads
  /\ now \in Nat
  /\ declared \in [Places -> Names \cup {NoDomain}]
  /\ declaredAt \in [Places -> [Names -> Int]]
  /\ cache \in [Places -> {None} \cup CacheEntry]
  /\ pc \in [Calls -> Pcs]
  /\ since \in [Calls -> Int]
  /\ name \in [Calls -> Names \cup {None}]
  /\ typedData = [i \in Calls |-> typedData[i]]
  /\ cleared \subseteq Calls
  /\ answer = [i \in Calls |-> answer[i]]

\* What a contract declares it declares now, and nothing is declared later.
ClockInv ==
  \A p \in Places : \A n \in Names :
    /\ declaredAt[p][n] <= now
    /\ declared[p] = n => declaredAt[p][n] = now

\* n was declared at p, and at t or later.
DeclaredSince(p, n, t) ==
  /\ n \in Names
  /\ declaredAt[p][n] >= 0
  /\ declaredAt[p][n] >= t

\* A cache entry was read no longer than Latency before it was written.
CacheInv ==
  \A p \in Places : cache[p] # None =>
    DeclaredSince(p, cache[p].value, cache[p].expires - Ttl - Latency)

PayloadOf(i) == TypedDataOf(Domain(body[i], name[i]), body[i], Guardian)

\* The payload is of the call's own request and a recent domain.
Bound(i) ==
  /\ typedData[i] = PayloadOf(i)
  /\ i \in cleared
  /\ DeclaredSince(Place(i), name[i], since[i] - MaxAge)

CallInv(i) ==
  /\ pc[i] \in {"checks", "lookup", "read", "write", "found"} => typedData[i] = None
  /\ pc[i] \in {"lookup", "read", "write", "found", "sign"} => i \in cleared
  /\ pc[i] = "write" => /\ DeclaredSince(Place(i), name[i], since[i])
                        /\ now <= since[i] + Latency
  /\ pc[i] = "found" => /\ DeclaredSince(Place(i), name[i], since[i] - Ttl - Latency)
                        /\ now <= since[i] + Latency
  /\ pc[i] = "sign" => Bound(i)
  /\ typedData[i] # None => pc[i] \in {"sign", "done"} /\ Bound(i)

IInv ==
  /\ TypeOK /\ ClockInv /\ CacheInv
  /\ \A i \in Calls : CallInv(i)

-----------------------------------------------------------------------------
(* Lemmas.                                                                 *)

LEMMA PlacesNamed ==
  ASSUME NEW i \in Calls, body \in Workloads
  PROVE  Place(i) \in Places /\ Key(i) = Place(i)
  BY BodiesNamePlaces DEF Place, Key, eip712DomainCacheKey

\* Whatever its backend answers, a signer returns no signature that does not
\* recover to the Guardian.
LEMMA SignerSound ==
  ASSUME NEW provider \in Providers, NEW digest, NEW others,
         NEW reply \in Replies(provider, digest, others),
         signTypedData(provider, digest, reply).status = 200
  PROVE  recoverAddress(digest, signTypedData(provider, digest, reply).signature) = Guardian
<1>. DEFINE result == signTypedData(provider, digest, reply)
<1>1. CASE provider = "private_key"
  <2>1. result = IF reply.what = "signature" THEN Ok(reply.sig) ELSE Err(500)
    BY <1>1 DEF signTypedData, privateKeyToSignTypedData, Kms
  <2>2. reply.what = "signature"
    BY <2>1 DEF Err
  <2>3. reply \in {r \in [what : {"signature"},
                        sig : [by : {Guardian}, over : {digest}, bit : {0}, v : {0, 1}]] :
                     r.sig.v = r.sig.bit} \cup [what : {"threw"}]
    BY <1>1 DEF Replies, Kms
  <2>4. reply.sig.by = Guardian /\ reply.sig.over = digest /\ reply.sig.v = reply.sig.bit
    BY <2>2, <2>3
  <2>. QED
    BY <2>1, <2>2, <2>4 DEF Ok, recoverAddress
<1>2. CASE provider \in Kms
  <2>. DEFINE usable == ethereumSignatureFromDer(digest, reply.sig)
  <2>1. result = kmsSignTypedData(digest, reply)
    BY <1>2 DEF signTypedData, Kms
  <2>2. reply.what = "signature" /\ usable # {}
    BY <2>1 DEF kmsSignTypedData, Err
  <2>3. result = Ok(CHOOSE s \in usable : TRUE)
    BY <2>1, <2>2 DEF kmsSignTypedData
  <2>4. (CHOOSE s \in usable : TRUE) \in usable
    BY <2>2
  <2>5. \A s \in usable : recoverAddress(digest, s) = Guardian
    BY DEF ethereumSignatureFromDer
  <2>. QED
    BY <2>3, <2>4, <2>5 DEF Ok
<1>3. CASE provider = "remote_http"
  <2>1. result = remoteHttpSignTypedData(digest, reply)
    BY <1>3 DEF signTypedData, Kms
  <2>2. reply.what \in NoReply \cup HttpReply \cup {"broken", "signature"}
    BY <1>3 DEF Replies, Kms
  <2>3. reply.what = "signature" /\ recoverAddress(digest, reply.sig) = Guardian
    BY <2>1, <2>2 DEF remoteHttpSignTypedData, Err, NoReply, HttpReply
  <2>4. result = Ok(reply.sig)
    BY <2>1, <2>3 DEF remoteHttpSignTypedData, NoReply
  <2>. QED
    BY <2>3, <2>4 DEF Ok
<1>. QED
  BY <1>1, <1>2, <1>3 DEF Providers, Kms

\* What a call knows stays true while it is not its turn.
LEMMA OtherCalls ==
  ASSUME NEW j \in Calls, CallInv(j), UNCHANGED world,
         pc'[j] = pc[j], since'[j] = since[j], name'[j] = name[j],
         typedData'[j] = typedData[j], cleared \subseteq cleared'
  PROVE  CallInv(j)'
  BY DEF CallInv, Bound, PayloadOf, Place, DeclaredSince, world

\* Time and upgrades only make a declaration more recent.
LEMMA DeclaredStays ==
  ASSUME NEW p, NEW n, NEW t \in Int,
         declaredAt[p][n] \in Int, declaredAt'[p][n] \in Int,
         declaredAt'[p][n] >= declaredAt[p][n], DeclaredSince(p, n, t)
  PROVE  DeclaredSince(p, n, t)'
  BY DEF DeclaredSince

-----------------------------------------------------------------------------
(* IInv is inductive.                                                      *)

LEMMA InitIInv == Init => IInv
<1>. SUFFICES ASSUME Init PROVE IInv
  OBVIOUS
<1>1. declared \in [Places -> Names \cup {NoDomain}]
  BY DEF Init
<1>2. TypeOK
  BY <1>1 DEF Init, TypeOK, Pcs
<1>3. ClockInv
  BY DEF Init, ClockInv
<1>4. CacheInv
  BY DEF Init, CacheInv
<1>5. \A i \in Calls : CallInv(i)
  BY DEF Init, CallInv
<1>. QED
  BY <1>2, <1>3, <1>4, <1>5 DEF IInv

\* The steps of one call.
LEMMA StepIInv ==
  ASSUME IInv, NEW i \in Calls, Step(i)
  PROVE  IInv'
<1>. USE PlacesNamed, TimesAreNat, NothingApart
<1>0. /\ TypeOK /\ ClockInv /\ CacheInv /\ CallInv(i)
      /\ \A j \in Calls : CallInv(j)
  BY DEF IInv
<1>. DEFINE Same == \A j \in Calls \ {i} :
                /\ pc'[j] = pc[j] /\ since'[j] = since[j]
                /\ name'[j] = name[j] /\ typedData'[j] = typedData[j]
<1>01. ASSUME Same, UNCHANGED world, cleared \subseteq cleared', CallInv(i)'
       PROVE  \A j \in Calls : CallInv(j)'
  BY <1>0, <1>01, OtherCalls
<1>02. ASSUME UNCHANGED <<world, cache>>
       PROVE  ClockInv' /\ CacheInv'
  BY <1>0, <1>02 DEF ClockInv, CacheInv, DeclaredSince, world
<1>1. CASE ChecksFail(i)
  <2>0. PICK result : Return(i, "checks", result)
    BY <1>1 DEF ChecksFail
  <2>1. TypeOK' /\ Same
    <3>1. UNCHANGED <<world, cache, found, typedData, cleared>>
      BY <1>1 DEF ChecksFail
    <3>. QED
      BY <1>0, <2>0, <3>1 DEF Return, Goto, TypeOK, Pcs, world, found
  <2>2. CallInv(i)'
    BY <1>0, <1>1 DEF ChecksFail, Return, Goto, TypeOK, Pcs, world, found, CallInv
  <2>. QED
    BY <1>1, <2>1, <2>2, <1>01, <1>02 DEF ChecksFail, IInv
<1>2. CASE ChecksPass(i)
  <2>1. TypeOK' /\ Same
    BY <1>0, <1>2 DEF ChecksPass, Goto, TypeOK, Pcs, world, found
  <2>2. CallInv(i)'
    BY <1>0, <1>2 DEF ChecksPass, Goto, TypeOK, Pcs, world, found, CallInv
  <2>. QED
    BY <1>2, <2>1, <2>2, <1>01, <1>02 DEF ChecksPass, IInv
<1>3. CASE CacheHit(i)
  <2>1. /\ Key(i) = Place(i) /\ Place(i) \in Places
        /\ cache[Place(i)] \in CacheEntry /\ cache[Place(i)] # None
        /\ now < cache[Place(i)].expires
    BY <1>0, <1>3 DEF CacheHit, DomainCache!Hit, TypeOK
  <2>2. TypeOK' /\ Same
    BY <1>0, <1>3, <2>1 DEF CacheHit, Goto, TypeOK, Pcs, CacheEntry, world
  <2>3. DeclaredSince(Place(i), cache[Place(i)].value, now - Ttl - Latency)
    <3>1. DeclaredSince(Place(i), cache[Place(i)].value,
                        cache[Place(i)].expires - Ttl - Latency)
      BY <1>0, <2>1 DEF CacheInv
    <3>2. declaredAt[Place(i)][cache[Place(i)].value] \in Int
      BY <1>0, <2>1, <3>1 DEF TypeOK, DeclaredSince
    <3>. QED
      BY <1>0, <2>1, <3>1, <3>2 DEF DeclaredSince, CacheEntry, TypeOK
  <2>4. /\ pc'[i] = "found" /\ since'[i] = now /\ now' = now
        /\ name'[i] = cache[Place(i)].value /\ typedData'[i] = typedData[i]
        /\ typedData[i] = None /\ i \in cleared' /\ Place(i)' = Place(i)
        /\ declaredAt' = declaredAt
    BY <1>0, <1>3, <2>1 DEF CacheHit, Goto, TypeOK, CallInv, world, Place
  <2>5. CallInv(i)'
    BY <1>0, <2>3, <2>4 DEF CallInv, DeclaredSince, TypeOK
  <2>. QED
    BY <1>3, <2>2, <2>5, <1>01, <1>02 DEF CacheHit, IInv
<1>4. CASE CacheMiss(i)
  <2>1. TypeOK' /\ Same
    BY <1>0, <1>4 DEF CacheMiss, Goto, TypeOK, Pcs, world, found
  <2>2. CallInv(i)'
    BY <1>0, <1>4 DEF CacheMiss, Goto, TypeOK, Pcs, world, found, CallInv
  <2>. QED
    BY <1>4, <2>1, <2>2, <1>01, <1>02 DEF CacheMiss, IInv
<1>5. CASE ReadDomain(i)
  <2>0. Place(i) \in Places
    BY <1>0 DEF TypeOK
  <2>1. TypeOK' /\ Same
    BY <1>0, <1>5 DEF ReadDomain, Goto, TypeOK, Pcs, world
  <2>2. DeclaredSince(Place(i), declared[Place(i)], now)
    BY <1>0, <1>5, <2>0 DEF ReadDomain, ClockInv, DeclaredSince, TypeOK
  <2>3. /\ pc'[i] = "write" /\ since'[i] = now /\ now' = now
        /\ name'[i] = declared[Place(i)] /\ typedData'[i] = typedData[i]
        /\ typedData[i] = None /\ i \in cleared' /\ Place(i)' = Place(i)
        /\ declaredAt' = declaredAt
    BY <1>0, <1>5 DEF ReadDomain, Goto, TypeOK, CallInv, world, Place
  <2>4. CallInv(i)'
    BY <1>0, <2>2, <2>3 DEF CallInv, DeclaredSince, TypeOK
  <2>. QED
    BY <1>5, <2>1, <2>4, <1>01, <1>02 DEF ReadDomain, IInv
<1>6. CASE ReadFails(i)
  <2>0. PICK result : Return(i, "read", result)
    BY <1>6 DEF ReadFails
  <2>1. TypeOK' /\ Same
    <3>1. UNCHANGED <<world, cache, found, typedData, cleared>>
      BY <1>6 DEF ReadFails
    <3>. QED
      BY <1>0, <2>0, <3>1 DEF Return, Goto, TypeOK, Pcs, world, found
  <2>2. CallInv(i)'
    BY <1>0, <1>6 DEF ReadFails, Return, Goto, TypeOK, Pcs, world, found, CallInv
  <2>. QED
    BY <1>6, <2>1, <2>2, <1>01, <1>02 DEF ReadFails, IInv
<1>7. CASE CacheSet(i)
  <2>1. Place(i) \in Places /\ DeclaredSince(Place(i), name[i], since[i])
        /\ now <= since[i] + Latency /\ Key(i) = Place(i)
    BY <1>0, <1>7 DEF CacheSet, Goto, CallInv, TypeOK
  <2>2. DeclaredSince(Place(i), name[i], now - Latency)
    <3>1. declaredAt[Place(i)][name[i]] \in Int /\ since[i] \in Int /\ now \in Int
      BY <1>0, <2>1 DEF TypeOK, DeclaredSince
    <3>. QED
      BY <2>1, <3>1 DEF DeclaredSince
  <2>3. cache' = [cache EXCEPT ![Place(i)] = [value |-> name[i], expires |-> now + Ttl]]
    BY <1>7, <2>1 DEF CacheSet, DomainCache!Put, DomainCache!Fresh
  <2>4. [value |-> name[i], expires |-> now + Ttl] \in CacheEntry
    BY <1>0, <2>1 DEF CacheEntry, DeclaredSince, TypeOK
  <2>5. TypeOK' /\ Same
    BY <1>0, <1>7, <2>3, <2>4 DEF CacheSet, Goto, TypeOK, Pcs, world
  <2>6. CacheInv'
    <3>. SUFFICES ASSUME NEW p \in Places, cache'[p] # None
                  PROVE  DeclaredSince(p, cache'[p].value, cache'[p].expires - Ttl - Latency)
      BY <1>7 DEF CacheSet, CacheInv, DeclaredSince, world
    <3>1. CASE p = Place(i)
      <4>1. cache'[p] = [value |-> name[i], expires |-> now + Ttl]
        BY <1>0, <2>3, <3>1 DEF TypeOK
      <4>2. cache'[p].value = name[i] /\ cache'[p].expires - Ttl - Latency = now - Latency
        BY <1>0, <4>1 DEF TypeOK
      <4>. QED
        BY <2>2, <3>1, <4>2 DEF DeclaredSince
    <3>2. CASE p # Place(i)
      BY <1>0, <2>3, <3>2 DEF TypeOK, CacheInv
    <3>. QED
      BY <3>1, <3>2
  <2>7. ClockInv'
    BY <1>0, <1>7 DEF CacheSet, ClockInv, world
  <2>8. /\ pc'[i] = "found" /\ since'[i] = now /\ now' = now
        /\ name'[i] = name[i] /\ typedData'[i] = typedData[i]
        /\ typedData[i] = None /\ i \in cleared' /\ Place(i)' = Place(i)
        /\ declaredAt' = declaredAt
    BY <1>0, <1>7 DEF CacheSet, Goto, TypeOK, CallInv, world, Place
  <2>9. CallInv(i)'
    <3>1. DeclaredSince(Place(i), name[i], now - Ttl - Latency)
      BY <1>0, <2>1, <2>2 DEF DeclaredSince, TypeOK
    <3>. QED
      BY <1>0, <2>8, <3>1 DEF CallInv, DeclaredSince, TypeOK
  <2>. QED
    BY <1>7, <2>5, <2>6, <2>7, <2>9, <1>01 DEF CacheSet, IInv
<1>8. CASE CacheSetThrows(i)
  <2>1. Place(i) \in Places /\ DeclaredSince(Place(i), name[i], since[i])
        /\ now <= since[i] + Latency
    BY <1>0, <1>8 DEF CacheSetThrows, Goto, CallInv, TypeOK
  <2>2. DeclaredSince(Place(i), name[i], now - Ttl - Latency)
    <3>1. declaredAt[Place(i)][name[i]] \in Int /\ since[i] \in Int /\ now \in Int
      BY <1>0, <2>1 DEF TypeOK, DeclaredSince
    <3>. QED
      BY <2>1, <3>1 DEF DeclaredSince
  <2>3. TypeOK' /\ Same
    BY <1>0, <1>8 DEF CacheSetThrows, Goto, TypeOK, Pcs, world
  <2>4. /\ pc'[i] = "found" /\ since'[i] = now /\ now' = now
        /\ name'[i] = name[i] /\ typedData'[i] = typedData[i]
        /\ typedData[i] = None /\ i \in cleared' /\ Place(i)' = Place(i)
        /\ declaredAt' = declaredAt
    BY <1>0, <1>8 DEF CacheSetThrows, Goto, TypeOK, CallInv, world, Place
  <2>5. CallInv(i)'
    BY <1>0, <2>2, <2>4 DEF CallInv, DeclaredSince, TypeOK
  <2>. QED
    BY <1>8, <2>3, <2>5, <1>01, <1>02 DEF CacheSetThrows, IInv
<1>9. CASE BuildTypedData(i)
  <2>1. Place(i) \in Places /\ DeclaredSince(Place(i), name[i], since[i] - Ttl - Latency)
        /\ now <= since[i] + Latency
    BY <1>0, <1>9 DEF BuildTypedData, Goto, CallInv, TypeOK
  <2>2. DeclaredSince(Place(i), name[i], now - MaxAge)
    <3>1. declaredAt[Place(i)][name[i]] \in Int /\ since[i] \in Int /\ now \in Int
      BY <1>0, <2>1 DEF TypeOK, DeclaredSince
    <3>. QED
      BY <2>1, <3>1 DEF DeclaredSince, MaxAge
  <2>3. TypeOK' /\ Same
    <3>1. PICK payload : typedData' = [typedData EXCEPT ![i] = payload]
      BY <1>9 DEF BuildTypedData
    <3>2. /\ Goto(i, "found", "sign") /\ since' = [since EXCEPT ![i] = now]
          /\ UNCHANGED <<world, cache, name, cleared, answer>>
      BY <1>9 DEF BuildTypedData
    <3>3. Same
      BY <1>0, <3>1, <3>2 DEF Goto, TypeOK
    <3>4. typedData' = [j \in Calls |-> typedData'[j]]
      BY <1>0, <3>1 DEF TypeOK
    <3>5. /\ body' = body /\ now' = now /\ declared' = declared
          /\ declaredAt' = declaredAt /\ cache' = cache /\ name' = name
          /\ cleared' = cleared /\ answer' = answer
      BY <3>2 DEF world
    <3>6. pc' \in [Calls -> Pcs] /\ since' \in [Calls -> Int]
      BY <1>0, <3>2 DEF Goto, TypeOK, Pcs
    <3>. QED
      BY <1>0, <3>3, <3>4, <3>5, <3>6 DEF TypeOK
  <2>4. /\ pc'[i] = "sign" /\ since'[i] = now /\ now' = now
        /\ typedData'[i] = PayloadOf(i) /\ PayloadOf(i)' = PayloadOf(i)
        /\ i \in cleared' /\ Place(i)' = Place(i) /\ name'[i] = name[i]
        /\ declaredAt' = declaredAt
    BY <1>0, <1>9 DEF BuildTypedData, Goto, TypeOK, CallInv, world, Place, PayloadOf
  <2>5. Bound(i)'
    BY <2>2, <2>4 DEF Bound, DeclaredSince, MaxAge
  <2>6. CallInv(i)'
    BY <2>4, <2>5 DEF CallInv
  <2>. QED
    BY <1>9, <2>3, <2>6, <1>01, <1>02 DEF BuildTypedData, IInv
<1>10. CASE SignerReturns(i)
  <2>0. PICK result : Return(i, "sign", result)
    BY <1>10 DEF SignerReturns
  <2>1. TypeOK' /\ Same
    BY <1>0, <1>10, <2>0 DEF SignerReturns, Return, Goto, TypeOK, Pcs, world, found
  <2>2. Bound(i)' /\ pc'[i] = "done"
    BY <1>0, <1>10, <2>0 DEF SignerReturns, Return, Goto, TypeOK, world, found, CallInv,
                             Bound, PayloadOf, Place, DeclaredSince
  <2>3. CallInv(i)'
    BY <2>2 DEF CallInv
  <2>. QED
    BY <1>10, <2>1, <2>3, <1>01, <1>02 DEF SignerReturns, IInv
<1>. QED
  BY <1>1, <1>2, <1>3, <1>4, <1>5, <1>6, <1>7, <1>8, <1>9, <1>10 DEF Step

\* The steps of the world.
LEMMA WorldIInv ==
  ASSUME IInv, Upgrade \/ Tick \/ Forget \/ UNCHANGED vars
  PROVE  IInv'
<1>. USE PlacesNamed, TimesAreNat, NothingApart
<1>0. /\ TypeOK /\ ClockInv /\ CacheInv
      /\ \A j \in Calls : CallInv(j)
  BY DEF IInv
<1>1. ASSUME Upgrade \/ Tick
      PROVE  /\ now' \in Nat /\ now' >= now
             /\ declared' \in [Places -> Names \cup {NoDomain}]
             /\ declaredAt' \in [Places -> [Names -> Int]]
             /\ \A p \in Places, n \in Names : declaredAt'[p][n] >= declaredAt[p][n]
             /\ ClockInv'
             /\ UNCHANGED <<body, cache, pc, found, typedData, cleared, answer>>
  <2>1. CASE Upgrade
    <3>0. Watched \subseteq Places
      BY <1>0 DEF Watched, TypeOK
    <3>1. PICK p \in Places, d \in Names \cup {NoDomain} :
            /\ declared' = [declared EXCEPT ![p] = d]
            /\ declaredAt' = [declaredAt EXCEPT ![p] =
                 [n \in Names |-> IF n = d THEN now ELSE declaredAt[p][n]]]
      BY <2>1, <3>0 DEF Upgrade
    <3>2. now' = now /\ UNCHANGED <<body, cache, pc, found, typedData, cleared, answer>>
      BY <2>1 DEF Upgrade
    <3>3. /\ declared' \in [Places -> Names \cup {NoDomain}]
          /\ declaredAt' \in [Places -> [Names -> Int]]
      BY <1>0, <3>1 DEF TypeOK
    <3>4. \A q \in Places, n \in Names :
            declaredAt'[q][n] = IF q = p /\ n = d THEN now ELSE declaredAt[q][n]
      BY <1>0, <3>1 DEF TypeOK
    <3>5. \A q \in Places : declared'[q] = IF q = p THEN d ELSE declared[q]
      BY <1>0, <3>1 DEF TypeOK
    <3>6. \A q \in Places, n \in Names : declaredAt[q][n] \in Int /\ now \in Nat
      BY <1>0 DEF TypeOK
    <3>7. \A q \in Places, n \in Names : declaredAt'[q][n] >= declaredAt[q][n]
      BY <1>0, <3>4, <3>6 DEF ClockInv
    <3>8. ClockInv'
      BY <1>0, <3>2, <3>4, <3>5, <3>6 DEF ClockInv
    <3>. QED
      BY <1>0, <3>2, <3>3, <3>6, <3>7, <3>8 DEF TypeOK
  <2>2. CASE Tick
    <3>1. /\ now' = now + 1 /\ declared' = declared
          /\ declaredAt' = [p \in Places |-> [n \in Names |->
               IF n = declared[p] THEN now + 1 ELSE declaredAt[p][n]]]
          /\ UNCHANGED <<body, cache, pc, found, typedData, cleared, answer>>
      BY <2>2 DEF Tick
    <3>2. \A q \in Places, n \in Names : declaredAt[q][n] \in Int /\ now \in Nat
      BY <1>0 DEF TypeOK
    <3>3. \A q \in Places, n \in Names :
            /\ declaredAt'[q][n] = IF n = declared[q] THEN now + 1 ELSE declaredAt[q][n]
            /\ declaredAt'[q][n] >= declaredAt[q][n]
      BY <1>0, <3>1, <3>2 DEF ClockInv
    <3>4. ClockInv'
      BY <1>0, <3>1, <3>2, <3>3 DEF ClockInv
    <3>. QED
      BY <1>0, <3>1, <3>3, <3>4 DEF TypeOK
  <2>. QED
    BY <1>1, <2>1, <2>2
<1>2. CASE Upgrade \/ Tick
  <2>1. TypeOK'
    BY <1>0, <1>1, <1>2 DEF TypeOK, found
  <2>2. \A p \in Places, n \in Names, t \in Int : DeclaredSince(p, n, t) => DeclaredSince(p, n, t)'
    BY <1>0, <1>1, <1>2, DeclaredStays DEF TypeOK
  <2>3. CacheInv'
    <3>. SUFFICES ASSUME NEW p \in Places, cache[p] # None
                  PROVE  DeclaredSince(p, cache[p].value, cache[p].expires - Ttl - Latency)'
      BY <1>1, <1>2 DEF CacheInv, DeclaredSince
    <3>1. cache[p] \in CacheEntry
      BY <1>0 DEF TypeOK
    <3>. QED
      BY <1>0, <2>2, <3>1, <1>1, <1>2 DEF CacheInv, CacheEntry, DeclaredSince
  <2>4. ASSUME NEW j \in Calls PROVE CallInv(j)'
    <3>1. /\ pc'[j] = pc[j] /\ since'[j] = since[j] /\ name'[j] = name[j]
          /\ typedData'[j] = typedData[j] /\ cleared' = cleared /\ body' = body
      BY <1>1, <1>2 DEF found
    <3>2. Place(j) \in Places /\ Place(j)' = Place(j) /\ PayloadOf(j)' = PayloadOf(j)
      BY <1>0, <3>1 DEF TypeOK, Place, PayloadOf
    <3>3. since[j] \in Int /\ now \in Int
      BY <1>0 DEF TypeOK
    <3>4. ASSUME NEW t \in Int, DeclaredSince(Place(j), name[j], t)
          PROVE  /\ name[j] \in Names /\ declaredAt'[Place(j)][name[j]] >= 0
                 /\ declaredAt'[Place(j)][name[j]] >= t
      BY <2>2, <3>2, <3>4 DEF DeclaredSince
    <3>5. pc[j] \in {"write", "found"} => now' <= since[j] + Latency
      <4>1. CASE Upgrade
        BY <1>0, <4>1 DEF Upgrade, CallInv
      <4>2. CASE Tick
        <5>1. pc[j] \in {"write", "found"} => now < since[j] + Latency /\ now' = now + 1
          BY <4>2 DEF Tick
        <5>. QED
          BY <3>3, <5>1
      <4>. QED
        BY <1>2, <4>1, <4>2
    <3>6. Bound(j) => Bound(j)'
      <4>. SUFFICES ASSUME Bound(j) PROVE Bound(j)'
        OBVIOUS
      <4>1. DeclaredSince(Place(j), name[j], since[j] - MaxAge)'
        <5>1. since[j] - MaxAge \in Int /\ MaxAge' = MaxAge
          BY <3>3 DEF MaxAge
        <5>. QED
          BY <3>1, <3>2, <3>4, <5>1 DEF Bound, DeclaredSince
      <4>. QED
        BY <3>1, <3>2, <4>1 DEF Bound
    <3>7. pc[j] = "write" => DeclaredSince(Place(j), name[j], since[j])'
      BY <1>0, <3>1, <3>2, <3>3, <3>4 DEF CallInv, DeclaredSince
    <3>8. pc[j] = "found" => DeclaredSince(Place(j), name[j], since[j] - Ttl - Latency)'
      BY <1>0, <3>1, <3>2, <3>3, <3>4 DEF CallInv, DeclaredSince
    <3>. QED
      BY <1>0, <3>1, <3>2, <3>5, <3>6, <3>7, <3>8 DEF CallInv, DeclaredSince
  <2>. QED
    BY <1>1, <1>2, <2>1, <2>3, <2>4 DEF IInv
<1>3. CASE Forget
  <2>1. PICK p \in Places : cache' = [cache EXCEPT ![p] = None]
    BY <1>3 DEF Forget
  <2>2. UNCHANGED <<world, pc, found, typedData, cleared, answer>>
    BY <1>3 DEF Forget
  <2>3. TypeOK'
    BY <1>0, <2>1, <2>2 DEF TypeOK, world, found
  <2>4. CacheInv'
    BY <1>0, <2>1, <2>2 DEF CacheInv, TypeOK, DeclaredSince, world
  <2>5. ClockInv'
    BY <1>0, <2>2 DEF ClockInv, world
  <2>6. \A j \in Calls : CallInv(j)'
    BY <1>0, <2>2, OtherCalls DEF found
  <2>. QED
    BY <2>3, <2>4, <2>5, <2>6 DEF IInv
<1>4. CASE UNCHANGED vars
  <2>1. TypeOK'
    BY <1>0, <1>4 DEF TypeOK, vars, world, found
  <2>2. CacheInv' /\ ClockInv'
    BY <1>0, <1>4 DEF CacheInv, ClockInv, DeclaredSince, vars, world
  <2>3. \A j \in Calls : CallInv(j)'
    BY <1>0, <1>4, OtherCalls DEF vars, found
  <2>. QED
    BY <2>1, <2>2, <2>3 DEF IInv
<1>. QED
  BY <1>2, <1>3, <1>4

LEMMA NextIInv == IInv /\ [Next]_vars => IInv'
  BY StepIInv, WorldIInv DEF Next

LEMMA SpecIInv == Spec => []IInv
  BY InitIInv, NextIInv, PTL DEF Spec

-----------------------------------------------------------------------------
(* The theorems.                                                           *)

\* Every call keeps its variables of their types, whatever fails.
THEOREM TypeCorrect == Spec => []TypeOK
<1>1. IInv => TypeOK
  BY DEF IInv
<1>. QED
  BY <1>1, SpecIInv, PTL

\* For every life of an entry and every latency, the domain a request is signed
\* under was declared by its contract no longer than MaxAge ago, across back-fills
\* and upgrades.
THEOREM SignedDomainIsRecentCorrect == Spec => []SignedDomainIsRecent
<1>1. ASSUME IInv PROVE SignedDomainIsRecent
  <2>. SUFFICES ASSUME NEW i \in Calls, typedData[i] # None
                PROVE  LET d == typedData[i].domain IN
                       /\ declaredAt[<<d.chain, d.verifier>>][d.name] >= 0
                       /\ declaredAt[<<d.chain, d.verifier>>][d.name] >= since[i] - MaxAge
    BY DEF SignedDomainIsRecent
  <2>1. Bound(i)
    BY <1>1 DEF IInv, CallInv
  <2>2. typedData[i].domain = Domain(body[i], name[i])
    BY <2>1 DEF Bound, PayloadOf, TypedDataOf
  <2>. QED
    BY <2>1, <2>2 DEF Bound, Domain, DeclaredSince, Place
<1>. QED
  BY <1>1, SpecIInv, PTL

\* What one call returns as signed is what it asked for.
Honest(i) ==
  answer[i] # None /\ answer[i].status = 200 =>
    LET hash == answer[i].payloadHash IN
    /\ i \in cleared
    /\ recoverAddress(hash, answer[i].signature) = Guardian
    /\ <<hash.domain.chain, hash.domain.verifier>> = Place(i)
    /\ hash.primaryType = PrimaryType(body[i].kind)
    /\ hash.message = Message(body[i], Guardian)

LEMMA SignerHonest ==
  ASSUME IInv, NEW i \in Calls, SignerReturns(i)
  PROVE  Honest(i)'
<1>. DEFINE others == {typedData[j] : j \in Calls \ {i}} \ {None}
            result(reply) == signTypedData(Provider[i], typedData[i], reply)
<1>1. PICK reply \in Replies(Provider[i], typedData[i], others) :
        Return(i, "sign",
               IF result(reply).status = 200
               THEN [status |-> 200, signature |-> result(reply).signature,
                     payloadHash |-> typedData[i]]
               ELSE result(reply))
  BY DEF SignerReturns
<1>2. /\ typedData[i] = PayloadOf(i) /\ i \in cleared /\ i \in DOMAIN answer
      /\ body' = body /\ cleared' = cleared
  BY <1>1 DEF Return, Goto, IInv, CallInv, Bound, TypeOK, SignerReturns, world
<1>3. CASE result(reply).status = 200
  <2>1. recoverAddress(typedData[i], result(reply).signature) = Guardian
    BY <1>1, <1>3, SignerSound, ProviderKnown
  <2>2. answer'[i] = [status |-> 200, signature |-> result(reply).signature,
                      payloadHash |-> typedData[i]]
    BY <1>1, <1>2, <1>3 DEF Return
  <2>3. recoverAddress(answer'[i].payloadHash, answer'[i].signature) = Guardian
    BY <2>1, <2>2
  <2>4. answer'[i].payloadHash = PayloadOf(i)
    BY <1>2, <2>2
  <2>. QED
    BY <1>2, <2>3, <2>4 DEF Honest, PayloadOf, TypedDataOf, Domain, Place, recoverAddress
<1>4. CASE result(reply).status # 200
  <2>1. answer'[i] = result(reply)
    BY <1>1, <1>2, <1>4 DEF Return
  <2>. QED
    BY <1>4, <2>1 DEF Honest
<1>. QED
  BY <1>3, <1>4

\* A failure is no signature.
LEMMA FailureHonest ==
  ASSUME IInv, NEW i \in Calls, ChecksFail(i) \/ ReadFails(i)
  PROVE  Honest(i)'
<1>1. PICK status \in {404, 409, 422, 503} : answer' = [answer EXCEPT ![i] = Err(status)]
  BY DEF ChecksFail, ReadFails, Return
<1>2. answer'[i] = Err(status)
  BY <1>1 DEF IInv, TypeOK
<1>. QED
  BY <1>2 DEF Honest, Err

\* Whatever the backend of a signer answers, to this call or to another, what is
\* returned as signed passed its checks and is the Guardian's over the request.
THEOREM SignedWhatWasAskedCorrect == Spec => []SignedWhatWasAsked
<1>. DEFINE AllHonest == \A i \in Calls : Honest(i)
<1>1. Init => AllHonest
  BY DEF Init, Honest
<1>2. IInv /\ AllHonest /\ [Next]_vars => AllHonest'
  <2>. SUFFICES ASSUME IInv, AllHonest, [Next]_vars, NEW j \in Calls
                PROVE  Honest(j)'
    OBVIOUS
  <2>1. body' = body /\ cleared \subseteq cleared'
    BY DEF Next, vars, world, Step, Upgrade, Tick, Forget, ChecksFail, ChecksPass, CacheHit,
           CacheMiss, ReadDomain, ReadFails, CacheSet, CacheSetThrows, BuildTypedData,
           SignerReturns
  <2>2. CASE answer'[j] = answer[j]
    BY <2>1, <2>2 DEF Honest, Place, recoverAddress
  <2>3. CASE ChecksFail(j) \/ ReadFails(j)
    BY <2>3, FailureHonest
  <2>4. CASE SignerReturns(j)
    BY <2>4, SignerHonest
  <2>5. ASSUME NEW i \in Calls, i # j, ChecksFail(i) \/ ReadFails(i) \/ SignerReturns(i)
        PROVE  answer'[j] = answer[j]
    <3>1. ASSUME NEW from, NEW result, Return(i, from, result)
          PROVE  answer'[j] = answer[j]
      BY <2>5, <3>1 DEF Return, IInv, TypeOK
    <3>2. CASE ChecksFail(i)
      BY <3>1, <3>2 DEF ChecksFail
    <3>3. CASE ReadFails(i)
      BY <3>1, <3>3 DEF ReadFails
    <3>4. CASE SignerReturns(i)
      <4>1. PICK result : Return(i, "sign", result)
        BY <3>4 DEF SignerReturns
      <4>. QED
        BY <3>1, <4>1
    <3>. QED
      BY <2>5, <3>2, <3>3, <3>4
  <2>6. \/ answer' = answer
        \/ \E i \in Calls : ChecksFail(i) \/ ReadFails(i) \/ SignerReturns(i)
    BY DEF Next, vars, Step, Upgrade, Tick, Forget, ChecksPass, CacheHit, CacheMiss,
           ReadDomain, CacheSet, CacheSetThrows, BuildTypedData
  <2>. QED
    BY <2>2, <2>3, <2>4, <2>5, <2>6
<1>3. AllHonest => SignedWhatWasAsked
  BY DEF Honest, SignedWhatWasAsked
<1>. QED
  BY <1>1, <1>2, <1>3, SpecIInv, PTL DEF Spec

\* Ordering the legs forgets their order and nothing else.
LEMMA CanonicalLegs ==
  ASSUME NEW p \in Leg \X Leg, NEW q \in Leg \X Leg
  PROVE  canonicaliseSwapLegs(p) = canonicaliseSwapLegs(q) <=> q \in {p, <<p[2], p[1]>>}
<1>1. ASSUME NEW a \in Leg, NEW b \in Leg
      PROVE  /\ ~(Before(a, b) /\ Before(b, a))
             /\ ~Before(a, b) /\ ~Before(b, a) => a = b
  BY DEF Leg, Before
<1>2. p = <<p[1], p[2]>> /\ q = <<q[1], q[2]>>
      /\ p[1] \in Leg /\ p[2] \in Leg /\ q[1] \in Leg /\ q[2] \in Leg
  OBVIOUS
<1>3. ASSUME canonicaliseSwapLegs(p) = canonicaliseSwapLegs(q)
      PROVE  q \in {p, <<p[2], p[1]>>}
  BY <1>2, <1>3 DEF canonicaliseSwapLegs
<1>4. ASSUME q = <<p[2], p[1]>>
      PROVE  canonicaliseSwapLegs(p) = canonicaliseSwapLegs(q)
  <2>1. q[1] = p[2] /\ q[2] = p[1]
    BY <1>4
  <2>. QED
    BY <1>1, <1>2, <1>4, <2>1 DEF canonicaliseSwapLegs
<1>. QED
  BY <1>3, <1>4

LEMMA KindsApart ==
  ASSUME NEW k \in Kinds, NEW l \in Kinds
  PROVE  PrimaryType(k) = PrimaryType(l) <=> k = l
  BY DEF Kinds, PrimaryType

\* Messages of one kind are equal when and only when the requests ask the same.
LEMMA MessagesApart ==
  ASSUME NEW b, NEW c, b.kind \in Kinds, c.kind = b.kind,
         b.kind = "swap" => b.what \in Leg \X Leg /\ c.what \in Leg \X Leg
  PROVE  Message(b, Guardian) = Message(c, Guardian) <=>
           /\ b.deadline = c.deadline
           /\ b.kind = "swap" => c.what \in {b.what, <<b.what[2], b.what[1]>>}
           /\ b.kind # "swap" => b.what = c.what
           /\ b.kind \in {"whitelist", "unwhitelist"} => b.nonce = c.nonce
<1>1. CASE b.kind = "swap"
  <2>1. /\ Message(b, Guardian) = [what |-> Swap(b), deadline |-> b.deadline]
        /\ Message(c, Guardian) = [what |-> Swap(c), deadline |-> c.deadline]
    BY <1>1 DEF Message
  <2>2. Swap(b) = Swap(c) <=> c.what \in {b.what, <<b.what[2], b.what[1]>>}
    BY <1>1, CanonicalLegs DEF Swap
  <2>. QED
    BY <1>1, <2>1, <2>2
<1>2. CASE b.kind \in {"binding", "fund"}
  <2>1. /\ Message(b, Guardian) = [what |-> b.what, deadline |-> b.deadline]
        /\ Message(c, Guardian) = [what |-> c.what, deadline |-> c.deadline]
    BY <1>2 DEF Message
  <2>. QED
    BY <1>2, <2>1
<1>3. CASE b.kind \in {"whitelist", "unwhitelist"}
  <2>1. /\ Message(b, Guardian) = messageOf(b, Guardian)
        /\ Message(c, Guardian) = messageOf(c, Guardian)
    BY <1>3 DEF Message
  <2>. QED
    BY <1>3, <2>1 DEF messageOf
<1>. QED
  BY <1>1, <1>2, <1>3 DEF Kinds

\* For any requests: their payloads are equal when and only when the contract
\* could not tell the requests apart, legs in either order being one swap.
THEOREM OnePayloadPerRequestCorrect == Spec => []OnePayloadPerRequest
<1>1. ASSUME IInv PROVE OnePayloadPerRequest
  <2>. SUFFICES ASSUME NEW i \in Calls, NEW j \in Calls, typedData[i] # None, typedData[j] # None
                PROVE  typedData[i] = typedData[j]
                         <=> SameRequest(body[i], body[j])
                               /\ typedData[i].domain.name = typedData[j].domain.name
    BY DEF OnePayloadPerRequest
  <2>1. typedData[i] = PayloadOf(i) /\ typedData[j] = PayloadOf(j) /\ body \in Workloads
    BY <1>1 DEF IInv, CallInv, Bound, TypeOK
  <2>2. body[i].kind \in Kinds /\ body[j].kind \in Kinds
    BY <2>1, BodiesNamePlaces
  <2>3. /\ body[i].kind = "swap" => body[i].what \in Leg \X Leg
        /\ body[j].kind = "swap" => body[j].what \in Leg \X Leg
    BY <2>1, SwapsHaveTwoLegs
  <2>4. PayloadOf(i) = PayloadOf(j) <=>
          /\ name[i] = name[j]
          /\ body[i].chain = body[j].chain /\ body[i].target = body[j].target
          /\ PrimaryType(body[i].kind) = PrimaryType(body[j].kind)
          /\ Message(body[i], Guardian) = Message(body[j], Guardian)
    BY DEF PayloadOf, TypedDataOf, Domain
  <2>5. typedData[i].domain.name = name[i] /\ typedData[j].domain.name = name[j]
    BY <2>1 DEF PayloadOf, TypedDataOf, Domain
  <2>6. PrimaryType(body[i].kind) = PrimaryType(body[j].kind) <=> body[i].kind = body[j].kind
    BY <2>2, KindsApart
  <2>7. CASE body[i].kind = body[j].kind
    BY <2>1, <2>2, <2>3, <2>4, <2>5, <2>6, <2>7, MessagesApart DEF SameRequest
  <2>8. CASE body[i].kind # body[j].kind
    BY <2>1, <2>4, <2>6, <2>8 DEF SameRequest
  <2>. QED
    BY <2>7, <2>8
<1>. QED
  BY <1>1, SpecIInv, PTL
=============================================================================
