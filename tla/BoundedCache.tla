--------------------------- MODULE BoundedCache ---------------------------
(***************************************************************************)
(* The bundled cache (InMemoryCache, guardian-defaults/src/cache/          *)
(* in-memory.ts) under concurrent gets and sets: a Map in insertion order, *)
(* lazily expired, swept and trimmed on a write that takes it past its     *)
(* bound.  A get looks the key up, validates what it found and, when that  *)
(* does not parse, deletes the key, with an await between each two.        *)
(***************************************************************************)
EXTENDS Integers, Sequences, Filter

CONSTANTS Keys, Values,
          Unparsable,   \* the values the schema rejects
          Absent,
          Readers,      \* concurrent gets
          Lives,        \* times to live asked for
          MaxEntries,   \* the bound, 0 for none
          MaxClock      \* bound on the clock

ASSUME BoundIsNat == MaxEntries \in Nat /\ Unparsable \subseteq Values
ASSUME LivesAreInt == Lives \subseteq Int
ASSUME AbsentApart ==
  /\ Absent \notin Values /\ Absent \notin Keys
  /\ Absent \notin [key : Keys, raw : Values]
  /\ Absent \notin [value : Values, expires : Int]

VARIABLES map,          \* the Map: [key, value, expiresAt], oldest insertion first
          clock,
          reading       \* what each get under way looked up: Absent or [key, raw]

cacheVars == <<map, clock, reading>>

Item == [key : Keys, value : Values, expiresAt : Int]

CacheInit ==
  /\ map = <<>> /\ clock = 0
  /\ reading = [r \in Readers |-> Absent]

Has(m, k) == \E i \in DOMAIN m : m[i].key = k
At(m, k) == m[CHOOSE i \in DOMAIN m : m[i].key = k]
Without(m, k) == Filter(m, {i \in DOMAIN m : m[i].key # k})

\* A faulty Expired: an entry is live for an instant too long.
ExpiredLate(item, now) == item.expiresAt < now

Expired(item, now) == item.expiresAt <= now

\* A lookup finds a live entry, or deletes an expired one.
rawGet(r, k) ==
  /\ reading[r] = Absent
  /\ Has(map, k)
  /\ IF Expired(At(map, k), clock)
     THEN /\ map' = Without(map, k)
          /\ UNCHANGED reading
     ELSE /\ reading' = [reading EXCEPT ![r] = [key |-> k, raw |-> At(map, k).value]]
          /\ UNCHANGED map
  /\ UNCHANGED clock

\* The value found parses and is returned.
getReturns(r) ==
  /\ reading[r] # Absent /\ reading[r].raw \notin Unparsable
  /\ reading' = [reading EXCEPT ![r] = Absent]
  /\ UNCHANGED <<map, clock>>

\* It does not parse: the key is purged, whatever it holds by now, and the get
\* is a miss.
getPurges(r) ==
  /\ reading[r] # Absent /\ reading[r].raw \in Unparsable
  /\ map' = Without(map, reading[r].key)
  /\ reading' = [reading EXCEPT ![r] = Absent]
  /\ UNCHANGED clock

sweepExpired(m, now) == Filter(m, {i \in DOMAIN m : ~Expired(m[i], now)})

trimToBound(m) ==
  IF MaxEntries = 0 \/ Len(m) <= MaxEntries THEN m
  ELSE SubSeq(m, Len(m) - MaxEntries + 1, Len(m))

Inserted(k, v, ttl) ==
  Append(Without(map, k), [key |-> k, value |-> v, expiresAt |-> clock + ttl])

\* A faulty set: trimmed before it is swept.
setTrimFirst(k, v, ttl) ==
  /\ ttl > 0
  /\ LET m == Inserted(k, v, ttl) IN
     map' = IF MaxEntries > 0 /\ Len(m) > MaxEntries
            THEN sweepExpired(trimToBound(m), clock) ELSE m
  /\ UNCHANGED <<clock, reading>>

\* A write with a time to live that is not positive throws before it does
\* anything; the caller takes that for a write that did not happen.
set(k, v, ttl) ==
  /\ ttl > 0
  /\ LET m == Inserted(k, v, ttl) IN
     map' = IF MaxEntries > 0 /\ Len(m) > MaxEntries
            THEN trimToBound(sweepExpired(m, clock)) ELSE m
  /\ UNCHANGED <<clock, reading>>

delete(k) ==
  /\ Has(map, k)
  /\ map' = Without(map, k)
  /\ UNCHANGED <<clock, reading>>

CacheTick ==
  /\ clock < MaxClock /\ clock' = clock + 1
  /\ UNCHANGED <<map, reading>>

CacheNext ==
  \/ \E r \in Readers : (\E k \in Keys : rawGet(r, k)) \/ getReturns(r) \/ getPurges(r)
  \/ \E k \in Keys : delete(k) \/ \E v \in Values, ttl \in Lives : set(k, v, ttl)
  \/ CacheTick

CacheSpec == CacheInit /\ [][CacheNext]_cacheVars

(* ---------------------------- properties ------------------------------ *)

\* The Map as a function of its keys.
Held == [k \in Keys |->
  IF Has(map, k) THEN [value |-> At(map, k).value, expires |-> At(map, k).expiresAt] ELSE Absent]

Promise == INSTANCE LossyMap
  WITH held <- Held, found <- reading, None <- Absent

\* The cache keeps the promise its callers rely on: what a get finds is what
\* was last written to that key, and has not expired when it is looked up;
\* writes, purges of keys written since, sweeps and trims at most forget
\* (AsyncCache, get and set).
ImplementsLossyMap == Promise!Spec

\* A live entry only ever goes by a delete or purge of its own key, by being
\* written anew, or to make room: then the map is left full of live entries,
\* all of them inserted later (set, sweepExpired, trimToBound).
RoomIsMadeByAge ==
  [][/\ MaxEntries > 0 => Len(map') <= MaxEntries
     /\ \A i \in DOMAIN map :
          ~Expired(map[i], clock) /\ ~Has(map', map[i].key) =>
            \/ map' = Without(map, map[i].key)
            \/ /\ Len(map') = MaxEntries
               /\ \A j \in 1..i : ~Has(map', map[j].key) \/ At(map', map[j].key) # map[j]
               /\ \A j \in DOMAIN map' : ~Expired(map'[j], clock)
    ]_cacheVars
===========================================================================
