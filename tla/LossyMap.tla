----------------------------- MODULE LossyMap -----------------------------
(***************************************************************************)
(* What a caller may rely on of a cache (AsyncCache, guardian-defaults/    *)
(* src/cache/types.ts; Eip712DomainCache, guardian/src/lib/                *)
(* eip712-domain.ts): a key that is found holds what was last written to   *)
(* it, and has not expired.  Any key may be forgotten at any moment.       *)
(***************************************************************************)
EXTENDS Integers

CONSTANTS Keys, Values, None,
          Readers,      \* those who look keys up
          Lives         \* the times to live in use

VARIABLES held,         \* [Keys -> None or [value, expires]]
          found,        \* what each reader's last lookup found, None for nothing
          clock

Entries == [value : Values, expires : Int]

Init == held = [k \in Keys |-> None] /\ found = [r \in Readers |-> None] /\ clock = 0

\* What a lookup finds: an entry that has not expired.
Hit(k) == held[k] # None /\ clock < held[k].expires

Fresh(v, ttl) == [value |-> v, expires |-> clock + ttl]

Put(k, v, ttl) == held' = [held EXCEPT ![k] = Fresh(v, ttl)]

\* k is written, and may be forgotten at once; so may every other key.
Write(k, v, ttl) ==
  held' \in {h \in [Keys -> {None} \cup {held[other] : other \in Keys} \cup {Fresh(v, ttl)}] :
               \A other \in Keys :
                 h[other] \in {None, IF other = k THEN Fresh(v, ttl) ELSE held[other]}}

Forget ==
  held' \in {h \in [Keys -> {None} \cup {held[k] : k \in Keys}] :
               \A k \in Keys : h[k] \in {None, held[k]}}

\* Whatever a lookup finds is what the key holds, live.
Lookup ==
  \E r \in Readers : \E k \in Keys :
    /\ Hit(k)
    /\ found' = [found EXCEPT ![r] = [key |-> k, raw |-> held[k].value]]

Next ==
  \/ UNCHANGED <<clock, found>>
       /\ (Forget \/ \E k \in Keys, v \in Values, ttl \in Lives : Write(k, v, ttl))
  \/ UNCHANGED <<clock, held>> /\ Lookup
  \/ UNCHANGED clock /\ Forget /\ \E r \in Readers : found' = [found EXCEPT ![r] = None]
  \/ clock' > clock /\ UNCHANGED <<held, found>>

Spec == Init /\ [][Next]_<<held, found, clock>>
===========================================================================
