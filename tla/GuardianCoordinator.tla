------------------------- MODULE GuardianCoordinator -------------------------
(***************************************************************************)
(* The polling coordinator of packages/guardian-coordinator (src/index.ts) *)
(* against the external grunt-api.                                         *)
(*                                                                         *)
(* Each replica is one process running runGuardianCoordinator: it lists    *)
(* the open signing requests page by page, signs the rows it may sign one  *)
(* after another, and puts each signature back.  All replicas hold the     *)
(* same guardian key.  Every await of the source is a point where the      *)
(* model interleaves: the page read, the candidate read, the nonce         *)
(* reservation, the signature and the submission.  A call to grunt-api     *)
(* that fails or times out on the client may still take effect later; a    *)
(* process may crash and restart, losing its memory of sign deadlines; a   *)
(* signing task that lost its race against the deadline keeps running and  *)
(* may still use the key.                                                  *)
(*                                                                         *)
(* Out of this module: how the candidate window is read and its floor      *)
(* advanced (WhitelistNonces), and what validate-and-sign checks before    *)
(* signing (RoleScan, RequestBinding).  Here signing either returns,       *)
(* fails, or does not come back before its deadline.                       *)
(***************************************************************************)
EXTENDS Integers, Sequences, FiniteSets

CONSTANTS
  Replicas,      \* coordinator processes that share the guardian key
  Requests,      \* ids of the signing requests
  Class,         \* [Requests -> RowClass]: what parsing and filtering make of a row
  OwnNonce,      \* the nonce a legacy whitelisting brings in its body, None for other rows
  Announced,     \* the payload whose hash grunt-api lists for a request, None for another's
  Misreserved,   \* requests whose reservation is answered with the hash of another payload
  Prompt,        \* requests whose signing never outlasts its deadline
  Slow,          \* requests whose signing always outlasts its deadline
  Nonces,        \* the validator's whitelist nonces in the window above its floor
  Filters,       \* the poll filters: a sequence of the sets of requests they list
  PageSize,      \* options.pageSize
  GiveUpAfter,   \* SIGN_TIMEOUTS_BEFORE_GIVING_UP
  MaxCrashes,    \* bound on process crashes
  MaxStray,      \* bound on abandoned calls still in flight
  None           \* no nonce, and the hash of no payload here

Payload  == [id : Requests, nonce : Nonces \cup {None}]
RowClass == {"malformed", "badBody", "foreign", "legacy", "independent"}

ASSUME ReplicasAssumption == IsFiniteSet(Replicas)
ASSUME ClassAssumption    == Class \in [Requests -> RowClass]
\* Only a whitelisting whose body has a nonce brings one.
ASSUME BodiesAssumption   == /\ OwnNonce \in [Requests -> Nonces \cup {None}]
                             /\ \A r \in Requests :
                                  Class[r] # "legacy" => OwnNonce[r] = None
                             /\ Announced \in [Requests -> Payload \cup {None}]
\* A request has one chain and one facility, so no two filters list it.
ASSUME FiltersAssumption  == /\ Filters \in Seq(SUBSET Requests) /\ Len(Filters) > 0
                             /\ \A f, g \in 1..Len(Filters) :
                                  f # g => Filters[f] \cap Filters[g] = {}
ASSUME NumbersAssumption  == /\ PageSize \in Nat \ {0}
                             /\ GiveUpAfter \in Nat \ {0}
                             /\ MaxCrashes \in Nat
                             /\ MaxStray \in Nat
ASSUME NoneAssumption     == None \notin Nonces \cup Payload

VARIABLES
  \* grunt-api and the chain (external)
  open,         \* the open signing requests each filter lists, in listing order
  announced,    \* requests announced so far
  reservation,  \* the durable nonce reservation of each independent request
  accepted,     \* the payloads recorded as this guardian's submissions
  consumed,     \* nonces consumed on chain
  strayNonce,   \* abandoned nonce calls that may still reach grunt-api
  straySubmit,  \* abandoned submission calls that may still reach grunt-api
  \* each replica
  pc,           \* where its poll loop is
  filter,       \* index of the current poll filter
  page,         \* current page number
  items,        \* rows of the current page not yet worked through
  more,         \* whether the page just read was not the last one
  candidates,   \* nonce candidates of the current row
  nonce,        \* nonce in the body of the current row, its own or the reserved one
  expected,     \* request.payloadHash, as the payload it is the hash of
  timeouts,     \* sign-deadline hits per request, for the life of the process
  late,         \* payloads of signing tasks that lost against the deadline
  stats,        \* counters of the current cycle
  \* the guardian key
  signatures,   \* payloads ever signed
  crashes       \* crashes so far

apiVars     == <<open, announced, reservation, accepted, consumed, strayNonce, straySubmit>>
loopVars    == <<filter, page, items, more>>
rowVars     == <<candidates, nonce, expected>>
processVars == <<timeouts, late>>
keyVars     == <<signatures, crashes>>
vars == <<apiVars, pc, loopVars, rowVars, processVars, stats, keyVars>>

-----------------------------------------------------------------------------
(* Data.                                                                   *)

Row       == [id : Requests, mine : BOOLEAN]
Counters  == [fetched : Nat, signed : Nat, skipped : Nat, failed : Nat]
NonceCall == [id : Requests, candidates : SUBSET Nonces]
Where     == {"idle", "fetch", "items", "candidates", "reserve", "sign", "submit", "down"}

ZeroStats == [fetched |-> 0, signed |-> 0, skipped |-> 0, failed |-> 0]

\* The row a replica works on, and the payload its body now describes.
Cur(p)         == Head(items[p]).id
BodyPayload(p) == [id |-> Cur(p), nonce |-> nonce[p]]

Submitted(r) == \E x \in accepted : x.id = r

FilterIndex == 1..Len(Filters)

IsOpen(r) == \E f \in FilterIndex : \E i \in 1..Len(open[f]) : open[f][i] = r

\* grunt-api's answer to one GET: the open requests the filter lists, cut to
\* the page, each with this guardian's submission flag.
PageRows(f, k) ==
  LET list  == open[f]
      first == (k - 1) * PageSize
      n     == IF Len(list) <= first THEN 0
               ELSE IF Len(list) - first < PageSize THEN Len(list) - first ELSE PageSize
  IN  [i \in 1..n |-> [id |-> list[first + i], mine |-> Submitted(list[first + i])]]

\* The page loop goes on unless the page was empty or reached the total.
MorePages(f, k) == PageRows(f, k) # <<>> /\ k * PageSize < Len(open[f])

\* The validator's unconsumed nonces, and what a reservation may answer: the
\* nonce already reserved for the request, or a candidate reserved for no other.
Available == Nonces \ consumed
ReservedFor(r, C) ==
  IF reservation[r] # None THEN {reservation[r]}
  ELSE C \ {reservation[x] : x \in Requests}

\* A faulty GivenUp: gives up one deadline too late.
GivenUpLate(p, r) == timeouts[p][r] > GiveUpAfter

GivenUp(p, r) == timeouts[p][r] >= GiveUpAfter

-----------------------------------------------------------------------------
Init ==
  /\ open = [f \in FilterIndex |-> <<>>] /\ announced = {}
  /\ reservation = [r \in Requests |-> None]
  /\ accepted = {} /\ consumed = {}
  /\ strayNonce = {} /\ straySubmit = {}
  /\ pc = [p \in Replicas |-> "idle"]
  /\ filter = [p \in Replicas |-> 1]
  /\ page = [p \in Replicas |-> 1]
  /\ items = [p \in Replicas |-> <<>>]
  /\ more = [p \in Replicas |-> FALSE]
  /\ candidates = [p \in Replicas |-> {}]
  /\ nonce = [p \in Replicas |-> None]
  /\ expected = [p \in Replicas |-> None]
  /\ timeouts = [p \in Replicas |-> [r \in Requests |-> 0]]
  /\ late = [p \in Replicas |-> {}]
  /\ stats = [p \in Replicas |-> ZeroStats]
  /\ signatures = {} /\ crashes = 0

-----------------------------------------------------------------------------
(* Shared shapes of the loop's steps.                                      *)

\* The current row is finished under one counter; the loop takes the next row.
FinishRow(p, counter) ==
  /\ stats' = [stats EXCEPT ![p][counter] = @ + 1]
  /\ items' = [items EXCEPT ![p] = Tail(@)]
  /\ pc' = [pc EXCEPT ![p] = "items"]
  /\ candidates' = [candidates EXCEPT ![p] = {}]
  /\ nonce' = [nonce EXCEPT ![p] = None]
  /\ expected' = [expected EXCEPT ![p] = None]
  /\ UNCHANGED <<filter, page, more>>

\* The heartbeat, with the counters of the cycle, ends it whether the poll
\* returned or threw; the next cycle starts from fresh counters.
EndCycle(p) ==
  /\ pc' = [pc EXCEPT ![p] = "idle"]
  /\ stats' = [stats EXCEPT ![p] = ZeroStats]
  /\ filter' = [filter EXCEPT ![p] = 1]
  /\ page' = [page EXCEPT ![p] = 1]
  /\ items' = [items EXCEPT ![p] = <<>>]
  /\ more' = [more EXCEPT ![p] = FALSE]
  /\ candidates' = [candidates EXCEPT ![p] = {}]
  /\ nonce' = [nonce EXCEPT ![p] = None]
  /\ expected' = [expected EXCEPT ![p] = None]

\* A row moves on to its next awaited call.
Advance(p, from, to) ==
  /\ pc[p] = from
  /\ pc' = [pc EXCEPT ![p] = to]

-----------------------------------------------------------------------------
(* The poll cycle.                                                         *)

StartCycle(p) ==
  /\ Advance(p, "idle", "fetch")
  /\ UNCHANGED <<apiVars, loopVars, rowVars, processVars, stats, keyVars>>

FetchPage(p) ==
  /\ Advance(p, "fetch", "items")
  /\ items' = [items EXCEPT ![p] = PageRows(filter[p], page[p])]
  /\ more' = [more EXCEPT ![p] = MorePages(filter[p], page[p])]
  /\ stats' = [stats EXCEPT ![p].fetched = @ + Len(PageRows(filter[p], page[p]))]
  /\ UNCHANGED <<apiVars, filter, page, rowVars, processVars, keyVars>>

\* The listing call fails, times out or answers something else: the poll throws.
FetchFails(p) ==
  /\ pc[p] = "fetch"
  /\ EndCycle(p)
  /\ UNCHANGED <<apiVars, processVars, keyVars>>

\* The page is worked through: next page, next filter, or the end of the cycle.
NextPage(p) ==
  /\ pc[p] = "items" /\ items[p] = <<>> /\ more[p]
  /\ page' = [page EXCEPT ![p] = @ + 1]
  /\ pc' = [pc EXCEPT ![p] = "fetch"]
  /\ UNCHANGED <<apiVars, filter, items, more, rowVars, processVars, stats, keyVars>>

NextFilter(p) ==
  /\ pc[p] = "items" /\ items[p] = <<>> /\ ~more[p]
  /\ filter[p] < Len(Filters)
  /\ filter' = [filter EXCEPT ![p] = @ + 1]
  /\ page' = [page EXCEPT ![p] = 1]
  /\ pc' = [pc EXCEPT ![p] = "fetch"]
  /\ UNCHANGED <<apiVars, items, more, rowVars, processVars, stats, keyVars>>

CycleDone(p) ==
  /\ pc[p] = "items" /\ items[p] = <<>> /\ ~more[p]
  /\ filter[p] = Len(Filters)
  /\ EndCycle(p)
  /\ UNCHANGED <<apiVars, processVars, keyVars>>

-----------------------------------------------------------------------------
(* One row.                                                                *)

AtRow(p) == pc[p] = "items" /\ items[p] # <<>>

\* A row this guardian already answered or gave up on is skipped before it is parsed.
PassedOver(p) ==
  /\ Class[Cur(p)] # "malformed"
  /\ Head(items[p]).mine \/ GivenUp(p, Cur(p))

\* A faulty SkipRow: drops the row without counting it.
SkipRowUncounted(p) ==
  /\ AtRow(p)
  /\ PassedOver(p) \/ Class[Cur(p)] = "foreign"
  /\ items' = [items EXCEPT ![p] = Tail(@)]
  /\ UNCHANGED <<apiVars, pc, filter, page, more, rowVars, processVars, stats, keyVars>>

\* Another: skips without moving on to the next row.
SkipRowStuck(p) ==
  /\ AtRow(p)
  /\ PassedOver(p) \/ Class[Cur(p)] = "foreign"
  /\ UNCHANGED vars

SkipRow(p) ==
  /\ AtRow(p)
  /\ PassedOver(p) \/ Class[Cur(p)] = "foreign"
  /\ FinishRow(p, "skipped")
  /\ UNCHANGED <<apiVars, processVars, keyVars>>

\* A row that does not parse, or whose chain or target is not the body's.
RejectRow(p) ==
  /\ AtRow(p)
  /\ \/ Class[Cur(p)] = "malformed"
     \/ Class[Cur(p)] = "badBody" /\ ~PassedOver(p)
  /\ FinishRow(p, "failed")
  /\ UNCHANGED <<apiVars, processVars, keyVars>>

\* A row to be signed comes with the hash grunt-api lists and, if legacy, its own nonce.
BeginRow(p) ==
  /\ AtRow(p) /\ ~PassedOver(p)
  /\ \/ Class[Cur(p)] = "legacy" /\ Advance(p, "items", "sign")
     \/ Class[Cur(p)] = "independent" /\ Advance(p, "items", "candidates")
  /\ nonce' = [nonce EXCEPT ![p] = OwnNonce[Cur(p)]]
  /\ expected' = [expected EXCEPT ![p] = Announced[Cur(p)]]
  /\ UNCHANGED <<apiVars, loopVars, candidates, processVars, stats, keyVars>>

\* whitelistNonceCandidates answers the unconsumed nonces of the window.
ReadCandidates(p) ==
  /\ Available # {}
  /\ Advance(p, "candidates", "reserve")
  /\ candidates' = [candidates EXCEPT ![p] = Available]
  /\ UNCHANGED <<apiVars, loopVars, nonce, expected, processVars, stats, keyVars>>

\* The window is consumed and a floor update was confirmed: wait for the next poll.
NoCandidates(p) ==
  /\ pc[p] = "candidates" /\ Available = {}
  /\ FinishRow(p, "skipped")
  /\ UNCHANGED <<apiVars, processVars, keyVars>>

\* Any throw of whitelistNonceCandidates.
CandidatesFail(p) ==
  /\ pc[p] = "candidates"
  /\ FinishRow(p, "failed")
  /\ UNCHANGED <<apiVars, processVars, keyVars>>

\* grunt-api reserves durably.
ApiReserve(r, n) == reservation' = [reservation EXCEPT ![r] = n]

\* Faulty bodies: the placeholder of parseSigningBody left in place, or the
\* replica's own pick among its candidates.
BodyNoncePlaceholder(p, reserved) == None
BodyNonceOwnPick(p, reserved)     == CHOOSE n \in candidates[p] : TRUE

\* The nonce the coordinator writes into the body it is about to sign.
BodyNonce(p, reserved) == reserved

\* A faulty ExpectedHash: the one listed with the row is kept.
ExpectedHashListed(p, n) == expected[p]

\* What the signer's hash will be compared with: the hash answered with the nonce.
ExpectedHash(p, n) ==
  IF Cur(p) \in Misreserved THEN None ELSE [id |-> Cur(p), nonce |-> n]

\* A faulty InWindow: whatever was reserved is signed.
InWindowAnyhow(p, n) == TRUE

\* The nonce reserved, perhaps long ago, is among those just read as unconsumed.
InWindow(p, n) == n \in candidates[p]

ReserveReturns(p) ==
  /\ pc[p] = "reserve"
  /\ \E n \in ReservedFor(Cur(p), candidates[p]) :
       /\ ApiReserve(Cur(p), n)
       /\ \/ /\ InWindow(p, n)
             /\ pc' = [pc EXCEPT ![p] = "sign"]
             /\ nonce' = [nonce EXCEPT ![p] = BodyNonce(p, n)]
             /\ expected' = [expected EXCEPT ![p] = ExpectedHash(p, n)]
             /\ UNCHANGED <<loopVars, candidates, stats>>
          \/ ~InWindow(p, n) /\ FinishRow(p, "failed")
  /\ UNCHANGED <<open, announced, accepted, consumed, strayNonce, straySubmit,
                 processVars, keyVars>>

\* The call errs or times out on the client; it may still be under way.
ReserveFails(p) ==
  /\ pc[p] = "reserve"
  /\ \/ UNCHANGED strayNonce
     \/ /\ Cardinality(strayNonce) + Cardinality(straySubmit) < MaxStray
        /\ strayNonce' = strayNonce \cup {[id |-> Cur(p), candidates |-> candidates[p]]}
  /\ FinishRow(p, "failed")
  /\ UNCHANGED <<open, announced, reservation, accepted, consumed, straySubmit,
                 processVars, keyVars>>

\* Only a signature over the payload whose hash grunt-api gave is submitted.
HashAgrees(p) == expected[p] = BodyPayload(p)

SignReturns(p) ==
  /\ pc[p] = "sign" /\ Cur(p) \notin Slow
  /\ signatures' = signatures \cup {BodyPayload(p)}
  /\ \/ /\ HashAgrees(p)
        /\ pc' = [pc EXCEPT ![p] = "submit"]
        /\ UNCHANGED <<loopVars, rowVars, stats>>
     \/ ~HashAgrees(p) /\ FinishRow(p, "failed")
  /\ UNCHANGED <<apiVars, processVars, crashes>>

\* A failed check, an unavailable upstream, an unsupported chain, a signer error, or
\* an answer that does not parse or names another guardian: the key may have been used.
SignFails(p) ==
  /\ pc[p] = "sign" /\ Cur(p) \notin Slow
  /\ signatures' \in {signatures, signatures \cup {BodyPayload(p)}}
  /\ FinishRow(p, "failed")
  /\ UNCHANGED <<apiVars, processVars, crashes>>

\* A faulty SignTimesOut: the deadline error escapes the row and ends the poll.
SignTimesOutEscaping(p) ==
  /\ pc[p] = "sign" /\ Cur(p) \notin Prompt
  /\ EndCycle(p)
  /\ UNCHANGED <<apiVars, processVars, keyVars>>

\* The deadline wins the race; the signing task is left running.
SignTimesOut(p) ==
  /\ pc[p] = "sign" /\ Cur(p) \notin Prompt
  /\ timeouts' = [timeouts EXCEPT ![p][Cur(p)] = @ + 1]
  /\ late' = [late EXCEPT ![p] = @ \cup {BodyPayload(p)}]
  /\ FinishRow(p, "failed")
  /\ UNCHANGED <<apiVars, keyVars>>

\* A task that lost the race reaches the key after all; its result is swallowed.
LateSignature(p) ==
  /\ \E x \in late[p] :
       /\ signatures' = signatures \cup {x}
       /\ late' = [late EXCEPT ![p] = @ \ {x}]
  /\ UNCHANGED <<apiVars, pc, loopVars, rowVars, timeouts, stats, crashes>>

SubmitReturns(p) ==
  /\ pc[p] = "submit"
  /\ IsOpen(Cur(p))
  /\ accepted' = accepted \cup {BodyPayload(p)}
  /\ FinishRow(p, "signed")
  /\ UNCHANGED <<open, announced, reservation, consumed, strayNonce, straySubmit,
                 processVars, keyVars>>

\* The answer is an error, is lost, or comes after the client's timeout.
SubmitFails(p) ==
  /\ pc[p] = "submit"
  /\ \/ UNCHANGED straySubmit
     \/ /\ Cardinality(strayNonce) + Cardinality(straySubmit) < MaxStray
        /\ straySubmit' = straySubmit \cup {BodyPayload(p)}
  /\ FinishRow(p, "failed")
  /\ UNCHANGED <<open, announced, reservation, accepted, consumed, strayNonce,
                 processVars, keyVars>>

-----------------------------------------------------------------------------
(* Process crash and restart.                                              *)

\* What was in memory is lost.  A call under way at the crash is a call given up,
\* and a signature the key makes after it one nobody waits for: ReserveFails,
\* SubmitFails or SignReturns, and then the crash.
Crash(p) ==
  /\ pc[p] # "down" /\ crashes < MaxCrashes
  /\ crashes' = crashes + 1
  /\ pc' = [pc EXCEPT ![p] = "down"]
  /\ filter' = [filter EXCEPT ![p] = 1]
  /\ page' = [page EXCEPT ![p] = 1]
  /\ items' = [items EXCEPT ![p] = <<>>]
  /\ more' = [more EXCEPT ![p] = FALSE]
  /\ candidates' = [candidates EXCEPT ![p] = {}]
  /\ nonce' = [nonce EXCEPT ![p] = None]
  /\ expected' = [expected EXCEPT ![p] = None]
  /\ timeouts' = [timeouts EXCEPT ![p] = [r \in Requests |-> 0]]
  /\ late' = [late EXCEPT ![p] = {}]
  /\ stats' = [stats EXCEPT ![p] = ZeroStats]
  /\ UNCHANGED <<apiVars, signatures>>

Restart(p) ==
  /\ Advance(p, "down", "idle")
  /\ UNCHANGED <<apiVars, loopVars, rowVars, processVars, stats, keyVars>>

-----------------------------------------------------------------------------
(* grunt-api and the chain.                                                *)

replicaVars == <<pc, loopVars, rowVars, processVars, stats>>

\* A request enters a listing at either end: the listing order is grunt-api's.
Announce(f, r) ==
  /\ r \in Filters[f] \ announced
  /\ announced' = announced \cup {r}
  /\ \E list \in {Append(open[f], r), <<r>> \o open[f]} :
       open' = [open EXCEPT ![f] = list]
  /\ UNCHANGED <<reservation, accepted, consumed, strayNonce, straySubmit,
                 replicaVars, keyVars>>

\* A request leaves its listing: quorum reached, or its deadline passed.
Close(f, i) ==
  /\ open' = [open EXCEPT ![f] = SubSeq(@, 1, i - 1) \o SubSeq(@, i + 1, Len(@))]
  /\ UNCHANGED <<announced, reservation, accepted, consumed, strayNonce, straySubmit,
                 replicaVars, keyVars>>

\* A whitelisting whose signature grunt-api holds is executed and consumes its nonce.
Execute(x) ==
  /\ x \in accepted /\ x.nonce \notin consumed \cup {None}
  /\ consumed' = consumed \cup {x.nonce}
  /\ UNCHANGED <<open, announced, reservation, accepted, strayNonce, straySubmit,
                 replicaVars, keyVars>>

\* An abandoned call reaches grunt-api after all, or is lost for good.
StrayNonceArrives(c) ==
  /\ c \in strayNonce
  /\ strayNonce' = strayNonce \ {c}
  /\ \/ \E n \in ReservedFor(c.id, c.candidates) : ApiReserve(c.id, n)
     \/ UNCHANGED reservation
  /\ UNCHANGED <<open, announced, accepted, consumed, straySubmit, replicaVars, keyVars>>

StraySubmitArrives(x) ==
  /\ x \in straySubmit
  /\ straySubmit' = straySubmit \ {x}
  /\ \/ IsOpen(x.id) /\ accepted' = accepted \cup {x}
     \/ UNCHANGED accepted
  /\ UNCHANGED <<open, announced, reservation, consumed, strayNonce, replicaVars, keyVars>>

-----------------------------------------------------------------------------
Poll(p) ==
  \/ StartCycle(p) \/ FetchPage(p) \/ FetchFails(p)
  \/ NextPage(p) \/ NextFilter(p) \/ CycleDone(p)
  \/ SkipRow(p) \/ RejectRow(p) \/ BeginRow(p)
  \/ ReadCandidates(p) \/ NoCandidates(p) \/ CandidatesFail(p)
  \/ ReserveReturns(p) \/ ReserveFails(p)
  \/ SignReturns(p) \/ SignFails(p) \/ SignTimesOut(p)
  \/ SubmitReturns(p) \/ SubmitFails(p)

Next ==
  \/ \E p \in Replicas : Poll(p) \/ LateSignature(p) \/ Crash(p) \/ Restart(p)
  \/ \E f \in FilterIndex : \E r \in Filters[f] : Announce(f, r)
  \/ \E f \in FilterIndex : \E i \in 1..Len(open[f]) : Close(f, i)
  \/ \E x \in accepted : Execute(x)
  \/ \E c \in strayNonce : StrayNonceArrives(c)
  \/ \E x \in straySubmit : StraySubmitArrives(x)

Spec == Init /\ [][Next]_vars

\* What the process, its host and grunt-api are assumed to give in the end: a
\* step of the loop is not put off forever (every call has a timeout); a call
\* tried again and again for the same page or the same request is answered in
\* the end; a crashed process is restarted.  Nothing is assumed of new
\* requests, of closing, of stray calls or of late signing tasks.
Fairness ==
  \A p \in Replicas :
    /\ WF_vars(Poll(p))
    /\ WF_vars(Restart(p))
    /\ \A f \in FilterIndex : \A k \in 1..Cardinality(Requests) :
         SF_vars(pc[p] = "fetch" /\ filter[p] = f /\ page[p] = k /\ FetchPage(p))
    /\ \A r \in Prompt :
         /\ SF_vars(pc[p] = "candidates" /\ Cur(p) = r /\ ReadCandidates(p))
         /\ SF_vars(pc[p] = "reserve" /\ Cur(p) = r /\ ReserveReturns(p))
         /\ SF_vars(pc[p] = "sign" /\ Cur(p) = r /\ SignReturns(p))
         /\ SF_vars(pc[p] = "submit" /\ Cur(p) = r /\ SubmitReturns(p))

FairSpec == Spec /\ Fairness

-----------------------------------------------------------------------------
(* Correctness.                                                            *)

\* Types, and what belongs together in a replica: a row is in hand while one is
\* being worked through, and the body carries a nonce only while it is signed and
\* submitted (index.ts, the loop over one page).
TypeOK ==
  /\ open \in [FilterIndex -> Seq(Requests)]
  /\ announced \subseteq Requests
  /\ reservation \in [Requests -> Nonces \cup {None}]
  /\ accepted \subseteq Payload
  /\ consumed \subseteq Nonces
  /\ strayNonce \subseteq NonceCall
  /\ straySubmit \subseteq Payload
  /\ pc \in [Replicas -> Where]
  /\ filter \in [Replicas -> FilterIndex]
  /\ page \in [Replicas -> Nat \ {0}]
  /\ items \in [Replicas -> Seq(Row)]
  /\ more \in [Replicas -> BOOLEAN]
  /\ candidates \in [Replicas -> SUBSET Nonces]
  /\ nonce \in [Replicas -> Nonces \cup {None}]
  /\ expected \in [Replicas -> Payload \cup {None}]
  /\ timeouts \in [Replicas -> [Requests -> Nat]]
  /\ late \in [Replicas -> SUBSET Payload]
  /\ stats \in [Replicas -> Counters]
  /\ signatures \subseteq Payload
  /\ crashes \in Nat
  /\ \A p \in Replicas :
       /\ pc[p] \in {"candidates", "reserve", "sign", "submit"} => items[p] # <<>>
       /\ nonce[p] # None => pc[p] \in {"sign", "submit"}

\* The nonce a request is to be signed with: its own, or the one reserved for it.
Due(r) == IF Class[r] = "legacy" THEN OwnNonce[r] ELSE reservation[r]

\* A payload with that nonce; an independent whitelisting has one.
Attested(x) ==
  /\ x.nonce = Due(x.id)
  /\ Class[x.id] = "independent" => x.nonce # None

\* Whatever was ever signed for a request, by any replica, on any retry and by a
\* task that outlived its deadline, carries the nonce grunt-api durably reserved
\* for it, and an independent whitelisting is never signed without one.
SignedUnderReservation == \A x \in signatures : Attested(x)

\* The key never signs one nonce for two independent whitelistings.  (A legacy one
\* brings its nonce, and nothing in the coordinator keeps the two sorts apart.)
NoNonceReuse ==
  \A x, y \in signatures :
    /\ Class[x.id] = "independent" /\ Class[y.id] = "independent"
    /\ x.nonce = y.nonce
    => x.id = y.id

\* A payload whose hash grunt-api gave: with the reservation for an independent
\* whitelisting, whatever its row listed, and with the row for any other.
Vouched(x) ==
  IF Class[x.id] = "independent" THEN x.id \notin Misreserved ELSE x = Announced[x.id]

\* What grunt-api holds from this guardian was signed by its key, carries the nonce
\* due, and is the payload whose hash grunt-api gave for that nonce, even when it
\* arrived after the replica that sent it had given the call up (signWithGuardian).
AcceptedAsAnnounced == \A x \in accepted : x \in signatures /\ Attested(x) /\ Vouched(x)

\* What a replica may yet bring to the key for an independent whitelisting: a nonce of
\* the window it has read for it, the one in its body, one in a task given up.
InHand(p, r, n) ==
  \/ /\ pc[p] \in {"reserve", "sign", "submit"} /\ Cur(p) = r
     /\ n \in candidates[p] \/ n = nonce[p]
  \/ [id |-> r, nonce |-> n] \in late[p]

\* Once a nonce is spent on chain, no replica takes it up again for the request it
\* is reserved for: on a retry, after a restart, from a stale listing or because
\* another whitelisting spent it, the reservation is durable and the row ends before
\* the key.  Only work begun before it was spent may still come to the key.
SpentNonceIsNotTakenUp ==
  [][\A p \in Replicas, r \in Requests : \A n \in consumed :
       Class[r] = "independent" /\ InHand(p, r, n)' => InHand(p, r, n)
    ]_vars

\* Every row fetched is counted exactly once as signed, skipped or failed, so the
\* heartbeat adds up also after a poll that threw half way (PollCycleStats).
AddsUp(p) ==
  stats[p].fetched = stats[p].signed + stats[p].skipped + stats[p].failed + Len(items[p])

StatsAddUp == \A p \in Replicas : AddsUp(p)

\* A request costs one life of a process at most GiveUpAfter sign budgets, listed
\* twice in one poll or not.
TimeoutsBounded ==
  \A p \in Replicas, r \in Requests : timeouts[p][r] <= GiveUpAfter

\* Why these two hold, as an inductive invariant: a page is fetched only when the
\* one before is worked through, and no row is worked on that was given up.
LoopInv ==
  /\ StatsAddUp
  /\ TimeoutsBounded
  /\ \A p \in Replicas :
       /\ pc[p] \in {"idle", "fetch", "down"} => items[p] = <<>>
       /\ pc[p] \in {"candidates", "reserve", "sign", "submit"} => ~GivenUp(p, Cur(p))

\* Why the three signature properties hold, as an inductive invariant.  Only an
\* independent request has a reservation, and no two have the same one.
ReservationTable ==
  /\ \A r \in Requests : Class[r] # "independent" => reservation[r] = None
  /\ \A r, s \in Requests : reservation[r] = reservation[s] /\ reservation[r] # None => r = s

\* Every payload the key has met, or may still meet in a task given up, carries it.
AttestedKey ==
  /\ \A x \in signatures : Attested(x)
  /\ \A p \in Replicas : \A x \in late[p] : Attested(x)

\* So does the body in hand from the reservation on; a body that agrees with the hash
\* in hand is vouched for, and what is being submitted was signed and compared.
BodyInHand(p) ==
  /\ pc[p] \in {"candidates", "reserve"} => Class[Cur(p)] = "independent"
  /\ pc[p] \in {"sign", "submit"} => Attested(BodyPayload(p))
  /\ pc[p] = "sign" /\ HashAgrees(p) => Vouched(BodyPayload(p))
  /\ pc[p] = "submit" => BodyPayload(p) \in signatures /\ Vouched(BodyPayload(p))

\* Calls given up say nothing the process did not have in hand.
CallsUnderWay ==
  /\ \A c \in strayNonce : Class[c.id] = "independent"
  /\ \A x \in straySubmit \cup accepted : x \in signatures /\ Vouched(x)

\* Reservation, body, key and calls agree at every step of every replica: the nonce
\* grunt-api reserves is the one signed and submitted.
ReservationInv ==
  /\ ReservationTable
  /\ AttestedKey
  /\ \A p \in Replicas : BodyInHand(p)
  /\ CallsUnderWay

\* A poll that begins comes to its heartbeat, unless the process dies.
CycleEnds ==
  \A p \in Replicas : pc[p] = "fetch" ~> pc[p] \in {"idle", "down"}

\* A request signing can satisfy: grunt-api gives the hash of the payload it leads to.
Signable(r) ==
  \/ Class[r] = "legacy" /\ Announced[r] = [id |-> r, nonce |-> OwnNonce[r]]
  \/ Class[r] = "independent" /\ r \notin Misreserved

\* A request whose signing keeps its deadline is in the end submitted or no longer
\* open, whatever rows around it time out, fail, or shift between the pages.
PromptIsSubmitted ==
  \A r \in Prompt :
    Signable(r) => (IsOpen(r) ~> (Submitted(r) \/ ~IsOpen(r)))
=============================================================================
