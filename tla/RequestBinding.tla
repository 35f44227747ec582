--------------------------- MODULE RequestBinding ---------------------------
(***************************************************************************)
(* The intent-request binding check (A.1) of packages/guardian-defaults,   *)
(* src/checks/intent-request-binding.ts, for one request contract: runA1,  *)
(* the reads behind it, what of them the cache keeps, and the verdict on   *)
(* fresh or cached data under the policy of the moment.                    *)
(*                                                                         *)
(* Calls run concurrently and share the cache.  Between any two of their   *)
(* reads the contract's owner and roles may change, a retargetter may take *)
(* it up or drop it, it may fall out of the lookback window, and the       *)
(* operator may start the service anew with another policy over the same   *)
(* cache; a call keeps the policy it began with.  All of this is external; *)
(* history holds every state of it, the present last.  The scan of role    *)
(* events is one step here: RoleScan shows that it implements an answer    *)
(* for one head.                                                           *)
(***************************************************************************)
EXTENDS Integers, Sequences

CONSTANTS
  Factories,  \* request factories, of either sort
  Owners,     \* possible owners of the request contract, retargetters included
  Parties,    \* possible role holders
  NoOwner,    \* owner() reverts or returns no data: there is no such contract
  Policies,   \* the policies an operator may run with
  Starts,     \* states of the world the model starts in
  Calls,      \* calls of runA1 for the contract
  MaxHistory  \* bound on the number of states of the world

Roles == {"puller", "consumer"}

Policy == [trusted : BOOLEAN, factories : SUBSET Factories, flashFactories : SUBSET Factories,
           owners : SUBSET Owners, retargetters : SUBSET Owners,
           pullers : SUBSET Parties, consumers : SUBSET Parties, executors : SUBSET Parties,
           exhausted : {"skip", "fail"}]

\* What can be read of the contract, and the operator's policy: the factories that
\* recognise it and the one that deployed it, its owner and role holders, the parties
\* whose roles were last updated inside the lookback window, whether it was deployed
\* before the window, the retargetters with a fitting operation attached to it.
World == [claims : SUBSET Factories, maker : Factories, owner : Owners \cup {NoOwner},
          roles : [Parties -> SUBSET Roles], recent : SUBSET Parties, old : BOOLEAN,
          fit : SUBSET Owners, policy : Policies]

ASSUME PolicyAssumption  == Policies \subseteq Policy
\* No factory recognises a contract that is not there.
ASSUME StartAssumption   == /\ Starts \subseteq World
                            /\ \A w \in Starts : w.owner = NoOwner => w.claims = {}
ASSUME OwnerAssumption   == NoOwner \notin Owners
ASSUME HistoryAssumption == MaxHistory \in Nat

VARIABLES
  history, \* the states of the world so far, the present last
  cache,   \* the contract's entry in the shared cache
  pc,      \* where each call is
  began,   \* the state of the world each call under way began in
  held,    \* what a call has read so far: owner, claiming factories, A1OnChainData
  answer   \* the call's verdict

callVars == <<pc, began, held, answer>>
vars == <<history, cache, callVars>>

-----------------------------------------------------------------------------
Now == history[Len(history)]
Live == Now.policy

\* deps.policy of a call under way.
Rules(c) == history[began[c]].policy

Accepted(P) == P.factories \cup P.flashFactories

Nobody == [p \in Parties |-> {}]

NoFactory == [kind |-> "noFactory"]
OnChain   == [kind : {"resolved", "tooOld", "probed"}, factory : Factories, owner : Owners,
              holders : [Parties -> SUBSET Roles]]
Data      == OnChain \cup {NoFactory}
NoData    == [kind |-> "none"]

Holders(hs, role) == {p \in Parties : role \in hs[p]}

\* The role updates inside the window: all a scan sees that does not reach deployment.
InWindow(w) == [p \in Parties |-> IF p \in w.recent THEN w.roles[p] ELSE {}]

\* The roles checked of a contract, with the parties that may hold each.
RoleChecks(P, f) ==
  IF f \in P.flashFactories THEN {<<"puller", P.executors>>}
  ELSE {<<"puller", P.pullers>>, <<"consumer", P.consumers>>}

Subset(hs, check) ==
  Holders(hs, check[1]) # {} /\ Holders(hs, check[1]) \subseteq check[2]

\* Holders seen in the window can only reject; otherwise the policy decides.
Partial(hs, check, exhausted) ==
  exhausted = "skip" /\ Holders(hs, check[1]) \subseteq check[2]

\* The verdict on data under policy P: no check failed.
Evaluate(d, P) ==
  /\ d.kind # "noFactory"
  /\ d.factory \in Accepted(P)
  /\ d.owner \in P.owners
  /\ \A check \in RoleChecks(P, d.factory) :
       IF d.kind = "resolved" THEN Subset(d.holders, check)
       ELSE Partial(d.holders, check, P.exhausted)

-----------------------------------------------------------------------------
Init ==
  /\ history \in {<<w>> : w \in Starts}
  /\ cache = NoData
  /\ pc = [c \in Calls |-> "new"]
  /\ began = [c \in Calls |-> 1]
  /\ held = [c \in Calls |-> NoData]
  /\ answer = [c \in Calls |-> "none"]

-----------------------------------------------------------------------------
(* The world.                                                              *)

Becomes(w) ==
  /\ Len(history) < MaxHistory /\ w # Now
  /\ history' = Append(history, w)
  /\ UNCHANGED <<cache, callVars>>

\* A factory deploys the contract, other factories may recognise it, or none does.
Deploy ==
  /\ Now.owner = NoOwner
  /\ \E o \in Owners, C \in SUBSET Factories : \E f \in (IF C = {} THEN {Now.maker} ELSE C) :
       Becomes([Now EXCEPT !.owner = o, !.claims = C, !.maker = f])

Transfer ==
  /\ Now.owner # NoOwner
  /\ \E o \in Owners : Becomes([Now EXCEPT !.owner = o])

SetRoles ==
  /\ Now.owner # NoOwner
  /\ \E p \in Parties, R \in SUBSET Roles :
       Becomes([Now EXCEPT !.roles[p] = R, !.recent = @ \cup {p}])

\* The chain grows on: deployment, and some of the role updates, leave the window.
GrowOld ==
  /\ Now.owner # NoOwner
  /\ \E S \in SUBSET Now.recent : Becomes([Now EXCEPT !.old = TRUE, !.recent = S])

\* A retargetter's operation takes the contract up, or ends or runs late.
Retarget ==
  \E S \in SUBSET UNION {P.retargetters : P \in Policies} : Becomes([Now EXCEPT !.fit = S])

SetPolicy == \E P \in Policies : Becomes([Now EXCEPT !.policy = P])

Evolve == Deploy \/ Transfer \/ SetRoles \/ GrowOld \/ Retarget \/ SetPolicy

-----------------------------------------------------------------------------
(* runA1.                                                                  *)

\* The call answers; what it held is gone.
Conclude(c, verdict) ==
  /\ pc' = [pc EXCEPT ![c] = "done"]
  /\ answer' = [answer EXCEPT ![c] = verdict]
  /\ held' = [held EXCEPT ![c] = NoData]
  /\ began' = [began EXCEPT ![c] = 1]

\* The checks roll up; the request's own deadline may fail whatever the others say.
Judge(c, ok) ==
  \E deadline \in BOOLEAN : Conclude(c, IF ok /\ deadline THEN "approved" ELSE "rejected")

Proceed(c, to, what) ==
  /\ pc' = [pc EXCEPT ![c] = to]
  /\ held' = [held EXCEPT ![c] = what]
  /\ UNCHANGED <<history, cache, answer>>

\* A contract the operator vouches for: nothing is read.
BeginTrusted(c) ==
  /\ pc[c] = "new" /\ Live.trusted
  /\ Judge(c, TRUE)
  /\ UNCHANGED <<history, cache>>

\* A faulty Usable: an entry serves whoever has been listed since.
UsableAnyhow(d) == d # NoData

\* An entry serves unless the operator has since listed its owner as a retargetter.
Usable(d) == d # NoData /\ (d.kind # "noFactory" => d.owner \notin Live.retargetters)

BeginHit(c) ==
  /\ pc[c] = "new" /\ ~Live.trusted /\ Usable(cache)
  /\ Judge(c, Evaluate(cache, Live))
  /\ UNCHANGED <<history, cache>>

\* No entry, an expired one, one that does not serve, or a cache that fails.
BeginMiss(c) ==
  /\ pc[c] = "new" /\ ~Live.trusted
  /\ began' = [began EXCEPT ![c] = Len(history)]
  /\ Proceed(c, "read", NoData)

\* owner() reverts: no accepted factory can have deployed this.
ReadNoContract(c) ==
  /\ pc[c] = "read" /\ Now.owner = NoOwner
  /\ Proceed(c, "write", NoFactory) /\ UNCHANGED began

ReadRetargetter(c) ==
  /\ pc[c] = "read" /\ Now.owner \in Rules(c).retargetters
  /\ Proceed(c, "operation", [owner |-> Now.owner]) /\ UNCHANGED began

\* The accepted factories that answer, those in F failing, and claim the contract.
Claiming(c, F) == (Now.claims \cap Accepted(Rules(c))) \ F

OnClassicPath(c) == pc[c] = "read" /\ Now.owner \in Owners \ Rules(c).retargetters

ReadHits(c) ==
  /\ OnClassicPath(c)
  /\ \E F \in SUBSET Accepted(Rules(c)) :
       /\ Claiming(c, F) # {}
       /\ Proceed(c, "scan", [owner |-> Now.owner, hits |-> Claiming(c, F)])
  /\ UNCHANGED began

\* A faulty Definite: a factory that failed to answer counts as a no.
DefiniteAnyhow(F) == TRUE

\* Every accepted factory answered.
Definite(F) == F = {}

ReadNoHit(c) ==
  /\ OnClassicPath(c)
  /\ \E F \in SUBSET Accepted(Rules(c)) : Claiming(c, F) = {} /\ Definite(F)
  /\ Proceed(c, "write", NoFactory) /\ UNCHANGED began

\* A read fails: the owner, a factory while no other claims the contract, the operation,
\* the head or the logs.
ReadFails(c) ==
  /\ pc[c] \in {"read", "operation", "scan"}
  /\ Conclude(c, "unavailable")
  /\ UNCHANGED <<history, cache>>

\* The retargetter's live operation is judged at once and never cached.
ReadOperation(c) ==
  /\ pc[c] = "operation"
  /\ Judge(c, held[c].owner \in Now.fit)
  /\ UNCHANGED <<history, cache>>

\* The scan, or what stands for it, attributes the contract to factory f.
Learn(c, kind, f, holders) ==
  /\ Proceed(c, "write", [kind |-> kind, factory |-> f, owner |-> held[c].owner, holders |-> holders])
  /\ UNCHANGED began

\* The archive probe finds code before the window; nothing is scanned.
Probe(c) ==
  /\ pc[c] = "scan" /\ Rules(c).exhausted = "fail" /\ Now.old
  /\ \E f \in held[c].hits : Learn(c, "probed", f, Nobody)

\* The scan meets the deployment event of a factory that claimed the contract.
ScanFinds(c) ==
  /\ pc[c] = "scan" /\ ~Now.old /\ Now.maker \in held[c].hits
  /\ Learn(c, "resolved", Now.maker, Now.roles)

\* The scan does not meet it, and has read the window, or the chain from its first block.
ScanExhausts(c) ==
  /\ pc[c] = "scan" /\ (Now.old \/ Now.maker \notin held[c].hits)
  /\ \E f \in held[c].hits :
       \/ Learn(c, "tooOld", f, InWindow(Now))
       \/ ~Now.old /\ Learn(c, "resolved", f, Now.roles)

\* A faulty Cacheable: the probe's finding is cached like any other.
CacheableAnyhow(d) == TRUE

\* The probe's finding has no scan behind it and is not cached.
Cacheable(d) == d.kind # "probed"

\* What was read is cached, if the cache takes it, and judged.
Settle(c) ==
  /\ pc[c] = "write"
  /\ cache' \in {cache} \cup {d \in {held[c]} : Cacheable(d)}
  /\ Judge(c, Evaluate(held[c], Rules(c)))
  /\ UNCHANGED history

Run(c) ==
  \/ BeginTrusted(c) \/ BeginHit(c) \/ BeginMiss(c)
  \/ ReadNoContract(c) \/ ReadRetargetter(c) \/ ReadHits(c) \/ ReadNoHit(c) \/ ReadFails(c)
  \/ ReadOperation(c) \/ Probe(c) \/ ScanFinds(c) \/ ScanExhausts(c) \/ Settle(c)

Next == Evolve \/ \E c \in Calls : Run(c)

Spec == Init /\ [][Next]_vars

-----------------------------------------------------------------------------
(* Correctness.                                                            *)

\* Types; what a call goes on with is what it has read, and the cache never holds a
\* finding without a scan.
TypeOK ==
  /\ history \in Seq(World) /\ history # <<>>
  /\ cache \in Data \cup {NoData} /\ cache.kind # "probed"
  /\ pc \in [Calls -> {"new", "read", "operation", "scan", "write", "done"}]
  /\ began \in [Calls -> 1..Len(history)]
  /\ answer \in [Calls -> {"none", "approved", "rejected", "unavailable"}]
  /\ DOMAIN held = Calls
  /\ \A c \in Calls :
       /\ pc[c] = "operation" => held[c] \in [owner : Owners]
       /\ pc[c] = "scan" => held[c] \in [owner : Owners, hits : SUBSET Factories]
       /\ pc[c] = "write" => held[c] \in Data
       /\ pc[c] \in {"new", "read", "done"} => held[c] = NoData
       /\ pc[c] = "done" <=> answer[c] # "none"

Past(from) == from..Len(history)

\* Who held the roles in world w, all of them known, is whom policy P accepts.
RolesRight(w, P, f) ==
  \A check \in RoleChecks(P, f) :
    Holders(w.roles, check[1]) # {} /\ Holders(w.roles, check[1]) \subseteq check[2]

\* Deployment could not be found in world w, the policy lets that pass, and nobody was
\* granted a role inside the window whom it does not accept.
RolesUnseen(g, w, P, f) ==
  /\ w.old \/ g.claims # {w.maker}
  /\ P.exhausted = "skip"
  /\ \A check \in RoleChecks(P, f) : Holders(w.roles, check[1]) \cap w.recent \subseteq check[2]

\* Owner and factory at some moment since the given one, and the role holders then or
\* later, are what policy P accepts, and the owner is no retargetter to it.
RightSince(from, P) ==
  \E i \in Past(from) : \E j \in Past(i), f \in history[i].claims \cap Accepted(P) :
    /\ history[i].owner \in P.owners \ P.retargetters
    /\ RolesRight(history[j], P, f) \/ RolesUnseen(history[i], history[j], P, f)

\* The owner was an accepted retargetter since the call began, and its operation
\* fitted at that moment or a later one.
Retargeted(c) ==
  \E i \in Past(began[c]) : \E j \in Past(i) :
    history[i].owner \in Rules(c).retargetters \cap history[j].fit

Approves(c) == answer[c] = "none" /\ answer'[c] = "approved"

\* Whatever is cached, however old, and whatever the policy was when it was read: what
\* the check approves, the policy of the call accepts and the chain has shown, during
\* the call itself unless an entry served.
ApprovalJustified ==
  [][\A c \in Calls : Approves(c) =>
       \/ pc[c] = "new" /\ (Live.trusted \/ RightSince(1, Live))
       \/ pc[c] = "write" /\ RightSince(began[c], Rules(c))
       \/ pc[c] = "operation" /\ Retargeted(c)]_vars

Caches(c, kind) == cache' # cache /\ cache'.kind = kind /\ pc[c] = "write" /\ pc'[c] = "done"

\* "No factory" is cached only when, at some moment of the call, none of the factories it
\* accepts claimed the contract; one that failed to answer is no such proof.
NoFactoryIsDefinite ==
  [][\A c \in Calls : Caches(c, "noFactory") =>
       \E i \in Past(began[c]) : history[i].claims \cap Accepted(Rules(c)) = {}]_vars

\* "Too old" is cached only of a contract whose deployment lies before the window, or was
\* made by no accepted factory: the scan accepts the event of any factory that claims it.
DeploymentNotMissed ==
  [][\A c \in Calls : Caches(c, "tooOld") =>
       \E j \in Past(began[c]) :
         history[j].old \/ history[j].maker \notin Accepted(Rules(c))]_vars

\* Why the first two hold, as an inductive invariant.  What data d says of the contract
\* the chain has shown in history h: its owner and factory at some moment since the
\* given one, its role holders then or later.
Shown(h, d, from) ==
  \E i \in from..Len(h) : \E j \in i..Len(h) :
    /\ d.owner = h[i].owner /\ d.factory \in h[i].claims
    /\ d.kind = "resolved" => d.holders = h[j].roles
    /\ d.kind = "tooOld" => /\ d.holders = InWindow(h[j])
                            /\ h[j].old \/ h[i].claims # {h[j].maker}

\* What a call goes on with it has met since it began, and on the branch that its own
\* policy gives the owner.
EvidenceHeld(c) ==
  /\ pc[c] = "operation" =>
       /\ held[c].owner \in Rules(c).retargetters
       /\ \E i \in Past(began[c]) : held[c].owner = history[i].owner
  /\ pc[c] = "scan" =>
       /\ held[c].owner \notin Rules(c).retargetters /\ held[c].hits # {}
       /\ \E i \in Past(began[c]) :
            held[c].owner = history[i].owner /\ held[c].hits \subseteq history[i].claims
  /\ pc[c] = "write" /\ held[c].kind = "noFactory" =>
       \E i \in Past(began[c]) : history[i].claims \cap Accepted(Rules(c)) = {}
  /\ pc[c] = "write" /\ held[c].kind # "noFactory" =>
       /\ held[c].owner \notin Rules(c).retargetters
       /\ Shown(history, held[c], began[c])
       /\ held[c].kind = "probed" => Rules(c).exhausted = "fail"

\* Every entry of the cache, whoever wrote it, and every call under way has its evidence.
EvidenceInv ==
  /\ \A i \in 1..Len(history) : history[i].owner = NoOwner => history[i].claims = {}
  /\ cache.kind \in {"resolved", "tooOld"} => Shown(history, cache, 1)
  /\ \A c \in Calls : EvidenceHeld(c)
=============================================================================
