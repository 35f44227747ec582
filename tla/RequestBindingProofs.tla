------------------------ MODULE RequestBindingProofs ------------------------
(***************************************************************************)
(* Proofs about RequestBinding: for any factories, owners, parties,        *)
(* policies, number of calls and history of the chain, what the check      *)
(* approves and what it caches has its evidence.                           *)
(***************************************************************************)
EXTENDS RequestBinding, TLAPS

-----------------------------------------------------------------------------
(* The inductive invariant.                                                *)

IInv == TypeOK /\ EvidenceInv

\* A world no factory recognises before it is there.
Sound(w) == w \in World /\ (w.owner = NoOwner => w.claims = {})

\* What a call may hold at each of its steps.
Fits(to, what) ==
  \/ to = "read" /\ what = NoData
  \/ to = "operation" /\ what \in [owner : Owners]
  \/ to = "scan" /\ what \in [owner : Owners, hits : SUBSET Factories]
  \/ to = "write" /\ what \in Data

-----------------------------------------------------------------------------
(* Lemmas.                                                                 *)

\* Evidence in a history stays evidence when the history goes on.
LEMMA ShownStays ==
  ASSUME NEW h \in Seq(World), NEW w \in World, NEW d, NEW from \in Nat \ {0},
         Shown(h, d, from)
  PROVE  Shown(Append(h, w), d, from)
<1>. DEFINE g == Append(h, w)
<1>1. Len(h) \in Nat /\ Len(g) = Len(h) + 1 /\ \A k \in 1..Len(h) : g[k] = h[k]
  OBVIOUS
<1>2. PICK i \in from..Len(h) : \E j \in i..Len(h) :
         /\ d.owner = h[i].owner /\ d.factory \in h[i].claims
         /\ d.kind = "resolved" => d.holders = h[j].roles
         /\ d.kind = "tooOld" => /\ d.holders = InWindow(h[j])
                                 /\ h[j].old \/ h[i].claims # {h[j].maker}
  BY DEF Shown
<1>3. PICK j \in i..Len(h) :
         /\ d.owner = h[i].owner /\ d.factory \in h[i].claims
         /\ d.kind = "resolved" => d.holders = h[j].roles
         /\ d.kind = "tooOld" => /\ d.holders = InWindow(h[j])
                                 /\ h[j].old \/ h[i].claims # {h[j].maker}
  BY <1>2
<1>4. /\ i \in from..Len(g) /\ j \in i..Len(g)
      /\ g[i] = h[i] /\ g[j] = h[j]
  BY <1>1
<1>. QED
  BY <1>3, <1>4 DEF Shown

\* Every step of the world adds a sound state to the history and leaves the calls alone.
LEMMA EvolveAppends ==
  ASSUME IInv, Evolve
  PROVE  /\ UNCHANGED <<cache, callVars>>
         /\ \E w : Sound(w) /\ history' = Append(history, w)
<1>1. Now \in World /\ (Now.owner = NoOwner => Now.claims = {})
  BY DEF IInv, TypeOK, EvidenceInv, Now
<1>2. CASE Deploy
  <2>1. PICK o \in Owners, C \in SUBSET Factories, f \in Factories :
           Becomes([Now EXCEPT !.owner = o, !.claims = C, !.maker = f])
    BY <1>1, <1>2 DEF Deploy, World
  <2>2. Sound([Now EXCEPT !.owner = o, !.claims = C, !.maker = f])
    BY <1>1, OwnerAssumption DEF Sound, World
  <2>. QED
    BY <2>1, <2>2 DEF Becomes
<1>3. CASE Transfer
  <2>1. PICK o \in Owners : Becomes([Now EXCEPT !.owner = o])
    BY <1>3 DEF Transfer
  <2>2. Sound([Now EXCEPT !.owner = o])
    BY <1>1, OwnerAssumption DEF Sound, World
  <2>. QED
    BY <2>1, <2>2 DEF Becomes
<1>4. CASE SetRoles
  <2>1. PICK p \in Parties, R \in SUBSET Roles :
           Becomes([Now EXCEPT !.roles[p] = R, !.recent = @ \cup {p}])
    BY <1>4 DEF SetRoles
  <2>2. Sound([Now EXCEPT !.roles[p] = R, !.recent = @ \cup {p}])
    BY <1>1 DEF Sound, World
  <2>. QED
    BY <2>1, <2>2 DEF Becomes
<1>5. CASE GrowOld
  <2>1. PICK S \in SUBSET Now.recent : Becomes([Now EXCEPT !.old = TRUE, !.recent = S])
    BY <1>5 DEF GrowOld
  <2>2. Sound([Now EXCEPT !.old = TRUE, !.recent = S])
    BY <1>1 DEF Sound, World
  <2>. QED
    BY <2>1, <2>2 DEF Becomes
<1>6. CASE Retarget
  <2>1. PICK S \in SUBSET UNION {P.retargetters : P \in Policies} :
           Becomes([Now EXCEPT !.fit = S])
    BY <1>6 DEF Retarget
  <2>2. S \subseteq Owners
    BY PolicyAssumption DEF Policy
  <2>3. Sound([Now EXCEPT !.fit = S])
    BY <1>1, <2>2 DEF Sound, World
  <2>. QED
    BY <2>1, <2>3 DEF Becomes
<1>7. CASE SetPolicy
  <2>1. PICK P \in Policies : Becomes([Now EXCEPT !.policy = P])
    BY <1>7 DEF SetPolicy
  <2>2. Sound([Now EXCEPT !.policy = P])
    BY <1>1 DEF Sound, World
  <2>. QED
    BY <2>1, <2>2 DEF Becomes
<1>. QED
  BY <1>2, <1>3, <1>4, <1>5, <1>6, <1>7 DEF Evolve

\* A call whose own variables and history do not move keeps its evidence.
LEMMA OthersKeepEvidence ==
  ASSUME TypeOK, NEW d \in Calls, EvidenceHeld(d), history' = history,
         pc'[d] = pc[d], held'[d] = held[d], began'[d] = began[d]
  PROVE  EvidenceHeld(d)'
<1>1. Rules(d)' = Rules(d) /\ Past(began[d])' = Past(began[d])
  BY DEF Rules, Past
<1>2. Shown(history, held[d], began[d])' = Shown(history, held[d], began[d])
  BY DEF Shown, InWindow
<1>. QED
  BY <1>1, <1>2 DEF EvidenceHeld, Accepted

\* One step of call c that does not end it.
LEMMA ProceedKeeps ==
  ASSUME IInv, NEW c \in Calls, NEW to, NEW what, Proceed(c, to, what),
         pc[c] # "done", Fits(to, what),
         began' \in [Calls -> 1..Len(history)], \A d \in Calls \ {c} : began'[d] = began[d],
         EvidenceHeld(c)'
  PROVE  IInv'
<1>. USE DEF Proceed
<1>1. TypeOK /\ EvidenceInv /\ c \in DOMAIN held /\ c \in DOMAIN pc
  BY DEF IInv, TypeOK
<1>2. /\ to \in {"read", "operation", "scan", "write"}
      /\ pc'[c] = to /\ held'[c] = what
      /\ \A d \in Calls \ {c} : pc'[d] = pc[d] /\ held'[d] = held[d]
  BY <1>1 DEF Fits, TypeOK
<1>3. pc' \in [Calls -> {"new", "read", "operation", "scan", "write", "done"}]
  BY <1>1, <1>2 DEF TypeOK
<1>4. ASSUME NEW d \in Calls
      PROVE  /\ pc'[d] = "operation" => held'[d] \in [owner : Owners]
             /\ pc'[d] = "scan" => held'[d] \in [owner : Owners, hits : SUBSET Factories]
             /\ pc'[d] = "write" => held'[d] \in Data
             /\ pc'[d] \in {"new", "read", "done"} => held'[d] = NoData
             /\ pc'[d] = "done" <=> answer'[d] # "none"
  <2>1. CASE d = c
    BY <1>1, <1>2, <2>1 DEF TypeOK, Fits
  <2>2. CASE d # c
    BY <1>1, <1>2, <2>2 DEF TypeOK
  <2>. QED
    BY <2>1, <2>2
<1>5. TypeOK'
  <2>1. DOMAIN held' = Calls
    BY <1>1 DEF TypeOK
  <2>. QED
    BY <1>1, <1>3, <1>4, <2>1 DEF TypeOK
<1>6. \A d \in Calls : EvidenceHeld(d)'
  BY <1>1, <1>2, OthersKeepEvidence DEF EvidenceInv
<1>7. EvidenceInv'
  BY <1>1, <1>6 DEF EvidenceInv
<1>. QED
  BY <1>5, <1>7 DEF IInv

\* The last step of call c, which may leave an entry that has its evidence.
LEMMA ConcludeKeeps ==
  ASSUME IInv, NEW c \in Calls, NEW verdict \in {"approved", "rejected", "unavailable"},
         Conclude(c, verdict), history' = history,
         \/ cache' = cache
         \/ /\ cache' \in Data /\ cache'.kind # "probed"
            /\ cache'.kind # "noFactory" => Shown(history, cache, 1)'
  PROVE  IInv'
<1>. USE DEF Conclude
<1>1. TypeOK /\ EvidenceInv /\ c \in DOMAIN held /\ 1 \in 1..Len(history)
  BY DEF IInv, TypeOK
<1>2. /\ pc'[c] = "done" /\ held'[c] = NoData /\ answer'[c] = verdict
      /\ \A d \in Calls \ {c} : /\ pc'[d] = pc[d] /\ held'[d] = held[d]
                                /\ began'[d] = began[d] /\ answer'[d] = answer[d]
  BY <1>1 DEF TypeOK
<1>3. /\ pc' \in [Calls -> {"new", "read", "operation", "scan", "write", "done"}]
      /\ began' \in [Calls -> 1..Len(history)]
      /\ answer' \in [Calls -> {"none", "approved", "rejected", "unavailable"}]
  BY <1>1 DEF TypeOK
<1>4. ASSUME NEW d \in Calls
      PROVE  /\ pc'[d] = "operation" => held'[d] \in [owner : Owners]
             /\ pc'[d] = "scan" => held'[d] \in [owner : Owners, hits : SUBSET Factories]
             /\ pc'[d] = "write" => held'[d] \in Data
             /\ pc'[d] \in {"new", "read", "done"} => held'[d] = NoData
             /\ pc'[d] = "done" <=> answer'[d] # "none"
  <2>1. CASE d = c
    BY <1>2, <2>1
  <2>2. CASE d # c
    BY <1>1, <1>2, <2>2 DEF TypeOK
  <2>. QED
    BY <2>1, <2>2
<1>5. TypeOK'
  <2>1. cache' \in Data \cup {NoData} /\ cache'.kind # "probed"
    BY <1>1 DEF TypeOK
  <2>2. DOMAIN held' = Calls
    BY <1>1 DEF TypeOK
  <2>. QED
    BY <1>1, <1>3, <1>4, <2>1, <2>2 DEF TypeOK
<1>6. ASSUME NEW d \in Calls
      PROVE  EvidenceHeld(d)'
  <2>1. CASE d = c
    BY <1>2, <2>1 DEF EvidenceHeld
  <2>2. CASE d # c
    BY <1>1, <1>2, <2>2, OthersKeepEvidence DEF EvidenceInv
  <2>. QED
    BY <2>1, <2>2
<1>7. cache'.kind \in {"resolved", "tooOld"} => Shown(history, cache, 1)'
  <2>1. cache' = cache => Shown(history, cache, 1)' = Shown(history, cache, 1)
    BY DEF Shown, InWindow
  <2>. QED
    BY <1>1, <2>1 DEF EvidenceInv
<1>. QED
  BY <1>1, <1>5, <1>6, <1>7 DEF IInv, EvidenceInv

\* The world moves on: what calls and cache hold keeps its evidence.
LEMMA EvolveKeeps ==
  ASSUME IInv, Evolve
  PROVE  IInv'
<1>1. PICK w : Sound(w) /\ history' = Append(history, w)
  BY EvolveAppends
<1>2. UNCHANGED <<cache, pc, began, held, answer>>
  BY EvolveAppends DEF callVars
<1>. DEFINE n == Len(history)
<1>3. /\ TypeOK /\ EvidenceInv /\ history \in Seq(World) /\ n \in Nat \ {0}
      /\ w \in World /\ began \in [Calls -> 1..n]
  BY <1>1 DEF IInv, TypeOK, Sound
<1>4. /\ history' \in Seq(World) /\ Len(history') = n + 1 /\ history'[n + 1] = w
      /\ \A k \in 1..n : history'[k] = history[k]
  BY <1>1, <1>3
<1>5. TypeOK'
  <2>1. began' \in [Calls -> 1..Len(history')]
    BY <1>2, <1>3, <1>4
  <2>. QED
    BY <1>2, <1>3, <1>4, <2>1 DEF TypeOK
<1>6. \A i \in 1..Len(history') : history'[i].owner = NoOwner => history'[i].claims = {}
  <2>1. \A i \in 1..n : history[i].owner = NoOwner => history[i].claims = {}
    BY <1>3 DEF EvidenceInv
  <2>. QED
    BY <1>1, <1>3, <1>4, <2>1 DEF Sound
<1>7. cache'.kind \in {"resolved", "tooOld"} => Shown(history, cache, 1)'
  BY <1>1, <1>2, <1>3, ShownStays DEF EvidenceInv
<1>8. ASSUME NEW c \in Calls
      PROVE  EvidenceHeld(c)'
  <2>1. /\ EvidenceHeld(c) /\ began[c] \in 1..n
        /\ Rules(c)' = Rules(c) /\ pc'[c] = pc[c] /\ held'[c] = held[c] /\ began'[c] = began[c]
    BY <1>2, <1>3, <1>4 DEF EvidenceInv, Rules
  <2>2. \A i \in Past(began[c]) : i \in Past(began[c])' /\ history'[i] = history[i]
    BY <1>2, <1>3, <1>4, <2>1 DEF Past
  <2>3. Shown(history, held[c], began[c]) => Shown(history, held[c], began[c])'
    BY <1>1, <1>2, <1>3, <2>1, ShownStays
  <2>4. pc[c] = "write" /\ held[c].kind = "noFactory" =>
          \E i \in Past(began[c])' : history'[i].claims \cap Accepted(Rules(c)') = {}
    BY <2>1, <2>2 DEF EvidenceHeld
  <2>5. pc[c] = "scan" =>
          \E i \in Past(began[c])' :
            held[c].owner = history'[i].owner /\ held[c].hits \subseteq history'[i].claims
    BY <2>1, <2>2 DEF EvidenceHeld
  <2>6. pc[c] = "operation" => \E i \in Past(began[c])' : held[c].owner = history'[i].owner
    BY <2>1, <2>2 DEF EvidenceHeld
  <2>. QED
    BY <2>1, <2>3, <2>4, <2>5, <2>6 DEF EvidenceHeld, Accepted
<1>. QED
  BY <1>5, <1>6, <1>7, <1>8 DEF IInv, EvidenceInv

\* What a read answers is a sound state, and the present is part of every call's time.
LEMMA NowIsPast ==
  ASSUME IInv, NEW c \in Calls
  PROVE  /\ Now \in World /\ (Now.owner = NoOwner => Now.claims = {})
         /\ Now = history[Len(history)] /\ Len(history) \in Past(began[c])
         /\ Len(history) \in Nat \ {0} /\ began[c] \in 1..Len(history)
         /\ history[began[c]] \in World /\ Rules(c) \in Policy
<1>1. /\ history \in Seq(World) /\ Len(history) \in Nat \ {0} /\ began[c] \in 1..Len(history)
  BY DEF IInv, TypeOK
<1>2. history[began[c]] \in World /\ history[Len(history)] \in World
  BY <1>1
<1>3. Rules(c) \in Policy
  BY <1>2, PolicyAssumption DEF Rules, World
<1>. QED
  BY <1>1, <1>2, <1>3 DEF IInv, EvidenceInv, Now, Past

\* The steps of a call that begin it.
LEMMA BeginKeeps ==
  ASSUME IInv, NEW c \in Calls, BeginTrusted(c) \/ BeginHit(c) \/ BeginMiss(c)
  PROVE  IInv'
<1>1. CASE BeginTrusted(c) \/ BeginHit(c)
  <2>1. PICK verdict \in {"approved", "rejected", "unavailable"} : Conclude(c, verdict)
    BY <1>1 DEF BeginTrusted, BeginHit, Judge
  <2>. QED
    BY <1>1, <2>1, ConcludeKeeps DEF BeginTrusted, BeginHit
<1>2. CASE BeginMiss(c)
  <2>1. /\ pc[c] # "done" /\ Fits("read", NoData)
        /\ began' \in [Calls -> 1..Len(history)]
        /\ \A d \in Calls \ {c} : began'[d] = began[d]
    BY <1>2, NowIsPast DEF BeginMiss, Fits, IInv, TypeOK
  <2>2. EvidenceHeld(c)'
    BY <1>2 DEF BeginMiss, Proceed, EvidenceHeld, IInv, TypeOK
  <2>. QED
    BY <1>2, <2>1, <2>2, ProceedKeeps DEF BeginMiss
<1>. QED
  BY <1>1, <1>2

\* The first multicall and the retargetter's operation.
LEMMA ReadKeeps ==
  ASSUME IInv, NEW c \in Calls,
         \/ ReadNoContract(c) \/ ReadRetargetter(c) \/ ReadHits(c) \/ ReadNoHit(c)
         \/ ReadFails(c) \/ ReadOperation(c)
  PROVE  IInv'
<1>. DEFINE n == Len(history)
<1>1. /\ TypeOK /\ began \in [Calls -> 1..n]
      /\ Now \in World /\ (Now.owner = NoOwner => Now.claims = {})
      /\ Now = history[n] /\ n \in Past(began[c])
  BY NowIsPast DEF IInv, TypeOK
<1>2. CASE ReadNoContract(c)
  <2>1. /\ Proceed(c, "write", NoFactory) /\ pc[c] # "done" /\ Fits("write", NoFactory)
        /\ UNCHANGED <<history, began>> /\ Rules(c)' = Rules(c) /\ Past(began[c])' = Past(began[c])
    BY <1>2 DEF ReadNoContract, Proceed, Fits, Data, Rules, Past
  <2>2. pc'[c] = "write" /\ held'[c] = NoFactory
    BY <1>1, <2>1 DEF Proceed, TypeOK
  <2>3. history[n].claims \cap Accepted(Rules(c)) = {}
    BY <1>1, <1>2 DEF ReadNoContract
  <2>4. EvidenceHeld(c)'
    BY <1>1, <2>1, <2>2, <2>3 DEF EvidenceHeld, NoFactory, Accepted
  <2>. QED
    BY <1>1, <2>1, <2>4, ProceedKeeps
<1>3. CASE ReadNoHit(c)
  <2>1. /\ Proceed(c, "write", NoFactory) /\ pc[c] # "done" /\ Fits("write", NoFactory)
        /\ UNCHANGED <<history, began>> /\ Rules(c)' = Rules(c) /\ Past(began[c])' = Past(began[c])
    BY <1>3 DEF ReadNoHit, OnClassicPath, Proceed, Fits, Data, Rules, Past
  <2>2. pc'[c] = "write" /\ held'[c] = NoFactory
    BY <1>1, <2>1 DEF Proceed, TypeOK
  <2>3. history[n].claims \cap Accepted(Rules(c)) = {}
    BY <1>1, <1>3 DEF ReadNoHit, Claiming, Definite
  <2>4. EvidenceHeld(c)'
    BY <1>1, <2>1, <2>2, <2>3 DEF EvidenceHeld, NoFactory, Accepted
  <2>. QED
    BY <1>1, <2>1, <2>4, ProceedKeeps
<1>4. CASE ReadRetargetter(c)
  <2>. DEFINE what == [owner |-> Now.owner]
  <2>1. /\ Proceed(c, "operation", what) /\ pc[c] # "done"
        /\ UNCHANGED <<history, began>> /\ Rules(c)' = Rules(c) /\ Past(began[c])' = Past(began[c])
    BY <1>4 DEF ReadRetargetter, Proceed, Rules, Past
  <2>2. pc'[c] = "operation" /\ held'[c] = what /\ Now.owner \in Rules(c).retargetters
    BY <1>1, <1>4, <2>1 DEF ReadRetargetter, Proceed, TypeOK
  <2>3. Fits("operation", what)
    BY <2>2, NowIsPast DEF Fits, Policy
  <2>4. EvidenceHeld(c)'
    BY <1>1, <2>1, <2>2 DEF EvidenceHeld
  <2>. QED
    BY <1>1, <2>1, <2>3, <2>4, ProceedKeeps
<1>5. CASE ReadHits(c)
  <2>1. PICK F \in SUBSET Accepted(Rules(c)) :
           /\ Claiming(c, F) # {}
           /\ Proceed(c, "scan", [owner |-> Now.owner, hits |-> Claiming(c, F)])
    BY <1>5 DEF ReadHits
  <2>. DEFINE what == [owner |-> Now.owner, hits |-> Claiming(c, F)]
  <2>2. /\ Now.owner \in Owners \ Rules(c).retargetters
        /\ Claiming(c, F) \subseteq Now.claims /\ Now.claims \subseteq Factories
    BY <1>1, <1>5 DEF ReadHits, OnClassicPath, Claiming, World
  <2>3. /\ pc[c] # "done"
        /\ UNCHANGED <<history, began>> /\ Rules(c)' = Rules(c) /\ Past(began[c])' = Past(began[c])
    BY <1>5, <2>1 DEF ReadHits, OnClassicPath, Proceed, Rules, Past
  <2>4. pc'[c] = "scan" /\ held'[c] = what
    BY <1>1, <2>1 DEF Proceed, TypeOK
  <2>5. Fits("scan", what)
    BY <2>2 DEF Fits
  <2>6. EvidenceHeld(c)'
    BY <1>1, <2>1, <2>2, <2>3, <2>4 DEF EvidenceHeld
  <2>. QED
    BY <1>1, <2>1, <2>3, <2>5, <2>6, ProceedKeeps
<1>6. CASE ReadFails(c)
  BY <1>6, ConcludeKeeps DEF ReadFails
<1>7. CASE ReadOperation(c)
  <2>1. PICK verdict \in {"approved", "rejected", "unavailable"} : Conclude(c, verdict)
    BY <1>7 DEF ReadOperation, Judge
  <2>. QED
    BY <1>7, <2>1, ConcludeKeeps DEF ReadOperation
<1>. QED
  BY <1>2, <1>3, <1>4, <1>5, <1>6, <1>7

\* What a scan, or the probe in its place, makes of a contract has its evidence.
LEMMA LearnKeeps ==
  ASSUME IInv, NEW c \in Calls, NEW kind \in {"resolved", "tooOld", "probed"},
         NEW f \in held[c].hits, NEW hs \in [Parties -> SUBSET Roles],
         pc[c] = "scan", Learn(c, kind, f, hs),
         kind = "resolved" => hs = Now.roles,
         kind = "tooOld" => hs = InWindow(Now) /\ (Now.old \/ Now.maker \notin held[c].hits),
         kind = "probed" => Rules(c).exhausted = "fail"
  PROVE  IInv'
<1>. DEFINE n == Len(history)
            what == [kind |-> kind, factory |-> f, owner |-> held[c].owner, holders |-> hs]
<1>1. /\ TypeOK /\ Now = history[n] /\ n \in Past(began[c]) /\ began[c] \in 1..n
      /\ Now \in World /\ n \in Nat \ {0} /\ began \in [Calls -> 1..n]
  BY NowIsPast DEF IInv, TypeOK
<1>2. held[c] \in [owner : Owners, hits : SUBSET Factories] /\ EvidenceHeld(c)
  BY DEF IInv, TypeOK, EvidenceInv
<1>3. PICK i \in Past(began[c]) :
         held[c].owner = history[i].owner /\ held[c].hits \subseteq history[i].claims
  BY <1>2 DEF EvidenceHeld
<1>4. i \in began[c]..n /\ n \in i..n
  BY <1>1, <1>3 DEF Past
<1>5. kind = "tooOld" => history[n].old \/ history[i].claims # {history[n].maker}
  BY <1>1, <1>3
<1>6. Shown(history, what, began[c])
  BY <1>1, <1>3, <1>4, <1>5 DEF Shown
<1>7. /\ Proceed(c, "write", what) /\ UNCHANGED <<history, began>> /\ pc[c] # "done"
      /\ Rules(c)' = Rules(c)
  BY DEF Learn, Proceed, Rules
<1>8. pc'[c] = "write" /\ held'[c] = what
  BY <1>1, <1>7 DEF Proceed, TypeOK
<1>9. what \in OnChain /\ what.kind # "noFactory"
  BY <1>2 DEF OnChain
<1>10. Shown(history, held[c], began[c])'
  BY <1>6, <1>7, <1>8 DEF Shown, InWindow
<1>11. EvidenceHeld(c)'
  BY <1>2, <1>7, <1>8, <1>9, <1>10 DEF EvidenceHeld
<1>. QED
  BY <1>1, <1>7, <1>9, <1>11, ProceedKeeps DEF Fits, Data

\* The probe and the scan.
LEMMA ScanKeeps ==
  ASSUME IInv, NEW c \in Calls, Probe(c) \/ ScanFinds(c) \/ ScanExhausts(c)
  PROVE  IInv'
<1>1. /\ Nobody \in [Parties -> SUBSET Roles] /\ Now.roles \in [Parties -> SUBSET Roles]
      /\ InWindow(Now) \in [Parties -> SUBSET Roles]
  BY NowIsPast DEF Nobody, World, InWindow
<1>2. CASE Probe(c)
  BY <1>1, <1>2, LearnKeeps DEF Probe
<1>3. CASE ScanFinds(c)
  BY <1>1, <1>3, LearnKeeps DEF ScanFinds
<1>4. CASE ScanExhausts(c)
  <2>1. PICK f \in held[c].hits :
           \/ Learn(c, "tooOld", f, InWindow(Now))
           \/ ~Now.old /\ Learn(c, "resolved", f, Now.roles)
    BY <1>4 DEF ScanExhausts
  <2>2. pc[c] = "scan" /\ (Now.old \/ Now.maker \notin held[c].hits)
    BY <1>4 DEF ScanExhausts
  <2>3. CASE Learn(c, "tooOld", f, InWindow(Now))
    BY <1>1, <2>2, <2>3, LearnKeeps
  <2>4. CASE Learn(c, "resolved", f, Now.roles)
    BY <1>1, <2>2, <2>4, LearnKeeps
  <2>. QED
    BY <2>1, <2>3, <2>4
<1>. QED
  BY <1>2, <1>3, <1>4

\* A call that settles leaves what it has evidence for, since the call and so ever.
LEMMA SettleKeeps ==
  ASSUME IInv, NEW c \in Calls, Settle(c)
  PROVE  IInv'
<1>1. PICK verdict \in {"approved", "rejected", "unavailable"} : Conclude(c, verdict)
  BY DEF Settle, Judge
<1>2. /\ held[c] \in Data /\ began[c] \in 1..Len(history) /\ Len(history) \in Nat
      /\ EvidenceHeld(c) /\ pc[c] = "write" /\ history' = history
  BY DEF Settle, IInv, TypeOK, EvidenceInv
<1>3. CASE cache' = cache
  BY <1>1, <1>2, <1>3, ConcludeKeeps
<1>4. CASE cache' = held[c] /\ Cacheable(held[c])
  <2>1. held[c].kind # "noFactory" => Shown(history, held[c], 1)
    <3>1. began[c]..Len(history) \subseteq 1..Len(history)
      BY <1>2
    <3>. QED
      BY <1>2, <3>1 DEF EvidenceHeld, Shown
  <2>2. Shown(history, cache, 1)' = Shown(history, held[c], 1)
    BY <1>2, <1>4 DEF Shown, InWindow
  <2>. QED
    BY <1>1, <1>2, <1>4, <2>1, <2>2, ConcludeKeeps DEF Cacheable
<1>5. cache' = cache \/ (cache' = held[c] /\ Cacheable(held[c]))
  BY DEF Settle
<1>. QED
  BY <1>3, <1>4, <1>5

\* The invariant holds at the start: nothing is held and nothing is cached.
LEMMA IInvInit == Init => IInv
<1>. SUFFICES ASSUME Init PROVE IInv
  OBVIOUS
<1>1. PICK w \in Starts : history = <<w>>
  BY DEF Init
<1>2. w \in World /\ (w.owner = NoOwner => w.claims = {})
  BY StartAssumption
<1>3. history \in Seq(World) /\ Len(history) = 1 /\ history[1] = w
  BY <1>1, <1>2
<1>4. TypeOK
  <2>1. cache \in Data \cup {NoData} /\ cache.kind # "probed"
    BY DEF Init, NoData
  <2>2. began \in [Calls -> 1..Len(history)]
    BY <1>3 DEF Init
  <2>3. \A c \in Calls : pc[c] = "new" /\ held[c] = NoData /\ answer[c] = "none"
    BY DEF Init
  <2>4. /\ pc \in [Calls -> {"new", "read", "operation", "scan", "write", "done"}]
        /\ answer \in [Calls -> {"none", "approved", "rejected", "unavailable"}]
        /\ DOMAIN held = Calls
    BY DEF Init
  <2>5. history # <<>>
    BY <1>1
  <2>. QED
    BY <1>3, <2>1, <2>2, <2>3, <2>4, <2>5 DEF TypeOK
<1>5. EvidenceInv
  BY <1>2, <1>3 DEF Init, EvidenceInv, EvidenceHeld, NoData
<1>. QED
  BY <1>4, <1>5 DEF IInv

\* Every step keeps it.
LEMMA IInvNext == IInv /\ [Next]_vars => IInv'
<1>. SUFFICES ASSUME IInv, [Next]_vars PROVE IInv'
  OBVIOUS
<1>1. CASE Evolve
  BY <1>1, EvolveKeeps
<1>2. ASSUME NEW c \in Calls, Run(c)
      PROVE  IInv'
  BY <1>2, BeginKeeps, ReadKeeps, ScanKeeps, SettleKeeps DEF Run
<1>3. CASE UNCHANGED vars
  <2>1. TypeOK'
    BY <1>3 DEF vars, callVars, IInv, TypeOK
  <2>2. \A c \in Calls : EvidenceHeld(c)'
    BY <1>3, OthersKeepEvidence DEF vars, callVars, IInv, EvidenceInv
  <2>3. Shown(history, cache, 1)' = Shown(history, cache, 1)
    BY <1>3 DEF vars, Shown, InWindow
  <2>. QED
    BY <1>3, <2>1, <2>2, <2>3 DEF vars, IInv, EvidenceInv
<1>. QED
  BY <1>1, <1>2, <1>3 DEF Next

\* At every step of every behaviour, cache and calls hold what they have evidence for.
LEMMA IInvCorrect == Spec => []IInv
<1>1. Init => IInv
  BY IInvInit
<1>2. IInv /\ [Next]_vars => IInv'
  BY IInvNext
<1>. QED
  BY <1>1, <1>2, PTL DEF Spec

-----------------------------------------------------------------------------
(* Theorems.                                                               *)

\* Types hold, and the cache never holds a finding without a scan (runA1's cache.set).
THEOREM TypeCorrect == Spec => []TypeOK
<1>1. IInv => TypeOK
  BY DEF IInv
<1>. QED
  BY <1>1, IInvCorrect, PTL

\* Every cache entry and every call under way has its evidence in the chain's history.
THEOREM EvidenceCorrect == Spec => []EvidenceInv
<1>1. IInv => EvidenceInv
  BY DEF IInv
<1>. QED
  BY <1>1, IInvCorrect, PTL

\* Data that was shown and that policy P lets pass is right since then: what evaluateA1
\* approves, the chain has shown and the policy accepts.
LEMMA EvaluateIsRight ==
  ASSUME IInv, NEW d \in OnChain, NEW P \in Policy, NEW from \in 1..Len(history),
         Shown(history, d, from), Evaluate(d, P), d.owner \notin P.retargetters,
         d.kind = "probed" => P.exhausted = "fail"
  PROVE  RightSince(from, P)
<1>1. PICK i \in from..Len(history) : \E j \in i..Len(history) :
         /\ d.owner = history[i].owner /\ d.factory \in history[i].claims
         /\ d.kind = "resolved" => d.holders = history[j].roles
         /\ d.kind = "tooOld" => /\ d.holders = InWindow(history[j])
                                 /\ history[j].old \/ history[i].claims # {history[j].maker}
  BY DEF Shown
<1>2. PICK j \in i..Len(history) :
         /\ d.owner = history[i].owner /\ d.factory \in history[i].claims
         /\ d.kind = "resolved" => d.holders = history[j].roles
         /\ d.kind = "tooOld" => /\ d.holders = InWindow(history[j])
                                 /\ history[j].old \/ history[i].claims # {history[j].maker}
  BY <1>1
<1>. DEFINE f == d.factory
<1>3. /\ f \in history[i].claims \cap Accepted(P)
      /\ history[i].owner \in P.owners \ P.retargetters
  BY <1>2 DEF Evaluate
<1>4. CASE d.kind = "resolved"
  <2>1. RolesRight(history[j], P, f)
    BY <1>2, <1>4 DEF Evaluate, Subset, RolesRight, Holders
  <2>. QED
    BY <1>2, <1>3, <2>1 DEF RightSince, Past
<1>5. CASE d.kind # "resolved"
  <2>1. /\ P.exhausted = "skip"
        /\ \A check \in RoleChecks(P, f) : Holders(d.holders, check[1]) \subseteq check[2]
    <3>1. RoleChecks(P, f) # {}
      BY DEF RoleChecks
    <3>. QED
      BY <1>5, <3>1 DEF Evaluate, Partial
  <2>2. d.kind = "tooOld"
    BY <1>5, <2>1 DEF OnChain
  <2>3. \A role : Holders(history[j].roles, role) \cap history[j].recent
                    \subseteq Holders(d.holders, role)
    BY <1>2, <2>2 DEF Holders, InWindow
  <2>4. RolesUnseen(history[i], history[j], P, f)
    BY <1>2, <2>1, <2>2, <2>3 DEF RolesUnseen
  <2>. QED
    BY <1>2, <1>3, <2>4 DEF RightSince, Past
<1>. QED
  BY <1>4, <1>5

\* Whatever is cached, however old, and whatever the policy was when it was read: what
\* the check approves, the policy of the call accepts and the chain has shown (runA1).
THEOREM ApprovalJustifiedCorrect == Spec => ApprovalJustified
<1>. DEFINE Justified(c) ==
              \/ pc[c] = "new" /\ (Live.trusted \/ RightSince(1, Live))
              \/ pc[c] = "write" /\ RightSince(began[c], Rules(c))
              \/ pc[c] = "operation" /\ Retargeted(c)
<1>1. ASSUME IInv, [Next]_vars, NEW c \in Calls, Approves(c)
      PROVE  Justified(c)
  <2>1. /\ answer[c] # answer'[c] /\ DOMAIN answer = Calls
        /\ Now \in World /\ Rules(c) \in Policy /\ Live \in Policy
    <3>1. answer[c] # answer'[c] /\ DOMAIN answer = Calls
      BY <1>1 DEF Approves, IInv, TypeOK
    <3>2. Now \in World /\ Rules(c) \in Policy
      BY <1>1, NowIsPast
    <3>3. Live \in Policy
      BY <3>2, PolicyAssumption DEF Live, World
    <3>. QED
      BY <3>1, <3>2, <3>3
  <2>2. ~Evolve /\ ~UNCHANGED vars
    BY <1>1, <2>1, EvolveAppends DEF callVars, vars
  <2>3. ASSUME NEW d \in Calls, Run(d)
        PROVE  d = c /\ Conclude(c, "approved")
    <3>1. CASE \E to, what : Proceed(d, to, what)
      BY <2>1, <3>1 DEF Proceed
    <3>2. CASE \E verdict \in {"approved", "rejected", "unavailable"} : Conclude(d, verdict)
      BY <1>1, <2>1, <3>2 DEF Conclude, Approves
    <3>3. \/ \E to, what : Proceed(d, to, what)
          \/ \E verdict \in {"approved", "rejected", "unavailable"} : Conclude(d, verdict)
      BY <2>3 DEF Run, BeginTrusted, BeginHit, BeginMiss, ReadNoContract, ReadRetargetter,
                  ReadHits, ReadNoHit, ReadFails, ReadOperation, Probe, ScanFinds,
                  ScanExhausts, Settle, Judge, Learn
    <3>. QED
      BY <3>1, <3>2, <3>3
  <2>4. PICK d \in Calls : Run(d)
    BY <1>1, <2>2 DEF Next
  <2>5. d = c /\ Conclude(c, "approved")
    BY <2>3, <2>4
  <2>6. /\ 1 \in 1..Len(history) /\ began[c] \in 1..Len(history)
        /\ EvidenceInv /\ TypeOK /\ EvidenceHeld(c)
    BY <1>1 DEF IInv, TypeOK, EvidenceInv
  <2>7. CASE BeginTrusted(c)
    BY <2>7 DEF BeginTrusted
  <2>8. CASE BeginHit(c)
    <3>1. Evaluate(cache, Live) /\ cache # NoData /\ pc[c] = "new"
      BY <1>1, <2>1, <2>8 DEF BeginHit, Usable, Judge, Conclude, Approves
    <3>2. cache \in OnChain /\ cache.kind \in {"resolved", "tooOld"}
      BY <2>6, <3>1 DEF TypeOK, Data, OnChain, NoFactory, Evaluate
    <3>3. cache.owner \notin Live.retargetters /\ Shown(history, cache, 1)
      BY <2>6, <2>8, <3>2 DEF BeginHit, Usable, EvidenceInv
    <3>. QED
      BY <1>1, <2>1, <2>6, <3>1, <3>2, <3>3, EvaluateIsRight
  <2>9. CASE Settle(c)
    <3>1. Evaluate(held[c], Rules(c)) /\ pc[c] = "write"
      BY <1>1, <2>1, <2>9 DEF Settle, Judge, Conclude, Approves
    <3>2. held[c] \in OnChain /\ held[c].kind # "noFactory"
      BY <2>6, <3>1 DEF TypeOK, Data, OnChain, NoFactory, Evaluate
    <3>. QED
      BY <1>1, <2>1, <2>6, <3>1, <3>2, EvaluateIsRight DEF EvidenceHeld
  <2>10. CASE ReadOperation(c)
    <3>1. held[c].owner \in Now.fit /\ pc[c] = "operation"
      BY <1>1, <2>1, <2>10 DEF ReadOperation, Judge, Conclude, Approves
    <3>2. PICK i \in Past(began[c]) : held[c].owner = history[i].owner
      BY <2>6, <3>1 DEF EvidenceHeld
    <3>3. held[c].owner \in Rules(c).retargetters
      BY <2>6, <3>1 DEF EvidenceHeld
    <3>4. Len(history) \in Past(i) /\ Now = history[Len(history)]
      BY <1>1, <2>6, <3>2, NowIsPast DEF Past
    <3>. QED
      BY <3>1, <3>2, <3>3, <3>4 DEF Retargeted
  <2>11. ~(\E to, what : Proceed(c, to, what)) /\ ~Conclude(c, "unavailable")
    BY <2>1, <2>5 DEF Proceed, Conclude
  <2>12. ~(\/ BeginMiss(c) \/ ReadNoContract(c) \/ ReadRetargetter(c) \/ ReadHits(c)
           \/ ReadNoHit(c) \/ ReadFails(c) \/ Probe(c) \/ ScanFinds(c) \/ ScanExhausts(c))
    BY <2>11 DEF BeginMiss, ReadNoContract, ReadRetargetter, ReadHits, ReadNoHit, ReadFails,
                 Probe, ScanFinds, ScanExhausts, Learn
  <2>. QED
    BY <2>4, <2>5, <2>7, <2>8, <2>9, <2>10, <2>12 DEF Run
<1>2. IInv /\ [Next]_vars => [\A c \in Calls : Approves(c) => Justified(c)]_vars
  BY <1>1
<1>. QED
  BY <1>2, IInvCorrect, PTL DEF Spec, ApprovalJustified

\* "No factory" is cached only when, at some moment of the call, none of the factories it
\* accepts claimed the contract; one that failed to answer is no such proof.
THEOREM NoFactoryIsDefiniteCorrect == Spec => NoFactoryIsDefinite
<1>. DEFINE Absent(c) ==
              \E i \in Past(began[c]) : history[i].claims \cap Accepted(Rules(c)) = {}
<1>1. ASSUME IInv, [Next]_vars, NEW c \in Calls, Caches(c, "noFactory")
      PROVE  Absent(c)
  <2>1. pc[c] = "write" /\ cache' # cache /\ cache'.kind = "noFactory"
    BY <1>1 DEF Caches
  <2>2. EvidenceHeld(c)
    BY <1>1 DEF IInv, EvidenceInv
  <2>3. PICK d \in Calls : Settle(d)
    <3>1. ~Evolve /\ ~UNCHANGED vars
      BY <1>1, <2>1, EvolveAppends DEF vars
    <3>2. PICK d \in Calls : Run(d)
      BY <1>1, <3>1 DEF Next
    <3>3. Settle(d)
      BY <2>1, <3>2 DEF Run, BeginTrusted, BeginHit, BeginMiss, ReadNoContract, ReadRetargetter,
                        ReadHits, ReadNoHit, ReadFails, ReadOperation, Probe, ScanFinds,
                        ScanExhausts, Proceed, Learn
    <3>. QED
      BY <3>3
  <2>4. d = c
    <3>1. pc' = [pc EXCEPT ![d] = "done"] /\ pc'[c] = "done"
      BY <1>1, <2>3 DEF Settle, Judge, Conclude, Caches
    <3>. QED
      BY <1>1, <2>1, <3>1 DEF IInv, TypeOK
  <2>5. held[c].kind = "noFactory"
    BY <2>1, <2>3, <2>4 DEF Settle
  <2>. QED
    BY <2>1, <2>2, <2>5 DEF EvidenceHeld
<1>2. IInv /\ [Next]_vars => [\A c \in Calls : Caches(c, "noFactory") => Absent(c)]_vars
  BY <1>1
<1>. QED
  BY <1>2, IInvCorrect, PTL DEF Spec, NoFactoryIsDefinite
=============================================================================
