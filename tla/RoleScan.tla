------------------------------ MODULE RoleScan -------------------------------
(***************************************************************************)
(* The role scan of packages/guardian-defaults (src/checks/role-events.ts  *)
(* and the probe before it in intent-request-binding.ts): backwards from   *)
(* the head of the chain in chunks, one getLogs call each, until the       *)
(* deployment of the request contract is seen or the lookback is used up.  *)
(* The chain grows between any two calls.  A scan keeps all its state to   *)
(* itself, so one is enough.                                               *)
(***************************************************************************)
EXTENDS RoleHistory

CONSTANTS
  MaxLookback, \* policy.eventScanMaxLookbackBlocks
  FailIfOld,   \* policy.onLookbackExhausted = "fail"
  BlockRange   \* policy.eventScanBlockRange

ASSUME ScanAssumption == /\ MaxLookback \in Nat \ {0}
                         /\ BlockRange \in Nat \ {0}
                         /\ FailIfOld \in BOOLEAN

VARIABLES
  pc,      \* where the scan is
  latest,  \* latestBlock
  to,      \* toBlock of the next chunk
  seen,    \* allLogs
  answer   \* the outcome

scanVars == <<pc, latest, to, seen, answer>>
vars == <<chainVars, scanVars>>

-----------------------------------------------------------------------------
Kinds    == {"none", "resolved", "tooOld", "probed", "failed"}
NoAnswer == [kind |-> "none", holders |-> Nobody]

\* earliestAllowed
Earliest(h) == IF h > MaxLookback THEN h - MaxLookback ELSE 0

\* The first block of the chunk that ends at to.
From == IF to - BlockRange + 1 > Earliest(latest) THEN to - BlockRange + 1 ELSE Earliest(latest)

InChunk(log) == From <= log.block /\ log.block <= to

\* A faulty Own: a factory's own roles pass for the request contract's.
OwnAny(a) == TRUE

\* Only what the request contract itself emitted is replayed.
Own(a) == a.from = Request

\* Only a matched factory's log for this contract marks the deployment.
Marks(c) == c.from \in Factories /\ c.request = Request

\* A faulty Later: the chunks' order instead of the chain's.
LaterUnsorted(a, b) == a.block < b.block \/ (a.block = b.block /\ a.index > b.index)

Later(a, b) == a.block > b.block \/ (a.block = b.block /\ a.index > b.index)

\* The latest update of each user is its roles: the log carries the whole bitfield.
IsLast(a, S)   == a \in S /\ \A b \in S : b.user = a.user /\ b # a => Later(a, b)
RolesIn(S, u)  == IF \E a \in S : a.user = u
                  THEN (CHOOSE a \in S : a.user = u /\ IsLast(a, S)).roles
                  ELSE NoRoles
Replay(S) == [u \in Users |-> RolesIn(S, u)]

-----------------------------------------------------------------------------
Init ==
  /\ ChainInit
  /\ pc = "idle" /\ latest = 0 /\ to = 0 /\ seen = {} /\ answer = NoAnswer

MineBlock == Grow /\ UNCHANGED scanVars

\* A faulty ProbeBlock: the first block of the window.
ProbeBlockInside == latest - MaxLookback

\* The block the archive probe looks at: the last one before the window.
ProbeBlock == latest - MaxLookback - 1

\* A factory claims the contract; the head is read, never from a cache.
ReadHead ==
  /\ pc = "idle" /\ Deployed
  /\ latest' = height /\ to' = height
  /\ pc' = IF FailIfOld /\ height > MaxLookback THEN "probe" ELSE "scan"
  /\ UNCHANGED <<chainVars, seen, answer>>

\* Code before the window: too old without a scan.
ProbeHit ==
  /\ pc = "probe" /\ CodeAt(ProbeBlock)
  /\ pc' = "done"
  /\ answer' = [kind |-> "probed", holders |-> Nobody]
  /\ UNCHANGED <<chainVars, latest, to, seen>>

\* No code there, or a node without historical state.
ProbeMiss ==
  /\ pc = "probe" /\ pc' = "scan"
  /\ UNCHANGED <<chainVars, latest, to, seen, answer>>

Gathered == seen \cup {a \in updates : InChunk(a) /\ Own(a)}
Found    == \E c \in creations : InChunk(c) /\ Marks(c)
LastChunk == From = 0 \/ From = Earliest(latest)

\* A faulty ChunkOn: the next chunk begins where this one began.
ChunkOnOverlap ==
  /\ pc = "scan" /\ ~Found /\ ~LastChunk
  /\ seen' = Gathered
  /\ to' = From + BlockRange - 1
  /\ UNCHANGED <<chainVars, pc, latest, answer>>

\* A faulty ChunkOn: a block between two chunks is never read.
ChunkOnGap ==
  /\ pc = "scan" /\ ~Found /\ ~LastChunk
  /\ seen' = Gathered
  /\ to' = From - 2
  /\ UNCHANGED <<chainVars, pc, latest, answer>>

\* One getLogs call that neither finds the deployment nor reaches the window's end.
ChunkOn ==
  /\ pc = "scan" /\ ~Found /\ ~LastChunk
  /\ seen' = Gathered
  /\ to' = From - 1
  /\ UNCHANGED <<chainVars, pc, latest, answer>>

\* The chunk that ends the scan, and its outcome.
ChunkLast ==
  /\ pc = "scan" /\ (Found \/ LastChunk)
  /\ seen' = Gathered
  /\ pc' = "done"
  /\ answer' = [kind    |-> IF ~Found /\ Earliest(latest) > 0 THEN "tooOld" ELSE "resolved",
                holders |-> Replay(Gathered)]
  /\ UNCHANGED <<chainVars, latest, to>>

\* getLogs fails, the scan's budget is spent, or the request's signal aborts it.
ScanFails ==
  /\ pc = "scan" /\ pc' = "done"
  /\ answer' = [kind |-> "failed", holders |-> Nobody]
  /\ UNCHANGED <<chainVars, latest, to, seen>>

\* The next request.
Forget ==
  /\ pc = "done" /\ pc' = "idle"
  /\ latest' = 0 /\ to' = 0 /\ seen' = {} /\ answer' = NoAnswer
  /\ UNCHANGED chainVars

Scan == ReadHead \/ ProbeHit \/ ProbeMiss \/ ChunkOn \/ ChunkLast

Next == MineBlock \/ Scan \/ ScanFails \/ Forget

Spec == Init /\ [][Next]_vars

\* A scan under way keeps making its calls; it need not fail, and the chain need
\* not grow.
FairSpec == Spec /\ WF_vars(Scan)

-----------------------------------------------------------------------------
(* Correctness.                                                            *)

TypeOK ==
  /\ ChainTypeOK
  /\ pc \in {"idle", "probe", "scan", "done"}
  /\ latest \in 0..height
  /\ to \in 0..latest
  /\ seen \subseteq updates
  /\ pc \in {"idle", "probe"} => seen = {}
  /\ answer \in [kind : Kinds, holders : [Users -> RoleSets]]

\* A resolved scan, replayed from logs, is exactly what the contract stores at the
\* head it was asked for: no grant missed between two chunks, none taken from a
\* factory, none out of order, none mined since (role-events.ts, RoleScanOutcome).
ResolvedIsComplete ==
  answer.kind = "resolved" => answer.holders = stored[latest]

\* Partial holders may fail a check, so each is a holder at that head.
PartialIsSound ==
  answer.kind = "tooOld" =>
    \A u \in Users : answer.holders[u] \in {NoRoles, stored[latest][u]}

\* The probe and the scan judge age alike: too old exactly when the deployment is
\* before the window, with an archive node or without one.
AgeDecides ==
  /\ answer.kind \in {"tooOld", "probed"} => CodeAt(Earliest(latest) - 1)
  /\ answer.kind = "resolved" => ~CodeAt(Earliest(latest) - 1)

\* The chunks do what the abstract answer does in one step.
Abstract == INSTANCE RoleAnswer
  WITH phase <- IF pc \in {"probe", "scan"} THEN "asked" ELSE pc

ImplementsRoleAnswer == Abstract!Spec

\* A scan comes to an answer in the end, though no call of it fails: the chunks
\* reach the window's end however small the block range.
ScanEnds == pc = "scan" ~> pc = "done"
=============================================================================
