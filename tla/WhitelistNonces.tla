--------------------------- MODULE WhitelistNonces ---------------------------
(***************************************************************************)
(* whitelistNonceCandidates of packages/guardian-coordinator               *)
(* (src/whitelist-nonces.ts) against a chain that reorganises.             *)
(*                                                                         *)
(* A replica reads its validator's window of whitelist nonces at one block *)
(* number and offers what is unconsumed.  When the whole window is         *)
(* consumed, and consumed at a finalized block too, it raises the floor    *)
(* with a transaction of the validator's account, which is irreversible:   *)
(* a nonce below the floor can never be used again.  Every await of the    *)
(* source is a step of its own, so the chain, the other replicas and the   *)
(* operator of the account move between any two of them.  Reads name a     *)
(* block by number: after a reorganisation the same number is another      *)
(* block.                                                                  *)
(*                                                                         *)
(* The whitelist book contract, the chain and the mempool are external,    *)
(* modelled from what the source reads and sends.                          *)
(***************************************************************************)
EXTENDS Integers, Sequences, FiniteSets

CONSTANTS
  Replicas,   \* coordinator processes with the same validator account
  MaxNonce,   \* maxUint256: no nonce reaches it
  MaxAbove,   \* options.maxNonceAboveFloor, the contract's window above the floor
  Chunk,      \* 256, the bound on one RPC batch
  HasAccount, \* whether the signer can send transactions (no remote HTTP signer)
  MaxFaults,  \* bound on reorganisations and dropped transactions
  MaxOthers,  \* bound on the account's transactions that are not the coordinator's
  None        \* no transaction

ASSUME WindowAssumption == /\ MaxNonce \in Nat \ {0}
                           /\ MaxAbove \in Nat
                           /\ Chunk \in Nat \ {0}
ASSUME BoundAssumption  == /\ MaxFaults \in Nat
                           /\ MaxOthers \in Nat
                           /\ HasAccount \in BOOLEAN

VARIABLES
  chain,    \* the canonical blocks, oldest first, each with the state it leaves
  final,    \* height of the last finalized block
  mempool,  \* the account's transactions waiting to be mined
  faults,   \* reorganisations and drops so far
  others,   \* the account's other transactions so far
  pc,       \* which await of the call the replica is at
  at,       \* block number the window is read at
  floor,    \* floor read
  base,     \* transaction count read
  offered   \* the candidates the last call answered

chainVars == <<chain, final, mempool, faults, others>>
callVars  == <<at, floor, base>>
vars == <<chainVars, pc, callVars, offered>>

-----------------------------------------------------------------------------
Nonce == 0..(MaxNonce - 1)
Tx    == [at : Nat, floor : Nat]
Block == [floor : Nat, consumed : SUBSET Nonce, count : Nat, tx : Tx \cup {None}]
Where == {"idle", "floor", "consumed", "final", "counts", "send", "receipt"}

Genesis == [floor |-> 0, consumed |-> {}, count |-> 0, tx |-> None]

Tip == chain[Len(chain)]

\* The nonces one call looks at: the window above the floor, cut to a batch, and
\* below the end of the nonce space.
Count == IF MaxAbove < Chunk - 1 THEN MaxAbove + 1 ELSE Chunk

WindowEnd(f) == IF f + Count <= MaxNonce THEN f + Count ELSE IF f <= MaxNonce THEN MaxNonce ELSE f

Window(f) == f..(WindowEnd(f) - 1)

\* The floor that leaves the whole window behind.
NewFloor(f) == WindowEnd(f)

\* What eth_getTransactionCount answers at "pending": the first count at or past
\* the tip's that no queued transaction of the account takes.
IsPendingCount(k) ==
  /\ \A t \in mempool : t.at # k
  /\ \A j \in Tip.count..(k - 1) : \E t \in mempool : t.at = j

FloorTx(p) == [at |-> base[p], floor |-> NewFloor(floor[p])]

-----------------------------------------------------------------------------
Init ==
  /\ chain = <<Genesis>> /\ final = 1
  /\ mempool = {} /\ faults = 0 /\ others = 0
  /\ pc = [p \in Replicas |-> "idle"]
  /\ at = [p \in Replicas |-> 1]
  /\ floor = [p \in Replicas |-> 0]
  /\ base = [p \in Replicas |-> 0]
  /\ offered = [p \in Replicas |-> {}]

-----------------------------------------------------------------------------
(* One call, await by await.                                               *)

Goto(p, from, to) ==
  /\ pc[p] = from
  /\ pc' = [pc EXCEPT ![p] = to]

\* The call answers or throws; its local variables are gone.
Return(p) ==
  /\ pc' = [pc EXCEPT ![p] = "idle"]
  /\ at' = [at EXCEPT ![p] = 1]
  /\ floor' = [floor EXCEPT ![p] = 0]
  /\ base' = [base EXCEPT ![p] = 0]

\* The block the window is read at.
GetBlock(p) ==
  /\ Goto(p, "idle", "floor")
  /\ at' = [at EXCEPT ![p] = Len(chain)]
  /\ offered' = [offered EXCEPT ![p] = {}]
  /\ UNCHANGED <<chainVars, floor, base>>

\* isValidator and validatorNonceFloor at that block number.
ReadFloor(p) ==
  /\ Goto(p, "floor", "consumed")
  /\ at[p] <= Len(chain)
  /\ floor' = [floor EXCEPT ![p] = chain[at[p]].floor]
  /\ UNCHANGED <<chainVars, at, base, offered>>

\* The consumption multicall at that block number: whatever is free is the answer.
OfferFree(p) ==
  LET free == Window(floor[p]) \ chain[at[p]].consumed
  IN  /\ pc[p] = "consumed" /\ at[p] <= Len(chain) /\ free # {}
      /\ Return(p)
      /\ offered' = [offered EXCEPT ![p] = free]
      /\ UNCHANGED chainVars

WindowConsumed(p) ==
  /\ at[p] <= Len(chain)
  /\ Window(floor[p]) # {} /\ Window(floor[p]) \subseteq chain[at[p]].consumed
  /\ Goto(p, "consumed", "final")
  /\ UNCHANGED <<chainVars, callVars, offered>>

\* A faulty Confirmed: takes the consumption of the latest block for final.
ConfirmedAtTip(p) == Window(floor[p]) \subseteq Tip.consumed

\* The same multicall at the finalized block.
Confirmed(p) == Window(floor[p]) \subseteq chain[final].consumed

\* Faulty forms of LeavesRoom: lets the floor reach the end of the nonce space, or
\* stops one nonce too early.
LeavesRoomAnyhow(p) == TRUE

LeavesTooMuch(p)    == NewFloor(floor[p]) + 1 < MaxNonce

\* The floor may not reach the end of the nonce space.
LeavesRoom(p) == NewFloor(floor[p]) < MaxNonce

ConfirmFinal(p) ==
  /\ Confirmed(p) /\ LeavesRoom(p) /\ HasAccount
  /\ Goto(p, "final", "counts")
  /\ UNCHANGED <<chainVars, callVars, offered>>

\* The two transaction counts must agree.  They are one step here: what may move
\* between their answers may as well move before the transaction is sent.
ReadCounts(p) ==
  /\ IsPendingCount(Tip.count)
  /\ Goto(p, "counts", "send")
  /\ base' = [base EXCEPT ![p] = Tip.count]
  /\ UNCHANGED <<chainVars, at, floor, offered>>

\* setValidatorNonceFloor enters the mempool, in place of another transaction of
\* the same count if there is one; the answer of the node may be lost.
SendFloor(p) ==
  /\ pc[p] = "send" /\ base[p] >= Tip.count
  /\ mempool' = {t \in mempool : t.at # base[p]} \cup {FloorTx(p)}
  /\ \/ pc' = [pc EXCEPT ![p] = "receipt"] /\ UNCHANGED callVars
     \/ Return(p)
  /\ UNCHANGED <<chain, final, faults, others, offered>>

\* The receipt, of success or of a revert: either way nothing is offered now, the
\* chain is read anew by the next call.
Receipt(p) ==
  /\ \E i \in 1..Len(chain) : chain[i].tx = FloorTx(p)
  /\ pc[p] = "receipt"
  /\ Return(p)
  /\ UNCHANGED <<chainVars, offered>>

\* Any throw of the call: a failed or timed-out read, a block number that is gone,
\* consumption not final, no room, no account, a pending transaction, a rejected
\* transaction, no receipt in time.
CallFails(p) ==
  /\ pc[p] # "idle"
  /\ Return(p)
  /\ UNCHANGED <<chainVars, offered>>

-----------------------------------------------------------------------------
(* The chain and the account.                                              *)

\* A whitelisting signed by the validator is executed: the contract takes any
\* unconsumed nonce of its window.
Consume(n) ==
  /\ n \in Tip.floor..(Tip.floor + MaxAbove) /\ n < MaxNonce /\ n \notin Tip.consumed
  /\ chain' = Append(chain, [Tip EXCEPT !.consumed = @ \cup {n}, !.tx = None])
  /\ UNCHANGED <<final, mempool, faults, others, pc, callVars, offered>>

\* A transaction of the account is mined; a floor that does not rise is reverted.
Mine(t) ==
  /\ t.at = Tip.count
  /\ chain' = Append(chain,
       [floor |-> IF t.floor > Tip.floor THEN t.floor ELSE Tip.floor,
        consumed |-> Tip.consumed, count |-> Tip.count + 1, tx |-> t])
  /\ mempool' = mempool \ {t}
  /\ UNCHANGED <<final, faults, others, pc, callVars, offered>>

Finalize ==
  /\ final < Len(chain)
  /\ \E h \in (final + 1)..Len(chain) : final' = h
  /\ UNCHANGED <<chain, mempool, faults, others, pc, callVars, offered>>

\* The blocks above h are dropped; their transactions are waiting again, or lost.
Reorg(h) ==
  /\ faults < MaxFaults /\ faults' = faults + 1
  /\ chain' = SubSeq(chain, 1, h)
  /\ \E back \in SUBSET {chain[i].tx : i \in (h + 1)..Len(chain)} :
       mempool' = mempool \cup (back \ {None})
  /\ UNCHANGED <<final, others, pc, callVars, offered>>

DropTx(t) ==
  /\ faults < MaxFaults /\ faults' = faults + 1
  /\ mempool' = mempool \ {t}
  /\ UNCHANGED <<chain, final, others, pc, callVars, offered>>

\* The operator sends something else from the same account.
OtherTx ==
  /\ others < MaxOthers /\ others' = others + 1
  /\ \E k \in {Tip.count} \cup {t.at + 1 : t \in mempool} :
       k >= Tip.count /\ IsPendingCount(k) /\ mempool' = mempool \cup {[at |-> k, floor |-> 0]}
  /\ UNCHANGED <<chain, final, faults, pc, callVars, offered>>

-----------------------------------------------------------------------------
Call(p) ==
  \/ GetBlock(p) \/ ReadFloor(p) \/ OfferFree(p) \/ WindowConsumed(p)
  \/ ConfirmFinal(p) \/ ReadCounts(p) \/ SendFloor(p) \/ Receipt(p) \/ CallFails(p)

Next ==
  \/ \E p \in Replicas : Call(p)
  \/ \E n \in Nonce : Consume(n)
  \/ \E t \in mempool : Mine(t) \/ DropTx(t)
  \/ Finalize
  \/ \E h \in final..(Len(chain) - 1) : Reorg(h)
  \/ OtherTx

Spec == Init /\ [][Next]_vars

\* The coordinator calls again and again, and a step tried again and again is
\* answered in the end; the chain mines the account's next transaction and
\* finalizes its blocks.  No whitelisting need ever be executed.
Fairness ==
  /\ \A p \in Replicas :
       /\ WF_vars(Call(p))
       /\ SF_vars(ReadFloor(p)) /\ SF_vars(OfferFree(p)) /\ SF_vars(WindowConsumed(p))
       /\ SF_vars(ConfirmFinal(p)) /\ SF_vars(ReadCounts(p)) /\ SF_vars(SendFloor(p))
  /\ WF_vars(\E t \in mempool : Mine(t))
  /\ WF_vars(Finalize)

FairSpec == Spec /\ Fairness

-----------------------------------------------------------------------------
(* Correctness.                                                            *)

\* Types; the finalized block is one of the canonical ones.
TypeOK ==
  /\ chain \in Seq(Block) /\ Len(chain) > 0
  /\ final \in 1..Len(chain)
  /\ mempool \subseteq Tx
  /\ faults \in Nat /\ others \in Nat
  /\ pc \in [Replicas -> Where]
  /\ at \in [Replicas -> Nat \ {0}]
  /\ floor \in [Replicas -> Nat]
  /\ base \in [Replicas -> Nat]
  /\ offered \in [Replicas -> SUBSET Nonce]

\* "It never advances past an unconsumed nonce" (README.md): in no block of any
\* canonical chain is a nonce below the floor unconsumed, whatever was reorganised
\* between the reads, the transaction and its mining.
NeverPastUnconsumed ==
  \A i \in 1..Len(chain) : \A n \in Nonce : n < chain[i].floor => n \in chain[i].consumed

\* No replica's transaction, mined or still waiting, can close the nonce space: one
\* usable nonce is left above every floor ("Whitelist nonce space exhausted").
SpaceNeverClosed ==
  /\ \A t \in mempool : t.floor < MaxNonce
  /\ \A i \in 1..Len(chain) : chain[i].floor < MaxNonce

\* Why both hold, as an inductive invariant: every floor read, sent or mined leaves a
\* usable nonce and has only nonces below it that are consumed at the finalized
\* block, and what is finalized stays.
Settled(f) == f < MaxNonce /\ \A n \in Nonce : n < f => n \in chain[final].consumed

FloorInv ==
  /\ \A i, j \in 1..Len(chain) : i <= j => chain[i].consumed \subseteq chain[j].consumed
  /\ \A i \in 1..Len(chain) : /\ Settled(chain[i].floor)
                              /\ chain[i].tx # None => Settled(chain[i].tx.floor)
  /\ \A t \in mempool : Settled(t.floor)
  /\ \A p \in Replicas :
       /\ pc[p] \in {"consumed", "final", "counts", "send"} => Settled(floor[p])
       /\ pc[p] \in {"counts", "send"} => Settled(NewFloor(floor[p]))
  /\ NeverPastUnconsumed

\* A window consumed whole does not stay shut: a call offers nonces again in the
\* end, unless the nonce space itself is used up.
SpentAt(f) == Window(f) \subseteq Tip.consumed

WindowReopens ==
  SpentAt(Tip.floor) ~> \/ \E p \in Replicas : offered[p] # {}
                        \/ SpentAt(Tip.floor) /\ NewFloor(Tip.floor) >= MaxNonce
=============================================================================
