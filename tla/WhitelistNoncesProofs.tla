------------------------ MODULE WhitelistNoncesProofs ------------------------
(* Theorems of WhitelistNonces, for every value of its constants.            *)
EXTENDS WhitelistNonces, SequenceTheorems, TLAPS

\* The batch is at least one nonce, and stays below the end of the nonce space.
LEMMA WindowFacts ==
  ASSUME NEW f \in Nat
  PROVE  /\ Count \in Nat \ {0}
         /\ WindowEnd(f) \in Nat /\ NewFloor(f) = WindowEnd(f) /\ f <= WindowEnd(f)
         /\ Window(f) \subseteq Nonce
<1>1. Count \in Nat \ {0}
  BY WindowAssumption DEF Count
<1> QED
  BY <1>1, WindowAssumption DEF WindowEnd, NewFloor, Window, Nonce

\* The blocks of the canonical chain.
LEMMA TipType ==
  ASSUME TypeOK
  PROVE  /\ Len(chain) \in Nat \ {0} /\ final \in 1..Len(chain)
         /\ \A i \in 1..Len(chain) : chain[i] \in Block
         /\ Tip \in Block /\ chain[final] \in Block
<1>1. chain \in Seq(Block) /\ Len(chain) > 0 /\ final \in 1..Len(chain)
  BY DEF TypeOK
<1>2. Len(chain) \in Nat
  BY <1>1, LenProperties
<1>3. \A i \in 1..Len(chain) : chain[i] \in Block
  BY <1>1, ElementOfSeq
<1> QED
  BY <1>1, <1>2, <1>3 DEF Tip

\* The genesis block and the idle replicas are well typed.
LEMMA TypeInit == Init => TypeOK
<1> SUFFICES ASSUME Init PROVE TypeOK
  OBVIOUS
<1>1. Genesis \in Block
  BY DEF Genesis, Block
<1>2. chain \in Seq(Block) /\ Len(chain) = 1
  BY <1>1 DEF Init
<1> QED
  BY <1>2 DEF Init, TypeOK, Where

\* A call that returns leaves well-typed locals behind.
LEMMA ReturnType ==
  ASSUME TypeOK, NEW p \in Replicas, Return(p)
  PROVE  /\ pc' \in [Replicas -> Where] /\ at' \in [Replicas -> Nat \ {0}]
         /\ floor' \in [Replicas -> Nat] /\ base' \in [Replicas -> Nat]
BY DEF TypeOK, Return, Where

\* A block on top of the chain keeps the types of chain and finality.
LEMMA AppendType ==
  ASSUME TypeOK, NEW b \in Block, chain' = Append(chain, b), final' = final
  PROVE  /\ chain' \in Seq(Block) /\ Len(chain') > 0 /\ final' \in 1..Len(chain')
BY TipType, AppendProperties DEF TypeOK

\* Every step keeps the types.
LEMMA TypeStep == TypeOK /\ [Next]_vars => TypeOK'
<1> SUFFICES ASSUME TypeOK, [Next]_vars PROVE TypeOK'
  OBVIOUS
<1> USE DEF chainVars, callVars
<1>1. ASSUME NEW p \in Replicas, GetBlock(p) PROVE TypeOK'
  BY <1>1, TipType DEF TypeOK, GetBlock, Goto, Where
<1>2. ASSUME NEW p \in Replicas, ReadFloor(p) PROVE TypeOK'
  <2>1. at[p] \in 1..Len(chain)
    BY <1>2, TipType DEF TypeOK, ReadFloor
  <2>2. chain[at[p]].floor \in Nat
    BY <2>1, TipType DEF Block
  <2> QED
    BY <1>2, <2>2 DEF TypeOK, ReadFloor, Goto, Where
<1>3. ASSUME NEW p \in Replicas, OfferFree(p) PROVE TypeOK'
  <2>1. floor[p] \in Nat
    BY DEF TypeOK
  <2>2. Window(floor[p]) \subseteq Nonce
    BY <2>1, WindowFacts
  <2>3. offered' \in [Replicas -> SUBSET Nonce]
    BY <1>3, <2>2 DEF TypeOK, OfferFree
  <2> QED
    BY <1>3, <2>3, ReturnType DEF TypeOK, OfferFree
<1>4. ASSUME NEW p \in Replicas, WindowConsumed(p) PROVE TypeOK'
  BY <1>4 DEF TypeOK, WindowConsumed, Goto, Where
<1>5. ASSUME NEW p \in Replicas, ConfirmFinal(p) PROVE TypeOK'
  BY <1>5 DEF TypeOK, ConfirmFinal, Goto, Where
<1>6. ASSUME NEW p \in Replicas, ReadCounts(p) PROVE TypeOK'
  <2>1. Tip.count \in Nat
    BY TipType DEF Block
  <2> QED
    BY <1>6, <2>1 DEF TypeOK, ReadCounts, Goto, Where
<1>7. ASSUME NEW p \in Replicas, SendFloor(p) PROVE TypeOK'
  <2>1. floor[p] \in Nat /\ base[p] \in Nat
    BY DEF TypeOK
  <2>2. FloorTx(p) \in Tx
    BY <2>1, WindowFacts DEF FloorTx, Tx
  <2>3. mempool' \subseteq Tx
    BY <1>7, <2>2 DEF TypeOK, SendFloor
  <2>4. CASE Return(p)
    BY <1>7, <2>3, <2>4, ReturnType DEF TypeOK, SendFloor
  <2>5. CASE pc' = [pc EXCEPT ![p] = "receipt"] /\ UNCHANGED callVars
    BY <1>7, <2>3, <2>5 DEF TypeOK, SendFloor, Where
  <2> QED
    BY <1>7, <2>4, <2>5 DEF SendFloor
<1>8. ASSUME NEW p \in Replicas, Receipt(p) PROVE TypeOK'
  BY <1>8, ReturnType DEF TypeOK, Receipt
<1>9. ASSUME NEW p \in Replicas, CallFails(p) PROVE TypeOK'
  BY <1>9, ReturnType DEF TypeOK, CallFails
<1>10. ASSUME NEW n \in Nonce, Consume(n) PROVE TypeOK'
  <2>1. [Tip EXCEPT !.consumed = @ \cup {n}, !.tx = None] \in Block
    BY TipType DEF Block
  <2>2. chain' \in Seq(Block) /\ Len(chain') > 0 /\ final' \in 1..Len(chain')
    BY <1>10, <2>1, AppendType DEF Consume
  <2> QED
    BY <1>10, <2>2 DEF TypeOK, Consume
<1>11. ASSUME NEW t \in mempool, Mine(t) PROVE TypeOK'
  <2> DEFINE b == [floor |-> IF t.floor > Tip.floor THEN t.floor ELSE Tip.floor,
                   consumed |-> Tip.consumed, count |-> Tip.count + 1, tx |-> t]
  <2>1. t \in Tx
    BY DEF TypeOK
  <2>2. b \in Block
    BY <2>1, TipType DEF Block, Tx
  <2> HIDE DEF b
  <2>3. chain' = Append(chain, b) /\ final' = final
    BY <1>11 DEF Mine, b
  <2>4. chain' \in Seq(Block) /\ Len(chain') > 0 /\ final' \in 1..Len(chain')
    BY <2>2, <2>3, AppendType
  <2> QED
    BY <1>11, <2>4 DEF TypeOK, Mine
<1>12. ASSUME NEW t \in mempool, DropTx(t) PROVE TypeOK'
  BY <1>12 DEF TypeOK, DropTx
<1>13. ASSUME Finalize PROVE TypeOK'
  BY <1>13, TipType DEF TypeOK, Finalize
<1>14. ASSUME NEW h \in final..(Len(chain) - 1), Reorg(h) PROVE TypeOK'
  <2>1. h \in 1..Len(chain) /\ h \in Nat /\ final \in 1..h
    BY TipType
  <2>2. chain \in Seq(Block)
    BY DEF TypeOK
  <2>3. SubSeq(chain, 1, h) \in Seq(Block) /\ Len(SubSeq(chain, 1, h)) = h
    BY <2>1, <2>2, TipType, SubSeqProperties
  <2>4. \A i \in (h + 1)..Len(chain) : chain[i].tx \in Tx \cup {None}
    BY <2>1, TipType DEF Block
  <2>5. mempool' \subseteq Tx
    BY <1>14, <2>4 DEF TypeOK, Reorg
  <2> QED
    BY <1>14, <2>1, <2>3, <2>5 DEF TypeOK, Reorg
<1>15. ASSUME OtherTx PROVE TypeOK'
  <2>1. Tip.count \in Nat /\ \A t \in mempool : t.at + 1 \in Nat
    <3>1. Tip.count \in Nat
      BY TipType DEF Block
    <3>2. \A t \in Tx : t.at \in Nat
      BY DEF Tx
    <3> QED
      BY <3>1, <3>2 DEF TypeOK
  <2>2. mempool' \subseteq Tx
    BY <1>15, <2>1 DEF TypeOK, OtherTx, Tx
  <2> QED
    BY <1>15, <2>2 DEF TypeOK, OtherTx
<1>16. CASE UNCHANGED vars
  BY <1>16 DEF vars, TypeOK
<1> QED
  BY <1>1, <1>2, <1>3, <1>4, <1>5, <1>6, <1>7, <1>8, <1>9, <1>10, <1>11, <1>12, <1>13,
     <1>14, <1>15, <1>16 DEF Next, Call

\* The types hold in every reachable state.
THEOREM TypeCorrect == Spec => []TypeOK
BY TypeInit, TypeStep, PTL DEF Spec

-----------------------------------------------------------------------------
(* No floor passes an unconsumed nonce, nor the end of the nonce space.    *)

\* What is settled stays so while the finalized consumption only grows.
LEMMA SettledStays ==
  ASSUME chain[final].consumed \subseteq chain'[final'].consumed,
         NEW f, Settled(f)
  PROVE  f < MaxNonce /\ \A n \in Nonce : n < f => n \in chain'[final'].consumed
BY DEF Settled

\* A step that leaves the chain alone and only changes one call's place keeps the
\* invariant if it keeps what the call has settled.
LEMMA CallStep ==
  ASSUME FloorInv, NEW p \in Replicas, UNCHANGED <<chain, final>>,
         \A q \in Replicas \ {p} : pc'[q] = pc[q] /\ floor'[q] = floor[q],
         \A t \in mempool' : Settled(t.floor),
         pc'[p] \in {"consumed", "final", "counts", "send"} => Settled(floor'[p]),
         pc'[p] \in {"counts", "send"} => Settled(NewFloor(floor'[p]))
  PROVE  FloorInv'
<1>1. NeverPastUnconsumed'
  BY DEF FloorInv, NeverPastUnconsumed
<1>2. \A q \in Replicas :
        /\ pc'[q] \in {"consumed", "final", "counts", "send"} => Settled(floor'[q])
        /\ pc'[q] \in {"counts", "send"} => Settled(NewFloor(floor'[q]))
  BY DEF FloorInv
<1> QED
  BY <1>1, <1>2 DEF FloorInv, Settled, NewFloor, WindowEnd

\* A block that keeps what was consumed, with a settled floor, keeps the invariant.
LEMMA BlockStep ==
  ASSUME TypeOK, FloorInv, NEW b \in Block, chain' = Append(chain, b), final' = final,
         Tip.consumed \subseteq b.consumed, Settled(b.floor),
         b.tx # None => Settled(b.tx.floor),
         mempool' \subseteq mempool, UNCHANGED <<pc, floor>>
  PROVE  FloorInv'
<1>1. /\ chain \in Seq(Block) /\ Len(chain) \in Nat \ {0} /\ final \in 1..Len(chain)
      /\ Len(chain') = Len(chain) + 1
      /\ \A i \in 1..Len(chain) : chain'[i] = chain[i]
      /\ chain'[Len(chain) + 1] = b
  BY TipType, AppendProperties DEF TypeOK
<1>2. chain'[final'] = chain[final]
  BY <1>1
<1>3. \A i \in 1..Len(chain) : chain[i].consumed \subseteq b.consumed
  BY <1>1 DEF FloorInv, Tip
<1>4. \A i, j \in 1..Len(chain') : i <= j => chain'[i].consumed \subseteq chain'[j].consumed
  BY <1>1, <1>3 DEF FloorInv
<1> DEFINE After(f) == f < MaxNonce /\ \A n \in Nonce : n < f => n \in chain'[final'].consumed
<1>5. \A f : Settled(f) => After(f)
  BY <1>2 DEF Settled
<1>6. \A i \in 1..Len(chain') : /\ After(chain'[i].floor)
                                /\ chain'[i].tx # None => After(chain'[i].tx.floor)
  <2> HIDE DEF After
  <2>1. \A i \in 1..Len(chain) : /\ After(chain[i].floor)
                                 /\ chain[i].tx # None => After(chain[i].tx.floor)
    BY <1>5 DEF FloorInv
  <2>2. After(b.floor) /\ (b.tx # None => After(b.tx.floor))
    BY <1>5
  <2> SUFFICES ASSUME NEW i \in 1..Len(chain')
               PROVE  After(chain'[i].floor) /\ (chain'[i].tx # None => After(chain'[i].tx.floor))
    OBVIOUS
  <2>3. CASE i \in 1..Len(chain)
    <3>1. chain'[i] = chain[i]
      BY <1>1, <2>3
    <3> QED
      BY <2>1, <2>3, <3>1
  <2>4. CASE i \notin 1..Len(chain)
    <3>1. i = Len(chain) + 1
      BY <1>1, <2>4
    <3>2. chain'[i] = b
      BY <1>1, <3>1
    <3> QED
      BY <2>2, <3>2
  <2> QED
    BY <2>3, <2>4
<1>7. \A n \in Nonce : n < b.floor => n \in b.consumed
  BY <1>1, <1>3 DEF Settled
<1>8. NeverPastUnconsumed'
  <2>1. \A i \in 1..Len(chain) : \A n \in Nonce : n < chain[i].floor => n \in chain[i].consumed
    BY DEF FloorInv, NeverPastUnconsumed
  <2>2. \A i \in 1..Len(chain') : \A n \in Nonce : n < chain'[i].floor => n \in chain'[i].consumed
    BY <1>1, <1>7, <2>1
  <2> QED
    BY <2>2 DEF NeverPastUnconsumed
<1>9. \A q \in Replicas :
        /\ pc'[q] \in {"consumed", "final", "counts", "send"} => After(floor'[q])
        /\ pc'[q] \in {"counts", "send"} => After(NewFloor(floor'[q]))
  BY <1>5 DEF FloorInv
<1>10. \A t \in mempool' : After(t.floor)
  BY <1>5 DEF FloorInv
<1> QED
  BY <1>2, <1>4, <1>6, <1>8, <1>9, <1>10 DEF FloorInv, Settled, NewFloor, WindowEnd

\* At genesis no nonce is below a floor.
LEMMA FloorInit == Init => FloorInv
<1> SUFFICES ASSUME Init PROVE FloorInv
  OBVIOUS
<1>1. Len(chain) = 1 /\ chain[1] = Genesis /\ final = 1
  BY DEF Init
<1>2. Settled(0)
  BY WindowAssumption DEF Settled, Nonce
<1>3. \A i \in 1..Len(chain) : chain[i].floor = 0 /\ chain[i].tx = None
  BY <1>1 DEF Genesis
<1>4. NeverPastUnconsumed
  BY <1>3 DEF NeverPastUnconsumed, Nonce
<1> QED
  BY <1>1, <1>2, <1>3, <1>4 DEF Init, FloorInv

\* Every step keeps the invariant.
LEMMA FloorStep == TypeOK /\ FloorInv /\ [Next]_vars => FloorInv'
<1> SUFFICES ASSUME TypeOK, FloorInv, [Next]_vars PROVE FloorInv'
  OBVIOUS
<1> USE DEF chainVars, callVars
<1>0. \A p \in Replicas : pc'[p] = "idle" => pc'[p] \notin {"consumed", "final", "counts", "send"}
  OBVIOUS
<1>1. ASSUME NEW p \in Replicas, GetBlock(p) PROVE FloorInv'
  <2>1. pc'[p] = "floor" /\ \A q \in Replicas \ {p} : pc'[q] = pc[q]
    BY <1>1 DEF GetBlock, Goto, TypeOK
  <2> QED
    BY <1>1, <2>1, CallStep DEF GetBlock, FloorInv
<1>2. ASSUME NEW p \in Replicas, ReadFloor(p) PROVE FloorInv'
  <2>1. at[p] \in 1..Len(chain)
    BY <1>2, TipType DEF TypeOK, ReadFloor
  <2>2. Settled(chain[at[p]].floor)
    BY <2>1 DEF FloorInv
  <2>3. /\ pc'[p] = "consumed" /\ floor'[p] = chain[at[p]].floor
        /\ \A q \in Replicas \ {p} : pc'[q] = pc[q] /\ floor'[q] = floor[q]
    BY <1>2 DEF ReadFloor, Goto, TypeOK
  <2> QED
    BY <1>2, <2>2, <2>3, CallStep DEF ReadFloor, FloorInv
<1>3. ASSUME NEW p \in Replicas, Return(p), UNCHANGED chainVars PROVE FloorInv'
  <2>1. /\ pc'[p] = "idle"
        /\ \A q \in Replicas \ {p} : pc'[q] = pc[q] /\ floor'[q] = floor[q]
    BY <1>3 DEF Return, TypeOK
  <2> QED
    BY <1>3, <2>1, CallStep DEF FloorInv
<1>4. ASSUME NEW p \in Replicas, WindowConsumed(p) PROVE FloorInv'
  <2>1. /\ pc[p] = "consumed" /\ pc'[p] = "final" /\ floor' = floor
        /\ \A q \in Replicas \ {p} : pc'[q] = pc[q]
    BY <1>4 DEF WindowConsumed, Goto, TypeOK
  <2> QED
    BY <1>4, <2>1, CallStep DEF WindowConsumed, FloorInv
<1>5. ASSUME NEW p \in Replicas, ConfirmFinal(p) PROVE FloorInv'
  <2>1. /\ pc[p] = "final" /\ pc'[p] = "counts" /\ floor' = floor
        /\ \A q \in Replicas \ {p} : pc'[q] = pc[q]
    BY <1>5 DEF ConfirmFinal, Goto, TypeOK
  <2>2. Settled(floor[p]) /\ floor[p] \in Nat
    BY <2>1 DEF FloorInv, TypeOK
  <2>3. Settled(NewFloor(floor[p]))
    <3>1. NewFloor(floor[p]) < MaxNonce /\ NewFloor(floor[p]) = WindowEnd(floor[p])
      BY <1>5 DEF ConfirmFinal, LeavesRoom, NewFloor
    <3>2. Window(floor[p]) \subseteq chain[final].consumed
      BY <1>5 DEF ConfirmFinal, Confirmed
    <3>3. WindowEnd(floor[p]) \in Nat
      BY <2>2, WindowFacts
    <3>4. ASSUME NEW n \in Nonce, n < WindowEnd(floor[p]) PROVE n \in chain[final].consumed
      <4>1. CASE n < floor[p]
        BY <2>2, <4>1 DEF Settled
      <4>2. CASE ~(n < floor[p])
        <5>1. n \in Window(floor[p])
          BY <2>2, <3>3, <3>4, <4>2 DEF Window, Nonce
        <5> QED BY <3>2, <5>1
      <4> QED BY <4>1, <4>2
    <3> QED
      BY <3>1, <3>4 DEF Settled
  <2> QED
    BY <1>5, <2>1, <2>2, <2>3, CallStep DEF ConfirmFinal, FloorInv
<1>6. ASSUME NEW p \in Replicas, ReadCounts(p) PROVE FloorInv'
  <2>1. /\ pc[p] = "counts" /\ pc'[p] = "send" /\ floor' = floor
        /\ \A q \in Replicas \ {p} : pc'[q] = pc[q]
    BY <1>6 DEF ReadCounts, Goto, TypeOK
  <2> QED
    BY <1>6, <2>1, CallStep DEF ReadCounts, FloorInv
<1>7. ASSUME NEW p \in Replicas, SendFloor(p) PROVE FloorInv'
  <2>1. pc[p] = "send" /\ Settled(FloorTx(p).floor)
    BY <1>7 DEF SendFloor, FloorInv, FloorTx
  <2>2. \A t \in mempool' : Settled(t.floor)
    BY <1>7, <2>1 DEF SendFloor, FloorInv
  <2>3. /\ pc'[p] \in {"receipt", "idle"}
        /\ \A q \in Replicas \ {p} : pc'[q] = pc[q] /\ floor'[q] = floor[q]
    BY <1>7 DEF SendFloor, Return, TypeOK
  <2> QED
    BY <1>7, <2>2, <2>3, CallStep DEF SendFloor
<1>8. ASSUME NEW n \in Nonce, Consume(n) PROVE FloorInv'
  <2> DEFINE b == [Tip EXCEPT !.consumed = @ \cup {n}, !.tx = None]
  <2>1. b \in Block /\ Tip.consumed \subseteq b.consumed /\ b.floor = Tip.floor /\ b.tx = None
    BY TipType DEF Block
  <2>2. Settled(Tip.floor)
    BY TipType DEF FloorInv, Tip
  <2> HIDE DEF b
  <2>3. chain' = Append(chain, b) /\ final' = final /\ mempool' = mempool /\ UNCHANGED <<pc, floor>>
    BY <1>8 DEF Consume, b
  <2> QED
    BY <2>1, <2>2, <2>3, BlockStep
<1>9. ASSUME NEW t \in mempool, Mine(t) PROVE FloorInv'
  <2> DEFINE b == [floor |-> IF t.floor > Tip.floor THEN t.floor ELSE Tip.floor,
                   consumed |-> Tip.consumed, count |-> Tip.count + 1, tx |-> t]
  <2>1. t \in Tx /\ Settled(t.floor)
    BY DEF TypeOK, FloorInv
  <2>2. Settled(Tip.floor)
    BY TipType DEF FloorInv, Tip
  <2>3. b \in Block /\ b.consumed = Tip.consumed /\ b.tx = t /\ b.floor \in {t.floor, Tip.floor}
    BY <2>1, TipType DEF Block, Tx
  <2> HIDE DEF b
  <2>4. chain' = Append(chain, b) /\ final' = final /\ mempool' \subseteq mempool
        /\ UNCHANGED <<pc, floor>>
    BY <1>9 DEF Mine, b
  <2>5. Settled(b.floor) /\ Settled(b.tx.floor)
    BY <2>1, <2>2, <2>3
  <2> QED
    BY <2>3, <2>4, <2>5, BlockStep
<1>10. ASSUME NEW t \in mempool, DropTx(t) PROVE FloorInv'
  BY <1>10 DEF DropTx, FloorInv, Settled, NeverPastUnconsumed, NewFloor, WindowEnd
<1>11. ASSUME Finalize PROVE FloorInv'
  <2>1. final' \in 1..Len(chain) /\ final <= final' /\ chain' = chain
        /\ UNCHANGED <<mempool, pc, floor>>
    BY <1>11, TipType DEF Finalize
  <2>2. chain[final].consumed \subseteq chain'[final'].consumed
    BY <2>1, TipType DEF FloorInv
  <2>3. \A f : Settled(f) => Settled(f)'
    BY <2>2 DEF Settled
  <2>4. NeverPastUnconsumed'
    BY <2>1 DEF FloorInv, NeverPastUnconsumed
  <2> QED
    BY <2>1, <2>3, <2>4 DEF FloorInv, NewFloor, WindowEnd
<1>12. ASSUME NEW h \in final..(Len(chain) - 1), Reorg(h) PROVE FloorInv'
  <2>1. h \in Nat /\ h \in 1..Len(chain) /\ final \in 1..h /\ chain \in Seq(Block)
    BY TipType DEF TypeOK
  <2>2. /\ Len(chain') = h /\ \A i \in 1..h : chain'[i] = chain[i]
        /\ final' = final /\ UNCHANGED <<pc, floor>>
    BY <1>12, <2>1, TipType, SubSeqProperties DEF Reorg
  <2>3. chain'[final'] = chain[final]
    BY <2>1, <2>2
  <2>4. \A f : Settled(f) => Settled(f)'
    BY <2>3 DEF Settled
  <2>5. \A i \in 1..h : i \in 1..Len(chain)
    BY <2>1, TipType
  <2>6. \A i \in (h + 1)..Len(chain) : chain[i].tx # None => Settled(chain[i].tx.floor)
    BY <2>1, TipType DEF FloorInv
  <2>7. \A t \in mempool' : Settled(t.floor)
    BY <1>12, <2>6 DEF Reorg, FloorInv
  <2>8. NeverPastUnconsumed'
    BY <2>2, <2>5 DEF FloorInv, NeverPastUnconsumed
  <2> QED
    BY <2>2, <2>4, <2>5, <2>7, <2>8 DEF FloorInv, NewFloor, WindowEnd
<1>13. ASSUME OtherTx PROVE FloorInv'
  <2>1. Settled(0)
    BY WindowAssumption DEF Settled, Nonce
  <2>2. \A t \in mempool' : Settled(t.floor)
    BY <1>13, <2>1 DEF OtherTx, FloorInv
  <2> QED
    BY <1>13, <2>2 DEF OtherTx, FloorInv, Settled, NeverPastUnconsumed, NewFloor, WindowEnd
<1>14. CASE UNCHANGED vars
  BY <1>14 DEF vars, FloorInv, Settled, NeverPastUnconsumed, NewFloor, WindowEnd
<1> QED
  BY <1>1, <1>2, <1>3, <1>4, <1>5, <1>6, <1>7, <1>8, <1>9, <1>10, <1>11, <1>12, <1>13, <1>14
  DEF Next, Call, OfferFree, Receipt, CallFails

\* Floors read, sent and mined are settled in every reachable state.
THEOREM FloorCorrect == Spec => []FloorInv
BY TypeCorrect, FloorInit, FloorStep, PTL DEF Spec

\* The floor never passes an unconsumed nonce, in no block of any canonical chain.
THEOREM NeverPastUnconsumedCorrect == Spec => []NeverPastUnconsumed
<1>1. FloorInv => NeverPastUnconsumed
  BY DEF FloorInv
<1> QED
  BY <1>1, FloorCorrect, PTL

\* No floor sent or mined closes the nonce space.
THEOREM SpaceNeverClosedCorrect == Spec => []SpaceNeverClosed
<1>1. FloorInv => SpaceNeverClosed
  BY DEF FloorInv, Settled, SpaceNeverClosed
<1> QED
  BY <1>1, FloorCorrect, PTL
=============================================================================
