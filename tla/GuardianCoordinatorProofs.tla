---------------------- MODULE GuardianCoordinatorProofs ----------------------
(* Theorems of GuardianCoordinator, for every value of its constants.        *)
EXTENDS GuardianCoordinator, SequenceTheorems, TLAPS

USE DEF FilterIndex

\* The rows of a page are rows, and there are finitely many.
LEMMA PageRowsType ==
  ASSUME TypeOK, NEW f \in FilterIndex, NEW k \in Nat \ {0}
  PROVE  PageRows(f, k) \in Seq(Row)
<1> DEFINE list  == open[f]
           first == (k - 1) * PageSize
           n     == IF Len(list) <= first THEN 0
                    ELSE IF Len(list) - first < PageSize THEN Len(list) - first ELSE PageSize
<1>0. open \in [FilterIndex -> Seq(Requests)]
  BY DEF TypeOK
<1>1. list \in Seq(Requests) /\ Len(list) \in Nat
  BY <1>0, LenProperties
<1>2. first \in Nat /\ PageSize \in Nat
  BY NumbersAssumption
<1>3. n \in Nat /\ (\A i \in 1..n : first + i \in 1..Len(list))
  <2> HIDE DEF first, list
  <2> QED BY <1>1, <1>2
<1>4. \A i \in 1..n : list[first + i] \in Requests
  BY <1>1, <1>3
<1>5. [i \in 1..n |-> [id |-> list[first + i], mine |-> Submitted(list[first + i])]]
        \in [1..n -> Row]
  <2> HIDE DEF n, first, list
  <2> QED BY <1>4 DEF Row, Submitted
<1>6. PageRows(f, k) = [i \in 1..n |-> [id |-> list[first + i], mine |-> Submitted(list[first + i])]]
  BY DEF PageRows
<1> HIDE DEF n, first, list
<1> QED
  BY <1>3, <1>5, <1>6, SeqDef


\* What a row in hand gives: its request, and the page without it.
LEMMA CurType ==
  ASSUME TypeOK, NEW p \in Replicas, items[p] # <<>>
  PROVE  /\ Cur(p) \in Requests
         /\ Tail(items[p]) \in Seq(Row)
         /\ Len(Tail(items[p])) = Len(items[p]) - 1
         /\ BodyPayload(p) \in Payload
<1>1. items[p] \in Seq(Row) /\ nonce[p] \in Nonces \cup {None}
  BY DEF TypeOK
<1>2. Head(items[p]) \in Row /\ Tail(items[p]) \in Seq(Row)
      /\ Len(Tail(items[p])) = Len(items[p]) - 1
  BY <1>1, HeadTailProperties
<1> QED
  BY <1>1, <1>2 DEF Cur, BodyPayload, Row, Payload

\* The start of a process and of grunt-api is well typed.
LEMMA TypeInit == Init => TypeOK
BY FiltersAssumption, NoneAssumption
   DEF Init, TypeOK, Where, Counters, ZeroStats

\* Raising one counter leaves a record of counters.
LEMMA CountersType ==
  ASSUME NEW s \in Counters, NEW c \in DOMAIN ZeroStats, NEW n \in Nat
  PROVE  [s EXCEPT ![c] = @ + n] \in Counters
<1>1. c \in {"fetched", "signed", "skipped", "failed"}
  BY DEF ZeroStats
<1>2. s.fetched \in Nat /\ s.signed \in Nat /\ s.skipped \in Nat /\ s.failed \in Nat
  BY DEF Counters
<1>3. CASE c = "fetched"
  BY <1>2, <1>3 DEF Counters
<1>4. CASE c = "signed"
  BY <1>2, <1>4 DEF Counters
<1>5. CASE c = "skipped"
  BY <1>2, <1>5 DEF Counters
<1>6. CASE c = "failed"
  BY <1>2, <1>6 DEF Counters
<1> QED
  BY <1>1, <1>3, <1>4, <1>5, <1>6

\* Finishing a row keeps the types of what it touches.
LEMMA FinishRowType ==
  ASSUME TypeOK, NEW p \in Replicas, items[p] # <<>>,
         NEW c \in {"signed", "skipped", "failed"}, FinishRow(p, c)
  PROVE  /\ stats' \in [Replicas -> Counters]
         /\ items' \in [Replicas -> Seq(Row)]
         /\ pc' \in [Replicas -> Where]
         /\ candidates' \in [Replicas -> SUBSET Nonces]
         /\ nonce' \in [Replicas -> Nonces \cup {None}]
         /\ expected' \in [Replicas -> Payload \cup {None}]
         /\ \A q \in Replicas :
              /\ pc'[q] \in {"candidates", "reserve", "sign", "submit"} => items'[q] # <<>>
              /\ nonce'[q] # None => pc'[q] \in {"sign", "submit"}
<1>1. Tail(items[p]) \in Seq(Row)
  BY CurType
<1>2. [stats[p] EXCEPT ![c] = @ + 1] \in Counters
  <2>1. stats[p] \in Counters
    BY DEF TypeOK
  <2>2. c \in DOMAIN ZeroStats
    BY DEF ZeroStats
  <2> QED BY <2>1, <2>2, CountersType
<1>3. stats' = [stats EXCEPT ![p] = [stats[p] EXCEPT ![c] = @ + 1]]
  BY DEF FinishRow
<1> QED
  BY <1>1, <1>2, <1>3 DEF FinishRow, TypeOK, Where

\* Clearing the cycle's own variables keeps their types.
LEMMA EndCycleType ==
  ASSUME TypeOK, NEW p \in Replicas, EndCycle(p)
  PROVE  /\ pc' \in [Replicas -> Where] /\ stats' \in [Replicas -> Counters]
         /\ filter' \in [Replicas -> 1..Len(Filters)] /\ page' \in [Replicas -> Nat \ {0}]
         /\ items' \in [Replicas -> Seq(Row)] /\ more' \in [Replicas -> BOOLEAN]
         /\ candidates' \in [Replicas -> SUBSET Nonces]
         /\ nonce' \in [Replicas -> Nonces \cup {None}]
         /\ expected' \in [Replicas -> Payload \cup {None}]
         /\ \A q \in Replicas :
              /\ pc'[q] \in {"candidates", "reserve", "sign", "submit"} => items'[q] # <<>>
              /\ nonce'[q] # None => pc'[q] \in {"sign", "submit"}
<1>1. ZeroStats \in Counters /\ <<>> \in Seq(Row)
  BY DEF ZeroStats, Counters
<1>2. 1 \in 1..Len(Filters)
  BY FiltersAssumption
<1>3. /\ pc' \in [Replicas -> Where] /\ page' \in [Replicas -> Nat \ {0}]
      /\ more' \in [Replicas -> BOOLEAN] /\ candidates' \in [Replicas -> SUBSET Nonces]
      /\ nonce' \in [Replicas -> Nonces \cup {None}]
      /\ expected' \in [Replicas -> Payload \cup {None}]
  BY DEF EndCycle, TypeOK, Where
<1>4. /\ stats' \in [Replicas -> Counters] /\ items' \in [Replicas -> Seq(Row)]
      /\ filter' \in [Replicas -> 1..Len(Filters)]
  BY <1>1, <1>2 DEF EndCycle, TypeOK
<1>5. \A q \in Replicas : q # p => pc'[q] = pc[q] /\ items'[q] = items[q] /\ nonce'[q] = nonce[q]
  BY DEF EndCycle, TypeOK
<1>6. pc'[p] = "idle" /\ nonce'[p] = None
  BY DEF EndCycle, TypeOK
<1> QED
  BY <1>3, <1>4, <1>5, <1>6 DEF TypeOK

\* Every step keeps the types.
LEMMA TypeStep == TypeOK /\ [Next]_vars => TypeOK'
<1> SUFFICES ASSUME TypeOK, [Next]_vars PROVE TypeOK'
  OBVIOUS
<1> USE DEF apiVars, loopVars, rowVars, processVars, keyVars, replicaVars
<1>1. ASSUME NEW p \in Replicas, StartCycle(p) PROVE TypeOK'
  BY <1>1 DEF TypeOK, StartCycle, Advance, Where
<1>2. ASSUME NEW p \in Replicas, FetchPage(p) PROVE TypeOK'
  <2> DEFINE rows == PageRows(filter[p], page[p])
  <2>1. rows \in Seq(Row) /\ Len(rows) \in Nat
    BY PageRowsType, LenProperties DEF TypeOK
  <2>2. MorePages(filter[p], page[p]) \in BOOLEAN
    BY DEF MorePages
  <2>3. [stats[p] EXCEPT !.fetched = @ + Len(rows)] \in Counters
    <3>1. stats[p] \in Counters
      BY DEF TypeOK
    <3>2. "fetched" \in DOMAIN ZeroStats
      BY DEF ZeroStats
    <3> HIDE DEF rows
    <3> QED BY <2>1, <3>1, <3>2, CountersType
  <2>4. stats' = [stats EXCEPT ![p] = [stats[p] EXCEPT !.fetched = @ + Len(rows)]]
    BY <1>2 DEF FetchPage
  <2> HIDE DEF rows
  <2>5. items' = [items EXCEPT ![p] = rows]
    BY <1>2 DEF FetchPage, rows
  <2>6. /\ items' \in [Replicas -> Seq(Row)] /\ stats' \in [Replicas -> Counters]
        /\ more' \in [Replicas -> BOOLEAN] /\ pc' \in [Replicas -> Where]
    BY <1>2, <2>1, <2>2, <2>3, <2>4, <2>5 DEF TypeOK, FetchPage, Advance, Where
  <2>7. \A q \in Replicas :
          /\ pc'[q] \in {"candidates", "reserve", "sign", "submit"} => items'[q] # <<>>
          /\ nonce'[q] # None => pc'[q] \in {"sign", "submit"}
    BY <1>2, <2>5 DEF TypeOK, FetchPage, Advance
  <2> QED
    BY <1>2, <2>6, <2>7 DEF TypeOK, FetchPage
<1>3. ASSUME NEW p \in Replicas, FetchFails(p) PROVE TypeOK'
  BY <1>3, EndCycleType DEF TypeOK, FetchFails
<1>4. ASSUME NEW p \in Replicas, NextPage(p) PROVE TypeOK'
  BY <1>4 DEF TypeOK, NextPage, Where
<1>5. ASSUME NEW p \in Replicas, NextFilter(p) PROVE TypeOK'
  BY <1>5, FiltersAssumption DEF TypeOK, NextFilter, Where
<1>6. ASSUME NEW p \in Replicas, CycleDone(p) PROVE TypeOK'
  BY <1>6, EndCycleType DEF TypeOK, CycleDone
<1>7. ASSUME NEW p \in Replicas, SkipRow(p) PROVE TypeOK'
  BY <1>7, FinishRowType DEF TypeOK, SkipRow, AtRow, FinishRow
<1>8. ASSUME NEW p \in Replicas, RejectRow(p) PROVE TypeOK'
  BY <1>8, FinishRowType DEF TypeOK, RejectRow, AtRow, FinishRow
<1>9. ASSUME NEW p \in Replicas, BeginRow(p) PROVE TypeOK'
  <2>1. items[p] # <<>>
    BY <1>9 DEF BeginRow, AtRow
  <2>2. /\ OwnNonce[Cur(p)] \in Nonces \cup {None} /\ Announced[Cur(p)] \in Payload \cup {None}
        /\ Class[Cur(p)] # "legacy" => OwnNonce[Cur(p)] = None
    BY <2>1, CurType, BodiesAssumption
  <2>3. /\ nonce' \in [Replicas -> Nonces \cup {None}]
        /\ expected' \in [Replicas -> Payload \cup {None}]
    BY <1>9, <2>2 DEF BeginRow, TypeOK
  <2>4. \A q \in Replicas :
          /\ pc'[q] \in {"candidates", "reserve", "sign", "submit"} => items'[q] # <<>>
          /\ nonce'[q] # None => pc'[q] \in {"sign", "submit"}
    BY <1>9, <2>1, <2>2 DEF BeginRow, Advance, TypeOK
  <2> QED
    BY <1>9, <2>3, <2>4 DEF TypeOK, BeginRow, Advance, Where
<1>10. ASSUME NEW p \in Replicas, ReadCandidates(p) PROVE TypeOK'
  BY <1>10 DEF TypeOK, ReadCandidates, Available, Advance, Where
<1>11. ASSUME NEW p \in Replicas, NoCandidates(p) PROVE TypeOK'
  BY <1>11, FinishRowType DEF TypeOK, NoCandidates, FinishRow
<1>12. ASSUME NEW p \in Replicas, CandidatesFail(p) PROVE TypeOK'
  BY <1>12, FinishRowType DEF TypeOK, CandidatesFail, FinishRow
<1>13. ASSUME NEW p \in Replicas, ReserveReturns(p) PROVE TypeOK'
  <2>1. items[p] # <<>>
    BY <1>13 DEF TypeOK, ReserveReturns
  <2>2. Cur(p) \in Requests
    BY <2>1, CurType
  <2>3. PICK n \in ReservedFor(Cur(p), candidates[p]) :
          /\ ApiReserve(Cur(p), n)
          /\ \/ /\ n \in candidates[p]
                /\ pc' = [pc EXCEPT ![p] = "sign"]
                /\ nonce' = [nonce EXCEPT ![p] = n]
                /\ expected' = [expected EXCEPT ![p] = ExpectedHash(p, n)]
                /\ UNCHANGED <<loopVars, candidates, stats>>
             \/ n \notin candidates[p] /\ FinishRow(p, "failed")
    BY <1>13 DEF ReserveReturns, BodyNonce, InWindow
  <2>4. n \in Nonces
    BY <2>2 DEF ReservedFor, TypeOK
  <2>5. reservation' \in [Requests -> Nonces \cup {None}]
    BY <2>2, <2>3, <2>4 DEF ApiReserve, TypeOK
  <2>6. CASE /\ n \in candidates[p] /\ pc' = [pc EXCEPT ![p] = "sign"]
             /\ nonce' = [nonce EXCEPT ![p] = n]
             /\ expected' = [expected EXCEPT ![p] = ExpectedHash(p, n)]
             /\ UNCHANGED <<loopVars, candidates, stats>>
    <3>1. ExpectedHash(p, n) \in Payload \cup {None}
      BY <2>2, <2>4 DEF ExpectedHash, Payload
    <3> QED
      BY <1>13, <2>1, <2>4, <2>5, <2>6, <3>1 DEF TypeOK, ReserveReturns, Where
  <2>7. CASE FinishRow(p, "failed")
    BY <1>13, <2>1, <2>5, <2>7, FinishRowType DEF TypeOK, ReserveReturns, FinishRow
  <2> QED
    BY <2>3, <2>6, <2>7
<1>14. ASSUME NEW p \in Replicas, ReserveFails(p) PROVE TypeOK'
  <2>1. items[p] # <<>> /\ FinishRow(p, "failed")
    BY <1>14 DEF TypeOK, ReserveFails
  <2>2. [id |-> Cur(p), candidates |-> candidates[p]] \in NonceCall
    BY <2>1, CurType DEF TypeOK, NonceCall
  <2>3. strayNonce' \subseteq NonceCall
    BY <1>14, <2>2 DEF TypeOK, ReserveFails
  <2> QED
    BY <1>14, <2>1, <2>3, FinishRowType DEF TypeOK, ReserveFails, FinishRow
<1>15. ASSUME NEW p \in Replicas, SignReturns(p) PROVE TypeOK'
  <2>1. items[p] # <<>>
    BY <1>15 DEF TypeOK, SignReturns
  <2>2. signatures' \subseteq Payload
    BY <1>15, <2>1, CurType DEF TypeOK, SignReturns
  <2>3. CASE pc' = [pc EXCEPT ![p] = "submit"] /\ UNCHANGED <<loopVars, rowVars, stats>>
    BY <1>15, <2>1, <2>2, <2>3 DEF TypeOK, SignReturns, Where
  <2>4. CASE FinishRow(p, "failed")
    BY <1>15, <2>1, <2>2, <2>4, FinishRowType DEF TypeOK, SignReturns, FinishRow
  <2> QED
    BY <1>15, <2>3, <2>4 DEF SignReturns
<1>16. ASSUME NEW p \in Replicas, SignFails(p) PROVE TypeOK'
  <2>1. items[p] # <<>> /\ FinishRow(p, "failed")
    BY <1>16 DEF TypeOK, SignFails
  <2>2. signatures' \subseteq Payload
    BY <1>16, <2>1, CurType DEF TypeOK, SignFails
  <2> QED
    BY <1>16, <2>1, <2>2, FinishRowType DEF TypeOK, SignFails, FinishRow
<1>17. ASSUME NEW p \in Replicas, SignTimesOut(p) PROVE TypeOK'
  <2>1. items[p] # <<>> /\ FinishRow(p, "failed")
    BY <1>17 DEF TypeOK, SignTimesOut
  <2>2. Cur(p) \in Requests /\ BodyPayload(p) \in Payload
    BY <2>1, CurType
  <2>3. late' \in [Replicas -> SUBSET Payload]
    BY <1>17, <2>2 DEF TypeOK, SignTimesOut
  <2>4. [timeouts[p] EXCEPT ![Cur(p)] = @ + 1] \in [Requests -> Nat]
    BY <2>2 DEF TypeOK
  <2>5. timeouts' = [timeouts EXCEPT ![p] = [timeouts[p] EXCEPT ![Cur(p)] = @ + 1]]
    BY <1>17 DEF SignTimesOut
  <2>6. timeouts' \in [Replicas -> [Requests -> Nat]]
    BY <2>4, <2>5 DEF TypeOK
  <2> QED
    BY <1>17, <2>1, <2>3, <2>6, FinishRowType DEF TypeOK, SignTimesOut, FinishRow
<1>18. ASSUME NEW p \in Replicas, SubmitReturns(p) PROVE TypeOK'
  <2>1. items[p] # <<>> /\ FinishRow(p, "signed")
    BY <1>18 DEF TypeOK, SubmitReturns
  <2>2. accepted' \subseteq Payload
    BY <1>18, <2>1, CurType DEF TypeOK, SubmitReturns
  <2> QED
    BY <1>18, <2>1, <2>2, FinishRowType DEF TypeOK, SubmitReturns, FinishRow
<1>19. ASSUME NEW p \in Replicas, SubmitFails(p) PROVE TypeOK'
  <2>1. items[p] # <<>> /\ FinishRow(p, "failed")
    BY <1>19 DEF TypeOK, SubmitFails
  <2>2. straySubmit' \subseteq Payload
    BY <1>19, <2>1, CurType DEF TypeOK, SubmitFails
  <2> QED
    BY <1>19, <2>1, <2>2, FinishRowType DEF TypeOK, SubmitFails, FinishRow
<1>20. ASSUME NEW p \in Replicas, LateSignature(p) PROVE TypeOK'
  BY <1>20 DEF TypeOK, LateSignature
<1>21. ASSUME NEW p \in Replicas, Crash(p) PROVE TypeOK'
  <2>1. straySubmit' \subseteq Payload
    BY <1>21, CurType DEF TypeOK, Crash
  <2>2. ZeroStats \in Counters /\ [r \in Requests |-> 0] \in [Requests -> Nat]
    BY DEF ZeroStats, Counters
  <2>3. /\ stats' \in [Replicas -> Counters]
        /\ timeouts' \in [Replicas -> [Requests -> Nat]]
        /\ late' \in [Replicas -> SUBSET Payload]
    BY <1>21, <2>2 DEF TypeOK, Crash
  <2>4. /\ pc' \in [Replicas -> Where] /\ filter' \in [Replicas -> FilterIndex]
        /\ page' \in [Replicas -> Nat \ {0}] /\ items' \in [Replicas -> Seq(Row)]
        /\ more' \in [Replicas -> BOOLEAN] /\ candidates' \in [Replicas -> SUBSET Nonces]
        /\ nonce' \in [Replicas -> Nonces \cup {None}] /\ crashes' \in Nat
        /\ expected' \in [Replicas -> Payload \cup {None}]
    BY <1>21, FiltersAssumption DEF TypeOK, Crash, Where
  <2>5. \A q \in Replicas :
          /\ pc'[q] \in {"candidates", "reserve", "sign", "submit"} => items'[q] # <<>>
          /\ nonce'[q] # None => pc'[q] \in {"sign", "submit"}
    BY <1>21 DEF TypeOK, Crash
  <2> QED
    BY <1>21, <2>1, <2>3, <2>4, <2>5 DEF TypeOK, Crash
<1>22. ASSUME NEW p \in Replicas, Restart(p) PROVE TypeOK'
  BY <1>22 DEF TypeOK, Restart, Advance, Where
<1>23. ASSUME NEW f \in FilterIndex, NEW r \in Filters[f], Announce(f, r) PROVE TypeOK'
  <2>1. r \in Requests /\ open[f] \in Seq(Requests)
    <3>1. Filters[f] \in SUBSET Requests
      BY FiltersAssumption, ElementOfSeq
    <3> QED BY <3>1 DEF TypeOK
  <2>2. Append(open[f], r) \in Seq(Requests) /\ <<r>> \o open[f] \in Seq(Requests)
    BY <2>1
  <2>3. open' \in [FilterIndex -> Seq(Requests)]
    BY <1>23, <2>2 DEF TypeOK, Announce
  <2> QED
    BY <1>23, <2>1, <2>3 DEF TypeOK, Announce
<1>24. ASSUME NEW f \in FilterIndex, NEW i \in 1..Len(open[f]), Close(f, i) PROVE TypeOK'
  <2>1. open[f] \in Seq(Requests) /\ Len(open[f]) \in Nat
    BY LenProperties DEF TypeOK
  <2>2. SubSeq(open[f], 1, i - 1) \in Seq(Requests)
        /\ SubSeq(open[f], i + 1, Len(open[f])) \in Seq(Requests)
    BY <2>1, SubSeqProperties
  <2>3. SubSeq(open[f], 1, i - 1) \o SubSeq(open[f], i + 1, Len(open[f])) \in Seq(Requests)
    BY <2>2
  <2>4. open' \in [FilterIndex -> Seq(Requests)]
    BY <1>24, <2>3 DEF TypeOK, Close
  <2> QED
    BY <1>24, <2>4 DEF TypeOK, Close
<1>25. ASSUME NEW x \in accepted, Execute(x) PROVE TypeOK'
  BY <1>25 DEF TypeOK, Execute, Payload
<1>26. ASSUME NEW c \in strayNonce, StrayNonceArrives(c) PROVE TypeOK'
  <2>1. c.id \in Requests /\ c.candidates \subseteq Nonces
    BY DEF TypeOK, NonceCall
  <2>2. ReservedFor(c.id, c.candidates) \subseteq Nonces
    BY <2>1 DEF ReservedFor, TypeOK
  <2>3. reservation' \in [Requests -> Nonces \cup {None}]
    BY <1>26, <2>1, <2>2 DEF TypeOK, StrayNonceArrives, ApiReserve
  <2> QED
    BY <1>26, <2>3 DEF TypeOK, StrayNonceArrives
<1>27. ASSUME NEW x \in straySubmit, StraySubmitArrives(x) PROVE TypeOK'
  BY <1>27 DEF TypeOK, StraySubmitArrives
<1>28. CASE UNCHANGED vars
  BY <1>28 DEF vars, TypeOK
<1> QED
  BY <1>1, <1>2, <1>3, <1>4, <1>5, <1>6, <1>7, <1>8, <1>9, <1>10, <1>11, <1>12, <1>13,
     <1>14, <1>15, <1>16, <1>17, <1>18, <1>19, <1>20, <1>21, <1>22, <1>23, <1>24, <1>25,
     <1>26, <1>27, <1>28 DEF Next, Poll

\* The types, a row in hand while one is worked through, a nonce in the body only
\* between its reservation and the end of the row: in every reachable state.
THEOREM TypeCorrect == Spec => []TypeOK
BY TypeInit, TypeStep, PTL DEF Spec

-----------------------------------------------------------------------------
(* The reservation invariant.                                              *)

\* A reservation made for an independent request keeps the table injective and
\* falsifies no payload that carries what was reserved before.
LEMMA ReserveStable ==
  ASSUME TypeOK, ReservationTable,
         NEW r \in Requests, Class[r] = "independent",
         NEW C \in SUBSET Nonces, NEW n \in ReservedFor(r, C), ApiReserve(r, n)
  PROVE  /\ ReservationTable'
         /\ reservation'[r] = n /\ n # None
         /\ \A x \in Payload : Attested(x) => Attested(x)'
<1>1. reservation \in [Requests -> Nonces \cup {None}] /\ reservation' = [reservation EXCEPT ![r] = n]
  BY DEF TypeOK, ApiReserve
<1>2. n \in Nonces /\ n # None
  BY <1>1, NoneAssumption DEF ReservedFor
<1>3. reservation[r] = None => \A s \in Requests : reservation[s] # n
  BY DEF ReservedFor
<1>4. reservation[r] # None => n = reservation[r]
  BY DEF ReservedFor
<1>5. ReservationTable'
  BY <1>1, <1>2, <1>3, <1>4 DEF ReservationTable
<1>6. ASSUME NEW x \in Payload, Attested(x) PROVE Attested(x)'
  <2>1. x.id \in Requests
    BY DEF Payload
  <2>2. CASE x.id = r
    BY <1>1, <1>4, <1>6, <2>1, <2>2 DEF Attested, Due
  <2>3. CASE x.id # r
    BY <1>1, <1>6, <2>1, <2>3 DEF Attested, Due
  <2> QED BY <2>2, <2>3
<1> QED
  BY <1>1, <1>2, <1>5, <1>6

\* A step of one replica that only adds signatures and keeps what is attested
\* leaves the bodies the other replicas have in hand as they were.
LEMMA OthersInHand ==
  ASSUME TypeOK, NEW q \in Replicas, BodyInHand(q),
         pc'[q] = pc[q], items'[q] = items[q], nonce'[q] = nonce[q],
         expected'[q] = expected[q],
         signatures \subseteq signatures',
         \A x \in Payload : Attested(x) => Attested(x)'
  PROVE  BodyInHand(q)'
<1>1. Cur(q)' = Cur(q) /\ BodyPayload(q)' = BodyPayload(q)
  BY DEF Cur, BodyPayload
<1>2. CASE pc[q] \in {"sign", "submit"}
  <2>1. BodyPayload(q) \in Payload
    BY <1>2, CurType DEF TypeOK
  <2>2. Attested(BodyPayload(q)) => Attested(BodyPayload(q))'
    BY <1>1, <2>1 DEF Attested, Due
  <2>3. HashAgrees(q)' = HashAgrees(q)
    BY <1>1 DEF HashAgrees
  <2> QED
    BY <1>1, <1>2, <2>2, <2>3 DEF BodyInHand, Vouched
<1>3. CASE pc[q] \notin {"sign", "submit"}
  BY <1>1, <1>3 DEF BodyInHand
<1> QED
  BY <1>2, <1>3

\* A replica whose row is finished, or that has none, has no body in hand.
LEMMA NothingInHand ==
  ASSUME NEW p \in Replicas, pc'[p] \in {"idle", "fetch", "items", "down"}
  PROVE  BodyInHand(p)'
BY DEF BodyInHand

\* A step of one replica keeps every body in hand if it keeps the stepping
\* replica's, adds signatures only, and leaves what was attested attested.
LEMMA StepOfOne ==
  ASSUME TypeOK, ReservationInv, NEW p \in Replicas,
         \A q \in Replicas \ {p} : /\ pc'[q] = pc[q]
                                   /\ items'[q] = items[q]
                                   /\ nonce'[q] = nonce[q]
                                   /\ expected'[q] = expected[q],
         signatures \subseteq signatures',
         \A x \in Payload : Attested(x) => Attested(x)',
         BodyInHand(p)'
  PROVE  \A q \in Replicas : BodyInHand(q)'
<1> SUFFICES ASSUME NEW q \in Replicas PROVE BodyInHand(q)'
  OBVIOUS
<1>1. CASE q = p
  BY <1>1
<1>2. CASE q # p
  BY <1>2, OthersInHand DEF ReservationInv
<1> QED
  BY <1>1, <1>2

\* Nothing is reserved, signed or under way at the start.
LEMMA ReservationInit == Init => ReservationInv
BY DEF Init, ReservationInv, ReservationTable, AttestedKey, BodyInHand, CallsUnderWay

\* A step that leaves grunt-api, the key and the late tasks alone, and the stepping
\* replica with a good body or none, keeps the invariant.
LEMMA QuietStep ==
  ASSUME TypeOK, ReservationInv, NEW p \in Replicas,
         \A q \in Replicas \ {p} : /\ pc'[q] = pc[q]
                                   /\ items'[q] = items[q]
                                   /\ nonce'[q] = nonce[q]
                                   /\ expected'[q] = expected[q],
         BodyInHand(p)' \/ pc'[p] \in {"idle", "fetch", "items", "down"},
         UNCHANGED <<reservation, accepted, consumed, strayNonce, straySubmit, late, signatures>>
  PROVE  ReservationInv'
<1>1. \A x \in Payload : Attested(x) => Attested(x)'
  BY DEF Attested, Due
<1>2. BodyInHand(p)'
  BY NothingInHand
<1>3. \A q \in Replicas : BodyInHand(q)'
  BY <1>1, <1>2, StepOfOne
<1>4. ReservationTable' /\ AttestedKey' /\ CallsUnderWay'
  BY DEF ReservationInv, ReservationTable, AttestedKey, Attested, Due, CallsUnderWay
<1> QED
  BY <1>3, <1>4 DEF ReservationInv

\* Every step keeps the reservation invariant: a nonce newly reserved, by a call in
\* hand or by one given up, falsifies nothing signed, submitted or left running.
LEMMA ReservationStep == TypeOK /\ ReservationInv /\ [Next]_vars => ReservationInv'
<1> SUFFICES ASSUME TypeOK, ReservationInv, [Next]_vars PROVE ReservationInv'
  OBVIOUS
<1> USE DEF apiVars, loopVars, rowVars, processVars, keyVars, replicaVars
<1>1. ASSUME NEW p \in Replicas, StartCycle(p) PROVE ReservationInv'
  BY <1>1, QuietStep DEF StartCycle, Advance, TypeOK
<1>2. ASSUME NEW p \in Replicas, FetchPage(p) PROVE ReservationInv'
  BY <1>2, QuietStep DEF FetchPage, Advance, TypeOK
<1>3. ASSUME NEW p \in Replicas, FetchFails(p) PROVE ReservationInv'
  BY <1>3, QuietStep DEF FetchFails, EndCycle, TypeOK
<1>4. ASSUME NEW p \in Replicas, NextPage(p) PROVE ReservationInv'
  BY <1>4, QuietStep DEF NextPage, TypeOK
<1>5. ASSUME NEW p \in Replicas, NextFilter(p) PROVE ReservationInv'
  BY <1>5, QuietStep DEF NextFilter, TypeOK
<1>6. ASSUME NEW p \in Replicas, CycleDone(p) PROVE ReservationInv'
  BY <1>6, QuietStep DEF CycleDone, EndCycle, TypeOK
<1>7. ASSUME NEW p \in Replicas, SkipRow(p) PROVE ReservationInv'
  BY <1>7, QuietStep DEF SkipRow, FinishRow, TypeOK
<1>8. ASSUME NEW p \in Replicas, RejectRow(p) PROVE ReservationInv'
  BY <1>8, QuietStep DEF RejectRow, FinishRow, TypeOK
<1>9. ASSUME NEW p \in Replicas, BeginRow(p) PROVE ReservationInv'
  <2>1. items[p] # <<>>
    BY <1>9 DEF BeginRow, AtRow
  <2>2. Cur(p) \in Requests /\ Cur(p)' = Cur(p)
    BY <1>9, <2>1, CurType DEF BeginRow, Cur
  <2>3. nonce'[p] = OwnNonce[Cur(p)] /\ expected'[p] = Announced[Cur(p)]
    BY <1>9 DEF BeginRow, TypeOK
  <2>4. CASE Class[Cur(p)] = "legacy" /\ pc' = [pc EXCEPT ![p] = "sign"]
    <3>1. BodyPayload(p)' = [id |-> Cur(p), nonce |-> OwnNonce[Cur(p)]]
      BY <2>2, <2>3 DEF BodyPayload
    <3>2. Attested(BodyPayload(p))'
      BY <2>4, <3>1 DEF Attested, Due
    <3>3. HashAgrees(p)' => Announced[Cur(p)] = [id |-> Cur(p), nonce |-> OwnNonce[Cur(p)]]
      BY <2>3, <3>1 DEF HashAgrees
    <3>4. HashAgrees(p)' => Vouched(BodyPayload(p))'
      BY <2>4, <3>1, <3>3 DEF Vouched
    <3>5. BodyInHand(p)'
      BY <2>4, <3>2, <3>4 DEF BodyInHand, TypeOK
    <3> QED
      BY <1>9, <2>4, <3>5, QuietStep DEF BeginRow, TypeOK
  <2>5. CASE Class[Cur(p)] = "independent" /\ pc' = [pc EXCEPT ![p] = "candidates"]
    <3>1. BodyInHand(p)'
      BY <2>2, <2>5 DEF BodyInHand, TypeOK
    <3> QED
      BY <1>9, <2>5, <3>1, QuietStep DEF BeginRow, TypeOK
  <2> QED
    BY <1>9, <2>4, <2>5 DEF BeginRow, Advance
<1>10. ASSUME NEW p \in Replicas, ReadCandidates(p) PROVE ReservationInv'
  <2>1. Cur(p)' = Cur(p) /\ pc' = [pc EXCEPT ![p] = "reserve"] /\ pc[p] = "candidates"
    BY <1>10 DEF ReadCandidates, Cur, Advance
  <2>2. BodyInHand(p)'
    BY <2>1 DEF BodyInHand, TypeOK, ReservationInv
  <2> QED
    BY <1>10, <2>1, <2>2, QuietStep DEF ReadCandidates, TypeOK
<1>11. ASSUME NEW p \in Replicas, NoCandidates(p) PROVE ReservationInv'
  BY <1>11, QuietStep DEF NoCandidates, FinishRow, TypeOK
<1>12. ASSUME NEW p \in Replicas, CandidatesFail(p) PROVE ReservationInv'
  BY <1>12, QuietStep DEF CandidatesFail, FinishRow, TypeOK
<1>13. ASSUME NEW p \in Replicas, ReserveReturns(p) PROVE ReservationInv'
  <2>1. items[p] # <<>> /\ pc[p] = "reserve" /\ candidates[p] \in SUBSET Nonces
    BY <1>13 DEF TypeOK, ReserveReturns
  <2>2. Cur(p) \in Requests /\ Class[Cur(p)] = "independent"
    BY <2>1, CurType DEF ReservationInv, BodyInHand
  <2>3. PICK n \in ReservedFor(Cur(p), candidates[p]) :
          /\ ApiReserve(Cur(p), n)
          /\ \/ /\ n \in candidates[p]
                /\ pc' = [pc EXCEPT ![p] = "sign"]
                /\ nonce' = [nonce EXCEPT ![p] = n]
                /\ expected' = [expected EXCEPT ![p] = ExpectedHash(p, n)]
                /\ UNCHANGED <<loopVars, candidates, stats>>
             \/ n \notin candidates[p] /\ FinishRow(p, "failed")
    BY <1>13 DEF ReserveReturns, BodyNonce, InWindow
  <2>4. /\ ReservationTable'
        /\ reservation'[Cur(p)] = n /\ n # None
        /\ \A x \in Payload : Attested(x) => Attested(x)'
    BY <2>1, <2>2, <2>3, ReserveStable DEF ReservationInv
  <2>5. UNCHANGED <<accepted, consumed, strayNonce, straySubmit, late, signatures>>
    BY <1>13 DEF ReserveReturns
  <2>6. AttestedKey' /\ CallsUnderWay'
    <3>1. signatures \subseteq Payload /\ \A q \in Replicas : late[q] \subseteq Payload
      BY DEF TypeOK
    <3>2. AttestedKey'
      BY <2>4, <2>5, <3>1 DEF ReservationInv, AttestedKey
    <3> QED
      BY <2>5, <3>2 DEF ReservationInv, CallsUnderWay
  <2>7. CASE /\ pc' = [pc EXCEPT ![p] = "sign"] /\ nonce' = [nonce EXCEPT ![p] = n]
             /\ expected' = [expected EXCEPT ![p] = ExpectedHash(p, n)]
             /\ UNCHANGED <<loopVars, candidates, stats>>
    <3>1. Cur(p)' = Cur(p) /\ nonce'[p] = n /\ pc'[p] = "sign" /\ expected'[p] = ExpectedHash(p, n)
      BY <2>7 DEF Cur, TypeOK
    <3>2. BodyPayload(p)' = [id |-> Cur(p), nonce |-> n]
      BY <3>1 DEF BodyPayload
    <3>3. Attested(BodyPayload(p))'
      BY <2>2, <2>4, <3>2 DEF Attested, Due
    <3>4. BodyPayload(p)' \in Payload
      BY <2>1, <2>2, <3>2 DEF Payload, ReservedFor, TypeOK
    <3>5. HashAgrees(p)' => Vouched(BodyPayload(p)')
      BY <2>2, <3>1, <3>2, <3>4, NoneAssumption DEF HashAgrees, Vouched, ExpectedHash
    <3>6. BodyInHand(p)'
      BY <3>1, <3>3, <3>5 DEF BodyInHand, Vouched
    <3>7. \A q \in Replicas : BodyInHand(q)'
      BY <2>4, <2>5, <2>7, <3>6, StepOfOne DEF TypeOK
    <3> QED
      BY <2>4, <2>6, <3>7 DEF ReservationInv
  <2>8. CASE FinishRow(p, "failed")
    <3>1. BodyInHand(p)'
      BY <2>8, NothingInHand DEF FinishRow, TypeOK
    <3>2. \A q \in Replicas : BodyInHand(q)'
      BY <2>4, <2>5, <2>8, <3>1, StepOfOne DEF FinishRow, TypeOK
    <3> QED
      BY <2>4, <2>6, <3>2 DEF ReservationInv
  <2> QED
    BY <2>3, <2>7, <2>8
<1>14. ASSUME NEW p \in Replicas, ReserveFails(p) PROVE ReservationInv'
  <2>1. pc[p] = "reserve" /\ FinishRow(p, "failed") /\ Class[Cur(p)] = "independent"
    BY <1>14 DEF ReserveFails, ReservationInv, BodyInHand
  <2>2. UNCHANGED <<reservation, accepted, consumed, straySubmit, late, signatures>>
    BY <1>14 DEF ReserveFails
  <2>3. BodyInHand(p)'
    BY <2>1, NothingInHand DEF FinishRow, TypeOK
  <2>4. \A q \in Replicas : BodyInHand(q)'
    BY <2>1, <2>2, <2>3, StepOfOne DEF FinishRow, TypeOK, Attested, Due
  <2>5. \A c \in strayNonce' : Class[c.id] = "independent"
    BY <1>14, <2>1 DEF ReserveFails, ReservationInv, CallsUnderWay
  <2> QED
    BY <2>2, <2>4, <2>5
    DEF ReservationInv, ReservationTable, AttestedKey, Attested, Due, CallsUnderWay
<1>15. ASSUME NEW p \in Replicas, SignReturns(p) PROVE ReservationInv'
  <2>1. /\ pc[p] = "sign" /\ items[p] # <<>>
        /\ signatures' = signatures \cup {BodyPayload(p)}
    BY <1>15 DEF SignReturns, TypeOK
  <2>2. Attested(BodyPayload(p))
    BY <2>1 DEF ReservationInv, BodyInHand
  <2>3. UNCHANGED <<reservation, accepted, consumed, strayNonce, straySubmit, late>>
    BY <1>15 DEF SignReturns
  <2>4. ReservationTable' /\ AttestedKey' /\ CallsUnderWay'
    BY <2>1, <2>2, <2>3
    DEF ReservationInv, ReservationTable, AttestedKey, Attested, Due, CallsUnderWay
  <2>5. CASE HashAgrees(p) /\ pc' = [pc EXCEPT ![p] = "submit"] /\ UNCHANGED <<loopVars, rowVars, stats>>
    <3>1. Cur(p)' = Cur(p) /\ BodyPayload(p)' = BodyPayload(p) /\ pc'[p] = "submit"
      BY <2>5 DEF Cur, BodyPayload, TypeOK
    <3>2. Attested(BodyPayload(p))'
      BY <2>2, <2>3, <3>1 DEF Attested, Due
    <3>3. Vouched(BodyPayload(p)) /\ BodyPayload(p) \in signatures'
      BY <2>1, <2>5 DEF ReservationInv, BodyInHand
    <3>5. Vouched(BodyPayload(p))'
      BY <3>1, <3>3 DEF Vouched
    <3>6. BodyInHand(p)'
      BY <3>1, <3>2, <3>3, <3>5 DEF BodyInHand
    <3>7. \A q \in Replicas : BodyInHand(q)'
      BY <2>1, <2>3, <2>5, <3>6, StepOfOne DEF TypeOK, Attested, Due
    <3> QED
      BY <2>4, <3>7 DEF ReservationInv
  <2>6. CASE FinishRow(p, "failed")
    <3>1. BodyInHand(p)'
      BY <2>6, NothingInHand DEF FinishRow, TypeOK
    <3>2. \A q \in Replicas : BodyInHand(q)'
      BY <2>1, <2>3, <2>6, <3>1, StepOfOne DEF FinishRow, TypeOK, Attested, Due
    <3> QED
      BY <2>4, <3>2 DEF ReservationInv
  <2> QED
    BY <1>15, <2>5, <2>6 DEF SignReturns
<1>16. ASSUME NEW p \in Replicas, SignFails(p) PROVE ReservationInv'
  <2>1. /\ pc[p] = "sign" /\ FinishRow(p, "failed")
        /\ signatures' \in {signatures, signatures \cup {BodyPayload(p)}}
    BY <1>16 DEF SignFails
  <2>2. Attested(BodyPayload(p))
    BY <2>1 DEF ReservationInv, BodyInHand
  <2>3. UNCHANGED <<reservation, accepted, consumed, strayNonce, straySubmit, late>>
    BY <1>16 DEF SignFails
  <2>4. BodyInHand(p)'
    BY <2>1, NothingInHand DEF FinishRow, TypeOK
  <2>5. \A q \in Replicas : BodyInHand(q)'
    BY <2>1, <2>3, <2>4, StepOfOne DEF FinishRow, TypeOK, Attested, Due
  <2> QED
    BY <2>1, <2>2, <2>3, <2>5
    DEF ReservationInv, ReservationTable, AttestedKey, Attested, Due, CallsUnderWay, Vouched
<1>17. ASSUME NEW p \in Replicas, SignTimesOut(p) PROVE ReservationInv'
  <2>1. pc[p] = "sign" /\ FinishRow(p, "failed") /\ Attested(BodyPayload(p))
    BY <1>17 DEF SignTimesOut, ReservationInv, BodyInHand
  <2>2. UNCHANGED <<reservation, accepted, consumed, strayNonce, straySubmit, signatures>>
    BY <1>17 DEF SignTimesOut
  <2>3. late' = [late EXCEPT ![p] = late[p] \cup {BodyPayload(p)}]
    BY <1>17 DEF SignTimesOut
  <2>4. \A q \in Replicas : \A x \in late'[q] : Attested(x)
    BY <2>1, <2>3 DEF ReservationInv, AttestedKey, TypeOK
  <2>5. BodyInHand(p)'
    BY <2>1, NothingInHand DEF FinishRow, TypeOK
  <2>6. \A q \in Replicas : BodyInHand(q)'
    BY <2>1, <2>2, <2>5, StepOfOne DEF FinishRow, TypeOK, Attested, Due
  <2> QED
    BY <2>2, <2>4, <2>6
    DEF ReservationInv, ReservationTable, AttestedKey, Attested, Due, CallsUnderWay
<1>18. ASSUME NEW p \in Replicas, SubmitReturns(p) PROVE ReservationInv'
  <2>1. /\ pc[p] = "submit" /\ FinishRow(p, "signed")
        /\ accepted' = accepted \cup {BodyPayload(p)}
    BY <1>18 DEF SubmitReturns
  <2>2. BodyPayload(p) \in signatures /\ Vouched(BodyPayload(p))
    BY <2>1 DEF ReservationInv, BodyInHand, BodyPayload
  <2>3. UNCHANGED <<reservation, consumed, strayNonce, straySubmit, late, signatures>>
    BY <1>18 DEF SubmitReturns
  <2>4. BodyInHand(p)'
    BY <2>1, NothingInHand DEF FinishRow, TypeOK
  <2>5. \A q \in Replicas : BodyInHand(q)'
    BY <2>1, <2>3, <2>4, StepOfOne DEF FinishRow, TypeOK, Attested, Due
  <2> QED
    BY <2>1, <2>2, <2>3, <2>5
    DEF ReservationInv, ReservationTable, AttestedKey, Attested, Due, CallsUnderWay
<1>19. ASSUME NEW p \in Replicas, SubmitFails(p) PROVE ReservationInv'
  <2>1. /\ pc[p] = "submit" /\ FinishRow(p, "failed")
        /\ straySubmit' \subseteq straySubmit \cup {BodyPayload(p)}
    BY <1>19 DEF SubmitFails
  <2>2. BodyPayload(p) \in signatures /\ Vouched(BodyPayload(p))
    BY <2>1 DEF ReservationInv, BodyInHand, BodyPayload
  <2>3. UNCHANGED <<reservation, accepted, consumed, strayNonce, late, signatures>>
    BY <1>19 DEF SubmitFails
  <2>4. BodyInHand(p)'
    BY <2>1, NothingInHand DEF FinishRow, TypeOK
  <2>5. \A q \in Replicas : BodyInHand(q)'
    BY <2>1, <2>3, <2>4, StepOfOne DEF FinishRow, TypeOK, Attested, Due
  <2> QED
    BY <2>1, <2>2, <2>3, <2>5
    DEF ReservationInv, ReservationTable, AttestedKey, Attested, Due, CallsUnderWay
<1>20. ASSUME NEW p \in Replicas, LateSignature(p) PROVE ReservationInv'
  <2>1. PICK x \in late[p] : /\ signatures' = signatures \cup {x}
                             /\ late' = [late EXCEPT ![p] = @ \ {x}]
    BY <1>20 DEF LateSignature
  <2>2. UNCHANGED <<reservation, accepted, consumed, strayNonce, straySubmit, pc, items, nonce, expected>>
    BY <1>20 DEF LateSignature
  <2>3. Attested(x) /\ \A q \in Replicas : late'[q] \subseteq late[q]
    BY <2>1 DEF ReservationInv, AttestedKey, TypeOK
  <2>4. \A q \in Replicas : BodyInHand(q)'
    BY <2>1, <2>2, OthersInHand DEF Attested, Due, ReservationInv
  <2> QED
    BY <2>1, <2>2, <2>3, <2>4
    DEF ReservationInv, ReservationTable, AttestedKey, Attested, Due, CallsUnderWay
<1>21. ASSUME NEW p \in Replicas, Crash(p) PROVE ReservationInv'
  <2>1. /\ pc'[p] = "down"
        /\ \A q \in Replicas \ {p} :
             /\ pc'[q] = pc[q] /\ items'[q] = items[q]
             /\ nonce'[q] = nonce[q] /\ expected'[q] = expected[q]
    BY <1>21 DEF Crash, TypeOK
  <2>2. UNCHANGED <<reservation, accepted, consumed, strayNonce, signatures>>
    BY <1>21 DEF Crash
  <2>3. \A q \in Replicas : late'[q] \subseteq late[q]
    BY <1>21 DEF Crash, TypeOK
  <2>4. \A x \in straySubmit' : x \in signatures /\ Vouched(x)
    <3>1. straySubmit' = straySubmit
          \/ (pc[p] = "submit" /\ straySubmit' = straySubmit \cup {BodyPayload(p)})
      BY <1>21 DEF Crash
    <3>2. pc[p] = "submit" => BodyPayload(p) \in signatures /\ Vouched(BodyPayload(p))
      BY DEF ReservationInv, BodyInHand, BodyPayload
    <3> QED
      BY <3>1, <3>2 DEF ReservationInv, CallsUnderWay
  <2>5. \A q \in Replicas : BodyInHand(q)'
    BY <2>1, <2>2, NothingInHand, StepOfOne DEF Attested, Due
  <2> QED
    BY <2>2, <2>3, <2>4, <2>5
    DEF ReservationInv, ReservationTable, AttestedKey, Attested, Due, CallsUnderWay
<1>22. ASSUME NEW p \in Replicas, Restart(p) PROVE ReservationInv'
  BY <1>22, QuietStep DEF Restart, Advance, TypeOK
<1>23. ASSUME NEW f \in FilterIndex, NEW r \in Filters[f], Announce(f, r) PROVE ReservationInv'
  BY <1>23 DEF Announce, ReservationInv, ReservationTable, AttestedKey, Attested, Due, BodyInHand,
               HashAgrees, Vouched, BodyPayload, Cur, CallsUnderWay
<1>24. ASSUME NEW f \in FilterIndex, NEW i \in 1..Len(open[f]), Close(f, i) PROVE ReservationInv'
  BY <1>24 DEF Close, ReservationInv, ReservationTable, AttestedKey, Attested, Due, BodyInHand,
               HashAgrees, Vouched, BodyPayload, Cur, CallsUnderWay
<1>25. ASSUME NEW x \in accepted, Execute(x) PROVE ReservationInv'
  BY <1>25 DEF Execute, ReservationInv, ReservationTable, AttestedKey, Attested, Due, BodyInHand,
               HashAgrees, Vouched, BodyPayload, Cur, CallsUnderWay
<1>26. ASSUME NEW c \in strayNonce, StrayNonceArrives(c) PROVE ReservationInv'
  <2>1. UNCHANGED <<accepted, consumed, straySubmit, late, signatures, pc, items, nonce, expected>>
        /\ strayNonce' \subseteq strayNonce
    BY <1>26 DEF StrayNonceArrives
  <2>2. c.id \in Requests /\ c.candidates \in SUBSET Nonces /\ Class[c.id] = "independent"
    BY DEF TypeOK, NonceCall, ReservationInv, CallsUnderWay
  <2>3. ReservationTable' /\ \A x \in Payload : Attested(x) => Attested(x)'
    <3>1. CASE UNCHANGED reservation
      BY <3>1 DEF ReservationInv, ReservationTable, Attested, Due
    <3>2. CASE \E n \in ReservedFor(c.id, c.candidates) : ApiReserve(c.id, n)
      BY <2>2, <3>2, ReserveStable DEF ReservationInv
    <3> QED
      BY <1>26, <3>1, <3>2 DEF StrayNonceArrives
  <2>4. \A q \in Replicas : BodyInHand(q)'
    BY <2>1, <2>3, OthersInHand DEF ReservationInv
  <2>5. AttestedKey'
    BY <2>1, <2>3 DEF ReservationInv, AttestedKey, TypeOK
  <2> QED
    BY <2>1, <2>3, <2>4, <2>5 DEF ReservationInv, CallsUnderWay
<1>27. ASSUME NEW x \in straySubmit, StraySubmitArrives(x) PROVE ReservationInv'
  BY <1>27 DEF StraySubmitArrives, ReservationInv, ReservationTable, AttestedKey, Attested, Due,
               BodyInHand, HashAgrees, Vouched, BodyPayload, Cur, CallsUnderWay
<1>28. CASE UNCHANGED vars
  BY <1>28 DEF vars, ReservationInv, ReservationTable, AttestedKey, Attested, Due, BodyInHand,
               HashAgrees, Vouched, BodyPayload, Cur, CallsUnderWay
<1> QED
  BY <1>1, <1>2, <1>3, <1>4, <1>5, <1>6, <1>7, <1>8, <1>9, <1>10, <1>11, <1>12, <1>13,
     <1>14, <1>15, <1>16, <1>17, <1>18, <1>19, <1>20, <1>21, <1>22, <1>23, <1>24, <1>25,
     <1>26, <1>27, <1>28 DEF Next, Poll

\* The reservation, the body, the key, the calls under way and the chain agree in
\* every reachable state, whatever replicas, retries, crashes and late tasks do.
THEOREM ReservationCorrect == Spec => []ReservationInv
BY TypeCorrect, ReservationInit, ReservationStep, PTL DEF Spec

\* Whatever was ever signed for a request carries the nonce durably reserved for
\* it, and an independent whitelisting is never signed without one.
THEOREM SignedUnderReservationCorrect == Spec => []SignedUnderReservation
<1>1. ReservationInv => SignedUnderReservation
  BY DEF ReservationInv, AttestedKey, SignedUnderReservation
<1> QED
  BY <1>1, ReservationCorrect, PTL

\* The key never signs one nonce for two independent whitelistings.
THEOREM NoNonceReuseCorrect == Spec => []NoNonceReuse
<1>1. TypeOK /\ ReservationInv => NoNonceReuse
  <2> SUFFICES ASSUME TypeOK, ReservationInv, NEW x \in signatures, NEW y \in signatures,
                      Class[x.id] = "independent", Class[y.id] = "independent",
                      x.nonce = y.nonce
               PROVE  x.id = y.id
    BY DEF NoNonceReuse
  <2>1. x.id \in Requests /\ y.id \in Requests
    BY DEF TypeOK, Payload
  <2>2. x.nonce = reservation[x.id] /\ x.nonce # None /\ y.nonce = reservation[y.id]
    BY DEF ReservationInv, AttestedKey, Attested, Due
  <2> QED
    BY <2>1, <2>2 DEF ReservationInv, ReservationTable
<1> QED
  BY <1>1, TypeCorrect, ReservationCorrect, PTL

\* What grunt-api holds from this guardian was signed, carries the nonce due, and is the
\* payload whose hash grunt-api gave.
THEOREM AcceptedAsAnnouncedCorrect == Spec => []AcceptedAsAnnounced
<1>1. ReservationInv => AcceptedAsAnnounced
  BY DEF ReservationInv, AttestedKey, CallsUnderWay, AcceptedAsAnnounced
<1> QED
  BY <1>1, ReservationCorrect, PTL

-----------------------------------------------------------------------------
(* Spent nonces.                                                           *)

\* What one replica has in hand for spent nonces after a step, it had before.
TakesUpNoneOf(p) ==
  \A r \in Requests : \A n \in consumed :
    Class[r] = "independent" /\ InHand(p, r, n)' => InHand(p, r, n)

\* A replica whose row, window, body and late tasks stay as they are takes up nothing.
LEMMA IdleHand ==
  ASSUME NEW p \in Replicas,
         pc'[p] = pc[p], items'[p] = items[p], candidates'[p] = candidates[p],
         nonce'[p] = nonce[p], late'[p] \subseteq late[p]
  PROVE  TakesUpNoneOf(p)
BY DEF TakesUpNoneOf, InHand, Cur

\* Nor does one that is at no row after the step.
LEMMA EmptyHand ==
  ASSUME NEW p \in Replicas,
         pc'[p] \in {"idle", "fetch", "items", "candidates", "down"}, late'[p] \subseteq late[p]
  PROVE  TakesUpNoneOf(p)
BY DEF TakesUpNoneOf, InHand

\* Nor does one that keeps its row and its window and gets a nonce of the window, or none,
\* into its body.
LEMMA SameWindow ==
  ASSUME NEW p \in Replicas,
         pc[p] \in {"reserve", "sign", "submit"}, items'[p] = items[p],
         candidates'[p] = candidates[p], nonce'[p] = nonce[p] \/ nonce'[p] \in candidates[p],
         late'[p] \subseteq late[p]
  PROVE  TakesUpNoneOf(p)
BY DEF TakesUpNoneOf, InHand, Cur

\* Every step of a replica takes up no nonce that is spent: the window it reads has none,
\* a reservation outside the window it read ends the row, and a task given up is that of
\* the body in hand.
LEMMA HandStep ==
  ASSUME TypeOK, NEW p \in Replicas, Poll(p) \/ LateSignature(p) \/ Crash(p) \/ Restart(p)
  PROVE  TakesUpNoneOf(p)
<1> USE DEF apiVars, loopVars, rowVars, processVars, keyVars
<1>1. CASE StartCycle(p) \/ FetchPage(p) \/ FetchFails(p) \/ NextPage(p) \/ NextFilter(p)
           \/ CycleDone(p)
  BY <1>1, EmptyHand
  DEF StartCycle, FetchPage, FetchFails, NextPage, NextFilter, CycleDone, Advance, EndCycle, TypeOK
<1>2. CASE SkipRow(p) \/ RejectRow(p) \/ NoCandidates(p) \/ CandidatesFail(p) \/ ReserveFails(p)
           \/ SignFails(p) \/ SubmitReturns(p) \/ SubmitFails(p)
  BY <1>2, EmptyHand
  DEF SkipRow, RejectRow, NoCandidates, CandidatesFail, ReserveFails, SignFails, SubmitReturns,
      SubmitFails, FinishRow, TypeOK
<1>3. CASE BeginRow(p)
  <2>1. CASE Class[Cur(p)] = "independent"
    BY <1>3, <2>1, EmptyHand DEF BeginRow, Advance, TypeOK
  <2>2. CASE Class[Cur(p)] = "legacy"
    BY <1>3, <2>2 DEF BeginRow, TakesUpNoneOf, InHand, Cur
  <2> QED
    BY <1>3, <2>1, <2>2 DEF BeginRow
<1>4. CASE ReadCandidates(p)
  <2>1. /\ candidates'[p] = Nonces \ consumed /\ late'[p] = late[p]
        /\ nonce'[p] = None /\ consumed \subseteq Nonces
    BY <1>4 DEF ReadCandidates, Advance, Available, TypeOK
  <2> QED
    BY <2>1, NoneAssumption DEF TakesUpNoneOf, InHand
<1>5. CASE ReserveReturns(p)
  <2>1. /\ pc[p] = "reserve" /\ late'[p] = late[p]
        /\ \/ /\ nonce'[p] \in candidates[p] /\ items'[p] = items[p]
              /\ candidates'[p] = candidates[p]
           \/ pc'[p] = "items"
    BY <1>5 DEF ReserveReturns, BodyNonce, InWindow, FinishRow, TypeOK
  <2> QED
    BY <2>1, SameWindow, EmptyHand
<1>6. CASE SignReturns(p)
  <2>1. /\ pc[p] = "sign" /\ late'[p] = late[p]
        /\ \/ UNCHANGED <<items, candidates, nonce>>
           \/ pc'[p] = "items"
    BY <1>6 DEF SignReturns, FinishRow, TypeOK
  <2> QED
    BY <2>1, SameWindow, EmptyHand
<1>7. CASE SignTimesOut(p)
  <2>1. /\ pc[p] = "sign" /\ pc'[p] = "items"
        /\ late'[p] = late[p] \cup {[id |-> Cur(p), nonce |-> nonce[p]]}
    BY <1>7 DEF SignTimesOut, BodyPayload, FinishRow, TypeOK
  <2> QED
    BY <2>1 DEF TakesUpNoneOf, InHand
<1>8. CASE LateSignature(p)
  BY <1>8, IdleHand DEF LateSignature, TypeOK
<1>9. CASE Crash(p) \/ Restart(p)
  BY <1>9, EmptyHand DEF Crash, Restart, Advance, TypeOK
<1> QED
  BY <1>1, <1>2, <1>3, <1>4, <1>5, <1>6, <1>7, <1>8, <1>9 DEF Poll

\* A step of one replica moves no other replica.
LEMMA OtherHands ==
  ASSUME TypeOK, NEW p \in Replicas, Poll(p) \/ LateSignature(p) \/ Crash(p) \/ Restart(p),
         NEW q \in Replicas \ {p}
  PROVE  /\ pc'[q] = pc[q] /\ items'[q] = items[q] /\ candidates'[q] = candidates[q]
         /\ nonce'[q] = nonce[q] /\ late'[q] \subseteq late[q]
<1> USE DEF apiVars, loopVars, rowVars, processVars, keyVars
<1>1. CASE StartCycle(p) \/ FetchPage(p) \/ FetchFails(p) \/ NextPage(p) \/ NextFilter(p)
           \/ CycleDone(p) \/ BeginRow(p) \/ ReadCandidates(p)
  BY <1>1
  DEF StartCycle, FetchPage, FetchFails, NextPage, NextFilter, CycleDone, BeginRow, ReadCandidates,
      Advance, EndCycle, TypeOK
<1>2. CASE SkipRow(p) \/ RejectRow(p) \/ NoCandidates(p) \/ CandidatesFail(p) \/ ReserveFails(p)
           \/ SignFails(p) \/ SubmitReturns(p) \/ SubmitFails(p)
  BY <1>2
  DEF SkipRow, RejectRow, NoCandidates, CandidatesFail, ReserveFails, SignFails, SubmitReturns,
      SubmitFails, FinishRow, TypeOK
<1>3. CASE ReserveReturns(p) \/ SignReturns(p) \/ SignTimesOut(p)
  BY <1>3 DEF ReserveReturns, SignReturns, SignTimesOut, FinishRow, TypeOK
<1>4. CASE LateSignature(p) \/ Crash(p) \/ Restart(p)
  BY <1>4 DEF LateSignature, Crash, Restart, Advance, TypeOK
<1> QED
  BY <1>1, <1>2, <1>3, <1>4 DEF Poll

\* Once a nonce is spent on chain no replica takes it up again for the request it is
\* reserved for, for any number of replicas, retries, crashes and legacy whitelistings that
\* spend nonces of the window: the check of index.ts after the reservation is what it takes.
THEOREM SpentNonceIsNotTakenUpCorrect == Spec => SpentNonceIsNotTakenUp
<1>1. ASSUME TypeOK, [Next]_vars PROVE \A q \in Replicas : TakesUpNoneOf(q)
  <2> SUFFICES ASSUME NEW q \in Replicas PROVE TakesUpNoneOf(q)
    OBVIOUS
  <2>1. ASSUME NEW p \in Replicas, Poll(p) \/ LateSignature(p) \/ Crash(p) \/ Restart(p)
        PROVE  TakesUpNoneOf(q)
    <3>1. CASE q = p
      BY <1>1, <2>1, <3>1, HandStep
    <3>2. CASE q # p
      BY <1>1, <2>1, <3>2, OtherHands, IdleHand
    <3> QED
      BY <3>1, <3>2
  <2>2. CASE UNCHANGED replicaVars
    BY <2>2, IdleHand DEF replicaVars, loopVars, rowVars, processVars
  <2>3. (\E p \in Replicas : Poll(p) \/ LateSignature(p) \/ Crash(p) \/ Restart(p))
        \/ UNCHANGED replicaVars
    BY <1>1 DEF Next, vars, replicaVars, Announce, Close, Execute, StrayNonceArrives,
                StraySubmitArrives
  <2> QED
    BY <2>1, <2>2, <2>3
<1>2. (\A q \in Replicas : TakesUpNoneOf(q)) =>
        \A p \in Replicas, r \in Requests : \A n \in consumed :
          Class[r] = "independent" /\ InHand(p, r, n)' => InHand(p, r, n)
  BY DEF TakesUpNoneOf
<1> QED
  BY <1>1, <1>2, TypeCorrect, PTL DEF Spec, SpentNonceIsNotTakenUp

-----------------------------------------------------------------------------
(* The heartbeat's counters and the bound on sign deadlines.               *)

\* What LoopInv says of one replica.
LoopAt(p) ==
  /\ AddsUp(p)
  /\ \A r \in Requests : timeouts[p][r] <= GiveUpAfter
  /\ pc[p] \in {"idle", "fetch", "down"} => items[p] = <<>>
  /\ pc[p] \in {"candidates", "reserve", "sign", "submit"} => ~GivenUp(p, Cur(p))

\* The invariant of the loop speaks of each replica on its own.
LEMMA LoopInvByReplica == LoopInv <=> \A p \in Replicas : LoopAt(p)
BY DEF LoopInv, LoopAt, StatsAddUp, TimeoutsBounded

\* A step of one replica is a step of its own counters, rows and deadlines only.
LEMMA LoopStepOfOne ==
  ASSUME NEW p \in Replicas, LoopInv, LoopAt(p)',
         \A q \in Replicas \ {p} : /\ pc'[q] = pc[q] /\ items'[q] = items[q]
                                   /\ stats'[q] = stats[q] /\ timeouts'[q] = timeouts[q]
  PROVE  LoopInv'
<1>1. \A q \in Replicas \ {p} : LoopAt(q)'
  BY LoopInvByReplica DEF LoopAt, AddsUp, GivenUp, Cur
<1> QED
  BY <1>1 DEF LoopInv, LoopAt, StatsAddUp, TimeoutsBounded

\* A row finished is counted once and taken off the page.
LEMMA LoopFinishRow ==
  ASSUME TypeOK, LoopInv, NEW p \in Replicas, items[p] # <<>>,
         NEW c \in {"signed", "skipped", "failed"}, FinishRow(p, c),
         \A r \in Requests : timeouts'[p][r] <= GiveUpAfter,
         \A q \in Replicas \ {p} : timeouts'[q] = timeouts[q]
  PROVE  LoopInv'
<1>1. stats[p] \in Counters /\ AddsUp(p) /\ Len(items[p]) \in Nat
  BY LenProperties DEF TypeOK, LoopInv, StatsAddUp
<1>2. stats'[p] = [stats[p] EXCEPT ![c] = @ + 1] /\ items'[p] = Tail(items[p]) /\ pc'[p] = "items"
  BY DEF FinishRow, TypeOK
<1>3. Len(Tail(items[p])) = Len(items[p]) - 1
  BY CurType
<1>4. /\ stats[p].fetched \in Nat /\ stats[p].signed \in Nat
      /\ stats[p].skipped \in Nat /\ stats[p].failed \in Nat
  BY <1>1 DEF Counters
<1>5. /\ stats'[p].fetched = stats[p].fetched
      /\ stats'[p].signed + stats'[p].skipped + stats'[p].failed
           = stats[p].signed + stats[p].skipped + stats[p].failed + 1
      /\ stats'[p].signed \in Nat /\ stats'[p].skipped \in Nat /\ stats'[p].failed \in Nat
  <2>1. CASE c = "signed"
    BY <1>1, <1>2, <1>4, <2>1 DEF Counters
  <2>2. CASE c = "skipped"
    BY <1>1, <1>2, <1>4, <2>2 DEF Counters
  <2>3. CASE c = "failed"
    BY <1>1, <1>2, <1>4, <2>3 DEF Counters
  <2> QED BY <2>1, <2>2, <2>3
<1>6. AddsUp(p)'
  <2>1. Len(items'[p]) = Len(items[p]) - 1
    BY <1>2, <1>3
  <2>2. stats'[p].fetched
          = stats[p].signed + stats[p].skipped + stats[p].failed + Len(items[p])
    BY <1>1, <1>5 DEF AddsUp
  <2> DEFINE before == stats[p].signed + stats[p].skipped + stats[p].failed
             after  == stats'[p].signed + stats'[p].skipped + stats'[p].failed
             rows   == Len(items[p])
  <2>3. before \in Nat /\ after = before + 1 /\ rows \in Nat /\ Len(items'[p]) = rows - 1
    <3>1. before \in Nat
      <4>1. \A x, y, z \in Nat : x + y + z \in Nat
        OBVIOUS
      <4> QED BY ONLY <1>4, <4>1 DEF before
    <3>2. after = before + 1
      BY <1>5
    <3>3. rows \in Nat
      BY <1>1
    <3>4. Len(items'[p]) = rows - 1
      BY <2>1
    <3> QED
      BY <3>1, <3>2, <3>3, <3>4
  <2> HIDE DEF before, after, rows
  <2>4. before + rows = after + (rows - 1)
    BY <2>3
  <2>5. stats'[p].fetched = after + Len(items'[p])
    BY <2>2, <2>3, <2>4 DEF before, rows
  <2> QED
    BY <2>5 DEF AddsUp, after
<1>7. LoopAt(p)'
  BY <1>2, <1>6 DEF LoopAt
<1> QED
  BY <1>7, LoopStepOfOne DEF FinishRow, TypeOK

\* A cycle that ends begins the next one with nothing counted and no row.
LEMMA LoopEndCycle ==
  ASSUME TypeOK, LoopInv, NEW p \in Replicas,
         pc'[p] \in {"idle", "down"}, items'[p] = <<>>, stats'[p] = ZeroStats,
         \A r \in Requests : timeouts'[p][r] <= GiveUpAfter,
         \A q \in Replicas \ {p} : /\ pc'[q] = pc[q] /\ items'[q] = items[q]
                                   /\ stats'[q] = stats[q] /\ timeouts'[q] = timeouts[q]
  PROVE  LoopInv'
<1>1. LoopAt(p)'
  BY DEF LoopAt, AddsUp, ZeroStats
<1> QED
  BY <1>1, LoopStepOfOne

\* At the start nothing is fetched and nothing has timed out.
LEMMA LoopInit == Init => LoopInv
<1> SUFFICES ASSUME Init PROVE LoopInv
  OBVIOUS
<1>1. \A p \in Replicas : AddsUp(p)
  BY DEF Init, AddsUp, ZeroStats
<1> QED
  BY <1>1, NumbersAssumption DEF Init, LoopInv, StatsAddUp, TimeoutsBounded

\* Every step keeps the counters and the bound.
LEMMA LoopStep == TypeOK /\ LoopInv /\ [Next]_vars => LoopInv'
<1> SUFFICES ASSUME TypeOK, LoopInv, [Next]_vars PROVE LoopInv'
  OBVIOUS
<1> USE DEF apiVars, loopVars, rowVars, processVars, keyVars, replicaVars
<1>0. \A p \in Replicas : LoopAt(p) /\ \A r \in Requests : timeouts[p][r] <= GiveUpAfter
  BY LoopInvByReplica DEF LoopAt
<1>1. ASSUME NEW p \in Replicas, StartCycle(p) PROVE LoopInv'
  <2>1. LoopAt(p)'
    BY <1>0, <1>1 DEF StartCycle, Advance, LoopAt, AddsUp, GivenUp, Cur, TypeOK
  <2> QED
    BY <1>1, <2>1, LoopStepOfOne DEF StartCycle, Advance, TypeOK
<1>2. ASSUME NEW p \in Replicas, FetchPage(p) PROVE LoopInv'
  <2> DEFINE rows == PageRows(filter[p], page[p])
  <2>1. Len(rows) \in Nat
    BY PageRowsType, LenProperties DEF TypeOK
  <2>2. items'[p] = rows /\ pc'[p] = "items" /\ pc[p] = "fetch"
        /\ stats'[p] = [stats[p] EXCEPT !.fetched = @ + Len(rows)]
    BY <1>2 DEF FetchPage, Advance, TypeOK
  <2>3. stats[p] \in Counters /\ items[p] = <<>> /\ AddsUp(p)
    BY <1>0, <2>2 DEF TypeOK, LoopAt
  <2> HIDE DEF rows
  <2>4. AddsUp(p)'
    BY <2>1, <2>2, <2>3 DEF AddsUp, Counters
  <2>5. LoopAt(p)'
    BY <1>0, <1>2, <2>2, <2>4 DEF FetchPage, LoopAt
  <2> QED
    BY <1>2, <2>5, LoopStepOfOne DEF FetchPage, Advance, TypeOK
<1>3. ASSUME NEW p \in Replicas, FetchFails(p) PROVE LoopInv'
  BY <1>0, <1>3, LoopEndCycle DEF FetchFails, EndCycle, TypeOK
<1>4. ASSUME NEW p \in Replicas, NextPage(p) PROVE LoopInv'
  <2>1. LoopAt(p)'
    BY <1>0, <1>4 DEF NextPage, LoopAt, AddsUp, GivenUp, Cur, TypeOK
  <2> QED
    BY <1>4, <2>1, LoopStepOfOne DEF NextPage, TypeOK
<1>5. ASSUME NEW p \in Replicas, NextFilter(p) PROVE LoopInv'
  <2>1. LoopAt(p)'
    BY <1>0, <1>5 DEF NextFilter, LoopAt, AddsUp, GivenUp, Cur, TypeOK
  <2> QED
    BY <1>5, <2>1, LoopStepOfOne DEF NextFilter, TypeOK
<1>6. ASSUME NEW p \in Replicas, CycleDone(p) PROVE LoopInv'
  BY <1>0, <1>6, LoopEndCycle DEF CycleDone, EndCycle, TypeOK
<1>7. ASSUME NEW p \in Replicas, SkipRow(p) PROVE LoopInv'
  <2>1. items[p] # <<>> /\ FinishRow(p, "skipped") /\ UNCHANGED timeouts
    BY <1>7 DEF SkipRow, AtRow, TypeOK
  <2> QED
    BY <1>0, <2>1, LoopFinishRow
<1>8. ASSUME NEW p \in Replicas, RejectRow(p) PROVE LoopInv'
  <2>1. items[p] # <<>> /\ FinishRow(p, "failed") /\ UNCHANGED timeouts
    BY <1>8 DEF RejectRow, AtRow, TypeOK
  <2> QED
    BY <1>0, <2>1, LoopFinishRow
<1>9. ASSUME NEW p \in Replicas, BeginRow(p) PROVE LoopInv'
  <2>1. LoopAt(p)'
    BY <1>0, <1>9 DEF BeginRow, AtRow, Advance, PassedOver, LoopAt, AddsUp, GivenUp, Cur, TypeOK
  <2> QED
    BY <1>9, <2>1, LoopStepOfOne DEF BeginRow, AtRow, Advance, PassedOver, TypeOK
<1>10. ASSUME NEW p \in Replicas, ReadCandidates(p) PROVE LoopInv'
  <2>1. LoopAt(p)'
    BY <1>0, <1>10 DEF ReadCandidates, Advance, LoopAt, AddsUp, GivenUp, Cur, TypeOK
  <2> QED
    BY <1>10, <2>1, LoopStepOfOne DEF ReadCandidates, Advance, TypeOK
<1>11. ASSUME NEW p \in Replicas, NoCandidates(p) PROVE LoopInv'
  <2>1. items[p] # <<>> /\ FinishRow(p, "skipped") /\ UNCHANGED timeouts
    BY <1>11 DEF NoCandidates, TypeOK
  <2> QED
    BY <1>0, <2>1, LoopFinishRow
<1>12. ASSUME NEW p \in Replicas, CandidatesFail(p) PROVE LoopInv'
  <2>1. items[p] # <<>> /\ FinishRow(p, "failed") /\ UNCHANGED timeouts
    BY <1>12 DEF CandidatesFail, TypeOK
  <2> QED
    BY <1>0, <2>1, LoopFinishRow
<1>13. ASSUME NEW p \in Replicas, ReserveReturns(p) PROVE LoopInv'
  <2>1. items[p] # <<>> /\ pc[p] = "reserve" /\ UNCHANGED timeouts
    BY <1>13 DEF ReserveReturns, TypeOK
  <2>2. CASE pc' = [pc EXCEPT ![p] = "sign"] /\ UNCHANGED <<loopVars, candidates, stats>>
    <3>1. LoopAt(p)'
      BY <1>0, <2>1, <2>2 DEF LoopAt, AddsUp, GivenUp, Cur, TypeOK
    <3> QED
      BY <2>1, <2>2, <3>1, LoopStepOfOne DEF TypeOK
  <2>3. CASE FinishRow(p, "failed")
    BY <1>0, <2>1, <2>3, LoopFinishRow
  <2> QED
    BY <1>13, <2>2, <2>3 DEF ReserveReturns
<1>14. ASSUME NEW p \in Replicas, ReserveFails(p) PROVE LoopInv'
  <2>1. items[p] # <<>> /\ FinishRow(p, "failed") /\ UNCHANGED timeouts
    BY <1>14 DEF ReserveFails, TypeOK
  <2> QED
    BY <1>0, <2>1, LoopFinishRow
<1>15. ASSUME NEW p \in Replicas, SignReturns(p) PROVE LoopInv'
  <2>1. items[p] # <<>> /\ pc[p] = "sign" /\ UNCHANGED timeouts
    BY <1>15 DEF SignReturns, TypeOK
  <2>2. CASE pc' = [pc EXCEPT ![p] = "submit"] /\ UNCHANGED <<loopVars, rowVars, stats>>
    <3>1. LoopAt(p)'
      BY <1>0, <2>1, <2>2 DEF LoopAt, AddsUp, GivenUp, Cur, TypeOK
    <3> QED
      BY <2>1, <2>2, <3>1, LoopStepOfOne DEF TypeOK
  <2>3. CASE FinishRow(p, "failed")
    BY <1>0, <2>1, <2>3, LoopFinishRow
  <2> QED
    BY <1>15, <2>2, <2>3 DEF SignReturns
<1>16. ASSUME NEW p \in Replicas, SignFails(p) PROVE LoopInv'
  <2>1. items[p] # <<>> /\ FinishRow(p, "failed") /\ UNCHANGED timeouts
    BY <1>16 DEF SignFails, TypeOK
  <2> QED
    BY <1>0, <2>1, LoopFinishRow
<1>17. ASSUME NEW p \in Replicas, SignTimesOut(p) PROVE LoopInv'
  <2>1. pc[p] = "sign" /\ items[p] # <<>> /\ FinishRow(p, "failed")
    BY <1>17 DEF SignTimesOut, TypeOK
  <2>2. timeouts' = [timeouts EXCEPT ![p][Cur(p)] = timeouts[p][Cur(p)] + 1]
    BY <1>17 DEF SignTimesOut
  <2>3. Cur(p) \in Requests /\ timeouts[p][Cur(p)] \in Nat /\ timeouts[p][Cur(p)] < GiveUpAfter
    BY <1>0, <2>1, CurType, NumbersAssumption DEF TypeOK, LoopAt, GivenUp
  <2>4. \A r \in Requests : timeouts'[p][r] <= GiveUpAfter
    BY <1>0, <2>2, <2>3, NumbersAssumption DEF TypeOK
  <2>5. \A q \in Replicas \ {p} : timeouts'[q] = timeouts[q]
    BY <2>2 DEF TypeOK
  <2> QED
    BY <2>1, <2>4, <2>5, LoopFinishRow
<1>18. ASSUME NEW p \in Replicas, SubmitReturns(p) PROVE LoopInv'
  <2>1. items[p] # <<>> /\ FinishRow(p, "signed") /\ UNCHANGED timeouts
    BY <1>18 DEF SubmitReturns, TypeOK
  <2> QED
    BY <1>0, <2>1, LoopFinishRow
<1>19. ASSUME NEW p \in Replicas, SubmitFails(p) PROVE LoopInv'
  <2>1. items[p] # <<>> /\ FinishRow(p, "failed") /\ UNCHANGED timeouts
    BY <1>19 DEF SubmitFails, TypeOK
  <2> QED
    BY <1>0, <2>1, LoopFinishRow
<1>20. ASSUME NEW p \in Replicas, LateSignature(p) PROVE LoopInv'
  <2>1. \A q \in Replicas : LoopAt(q)'
    BY <1>0, <1>20 DEF LateSignature, LoopAt, AddsUp, GivenUp, Cur
  <2> QED
    BY <2>1 DEF LoopInv, LoopAt, StatsAddUp, TimeoutsBounded
<1>21. ASSUME NEW p \in Replicas, Crash(p) PROVE LoopInv'
  <2>1. \A r \in Requests : timeouts'[p][r] <= GiveUpAfter
    BY <1>21, NumbersAssumption DEF Crash, TypeOK
  <2> QED
    BY <1>21, <2>1, LoopEndCycle DEF Crash, TypeOK
<1>22. ASSUME NEW p \in Replicas, Restart(p) PROVE LoopInv'
  <2>1. LoopAt(p)'
    BY <1>0, <1>22 DEF Restart, Advance, LoopAt, AddsUp, GivenUp, Cur, TypeOK
  <2> QED
    BY <1>22, <2>1, LoopStepOfOne DEF Restart, Advance, TypeOK
<1>23. ASSUME UNCHANGED replicaVars PROVE LoopInv'
  <2>1. \A q \in Replicas : LoopAt(q)'
    BY <1>0, <1>23 DEF LoopAt, AddsUp, GivenUp, Cur
  <2> QED
    BY <2>1 DEF LoopInv, LoopAt, StatsAddUp, TimeoutsBounded
<1> QED
  BY <1>1, <1>2, <1>3, <1>4, <1>5, <1>6, <1>7, <1>8, <1>9, <1>10, <1>11, <1>12, <1>13,
     <1>14, <1>15, <1>16, <1>17, <1>18, <1>19, <1>20, <1>21, <1>22, <1>23
  DEF Next, Poll, vars, Announce, Close, Execute, StrayNonceArrives, StraySubmitArrives

\* The counters add up and no request costs more than its sign budgets, in every
\* reachable state.
THEOREM LoopCorrect == Spec => []LoopInv
BY TypeCorrect, LoopInit, LoopStep, PTL DEF Spec

\* Every row fetched is counted exactly once, or still on the page in hand.
THEOREM StatsAddUpCorrect == Spec => []StatsAddUp
<1>1. LoopInv => StatsAddUp
  BY DEF LoopInv
<1> QED
  BY <1>1, LoopCorrect, PTL

\* A request costs one life of a process at most GiveUpAfter sign budgets.
THEOREM TimeoutsBoundedCorrect == Spec => []TimeoutsBounded
<1>1. LoopInv => TimeoutsBounded
  BY DEF LoopInv
<1> QED
  BY <1>1, LoopCorrect, PTL
=============================================================================
