------------------------- MODULE RateLimiterProofs --------------------------
(***************************************************************************)
(* Proofs about RateLimiter: for any number of calls, any limit, window    *)
(* and backlog, the queue keeps the budget of every window and amounts to  *)
(* FixedWindow.                                                            *)
(***************************************************************************)
EXTENDS RateLimiter, TLAPS

-----------------------------------------------------------------------------
(* The inductive invariant.                                                *)

Pending == {"queued", "reading", "writing"}

\* The chain holds each unsettled task once, and nothing else.
QueueInv ==
  /\ \A i, j \in 1..Len(queue) : queue[i] = queue[j] => i = j
  /\ \A c \in Calls : step[c] \in Pending <=> \E i \in 1..Len(queue) : queue[i] = c

\* An unsettled call was not counted, and its caller knows only of the deadline.
CallerInv ==
  \A c \in Calls :
    /\ step[c] \in {"new"} \cup Pending => \A x \in counted : x.by # c
    /\ step[c] = "new" => answer[c] = "none" /\ c \notin aborted
    /\ step[c] \in Pending => answer[c] = IF c \in aborted THEN "unavailable" ELSE "none"

\* The store is at the last window's last count; a state being written is still the
\* one that follows it.
StoreInv ==
  /\ \A x \in counted :
       /\ x.count \in 1..Limit
       /\ x.reset <= store.reset
       /\ x.reset = store.reset => x.count <= store.count
       /\ x.reset < store.reset => x.reset + Width <= store.reset
  /\ \A c \in Calls : step[c] = "writing" =>
       ~Exhausted(store, asOf[c]) /\ toWrite[c] = Counting(store, asOf[c])

IInv == TypeOK /\ QueueInv /\ CallerInv /\ StoreInv /\ WithinBudget /\ WindowsApart

\* A call at the store takes the second of its turn for the present, and that second
\* no longer moves once the call is counted.
ClockInv ==
  /\ \A c \in Calls : step[c] \in {"reading", "writing"} => asOf[c] = since[c]
  /\ CountedWhileOpen

-----------------------------------------------------------------------------
(* Lemmas.                                                                 *)

\* At most one call is at the store, the one at the head of the chain.
LEMMA OneAtTheStore ==
  ASSUME IInv, NEW c \in Calls, step[c] \in {"reading", "writing"}
  PROVE  /\ Running(c)
         /\ \A d \in Calls : step[d] \in {"reading", "writing"} => d = c
BY DEF IInv, TypeOK, Running

\* A call that joins a chain with room is its last, and the head stays.
LEMMA JoinKeepsQueue ==
  ASSUME IInv, NEW c \in Calls, step[c] = "new",
         queue' = Append(queue, c), step' = [step EXCEPT ![c] = "queued"]
  PROVE  /\ queue' \in Seq(Calls) /\ QueueInv'
         /\ queue # <<>> => queue' # <<>> /\ Head(queue') = Head(queue)
<1>. DEFINE n == Len(queue)
<1>1. queue \in Seq(Calls) /\ n \in Nat /\ step \in [Calls -> Steps]
  BY DEF IInv, TypeOK
<1>2. /\ queue' \in Seq(Calls) /\ Len(queue') = n + 1 /\ queue'[n + 1] = c
      /\ \A i \in 1..n : queue'[i] = queue[i]
  BY <1>1
<1>3. \A i \in 1..n : queue[i] # c
  BY <1>1 DEF IInv, QueueInv, Pending
<1>4. \A i, j \in 1..Len(queue') : queue'[i] = queue'[j] => i = j
  BY <1>1, <1>2, <1>3 DEF IInv, QueueInv
<1>5. \A d \in Calls : step'[d] \in Pending <=> \E i \in 1..Len(queue') : queue'[i] = d
  <2>. SUFFICES ASSUME NEW d \in Calls
                PROVE  step'[d] \in Pending <=> \E i \in 1..Len(queue') : queue'[i] = d
    OBVIOUS
  <2>1. CASE d = c
    BY <1>1, <1>2, <2>1 DEF Pending
  <2>2. CASE d # c
    <3>1. step'[d] \in Pending <=> \E i \in 1..n : queue[i] = d
      BY <1>1, <2>2 DEF IInv, QueueInv
    <3>. QED
      BY <1>1, <1>2, <2>2, <3>1
  <2>. QED
    BY <2>1, <2>2
<1>. QED
  BY <1>1, <1>2, <1>4, <1>5 DEF QueueInv

\* The head leaves; everyone else stays in the chain, in order.
LEMMA LeaveKeepsQueue ==
  ASSUME IInv, NEW c \in Calls, Running(c), Leave(c)
  PROVE  /\ queue' \in Seq(Calls) /\ QueueInv'
         /\ step' \in [Calls -> Steps] /\ step'[c] = "gone"
         /\ \A d \in Calls : d # c => step'[d] = step[d] /\ step[d] \notin {"reading", "writing"}
<1>. DEFINE n == Len(queue)
<1>1. /\ queue \in Seq(Calls) /\ queue # <<>> /\ n \in Nat \ {0} /\ step \in [Calls -> Steps]
      /\ queue[1] = c
  BY DEF IInv, TypeOK, Running
<1>2. /\ queue' \in Seq(Calls) /\ Len(queue') = n - 1
      /\ \A i \in 1..(n - 1) : queue'[i] = queue[i + 1]
  BY <1>1 DEF Leave
<1>3. /\ step' \in [Calls -> Steps] /\ step'[c] = "gone"
      /\ \A d \in Calls : d # c => step'[d] = step[d]
  BY <1>1 DEF Leave, Steps
<1>4. \A d \in Calls : d # c => step[d] \notin {"reading", "writing"}
  BY <1>1 DEF IInv, TypeOK, Running
<1>5. \A i, j \in 1..Len(queue') : queue'[i] = queue'[j] => i = j
  <2>. SUFFICES ASSUME NEW i \in 1..(n - 1), NEW j \in 1..(n - 1), queue[i + 1] = queue[j + 1]
                PROVE  i = j
    BY <1>1, <1>2
  <2>1. i + 1 \in 1..n /\ j + 1 \in 1..n
    BY <1>1
  <2>. QED
    BY <1>1, <2>1 DEF IInv, QueueInv
<1>6. \A d \in Calls : step'[d] \in Pending <=> \E i \in 1..Len(queue') : queue'[i] = d
  <2>. SUFFICES ASSUME NEW d \in Calls
                PROVE  step'[d] \in Pending <=> \E i \in 1..(n - 1) : queue[i + 1] = d
    BY <1>1, <1>2
  <2>1. CASE d = c
    <3>1. \A i \in 1..(n - 1) : i + 1 \in 1..n /\ 1 \in 1..n /\ i + 1 # 1
      BY <1>1
    <3>2. \A i \in 1..(n - 1) : queue[i + 1] # c
      BY <1>1, <3>1 DEF IInv, QueueInv
    <3>. QED
      BY <1>3, <2>1, <3>2 DEF Pending
  <2>2. CASE d # c
    <3>1. step'[d] \in Pending <=> \E i \in 1..n : queue[i] = d
      BY <1>3, <2>2 DEF IInv, QueueInv
    <3>2. \A i \in 1..n : queue[i] = d => i - 1 \in 1..(n - 1) /\ queue[(i - 1) + 1] = d
      BY <1>1, <2>2
    <3>3. \A i \in 1..(n - 1) : i + 1 \in 1..n
      BY <1>1
    <3>. QED
      BY <3>1, <3>2, <3>3
  <2>. QED
    BY <2>1, <2>2
<1>. QED
  BY <1>2, <1>3, <1>4, <1>5, <1>6 DEF QueueInv

\* A queue that stays keeps its invariant while the same calls are in it.
LEMMA SameQueue ==
  ASSUME QueueInv, UNCHANGED queue,
         \A d \in Calls : step'[d] \in Pending <=> step[d] \in Pending
  PROVE  QueueInv'
BY DEF QueueInv

\* Nothing is counted: the budget is as it was.
LEMMA NothingCounted ==
  ASSUME StoreInv, WithinBudget, WindowsApart, UNCHANGED <<store, counted>>,
         \A d \in Calls : step'[d] = "writing" =>
           step[d] = "writing" /\ asOf'[d] = asOf[d] /\ toWrite'[d] = toWrite[d]
  PROVE  StoreInv' /\ WithinBudget' /\ WindowsApart'
<1>1. WithinBudget' /\ WindowsApart'
  BY DEF WithinBudget, WindowsApart
<1>. QED
  BY <1>1 DEF StoreInv, Exhausted, Counting, Open

\* What is written is the next number of the open window, or the first of one that
\* begins after it.
LEMMA NextNumber ==
  ASSUME IInv, NEW c \in Calls, step[c] = "writing"
  PROVE  /\ toWrite[c] \in State /\ toWrite[c].count \in 1..Limit
         /\ \/ toWrite[c].reset = store.reset /\ toWrite[c].count = store.count + 1
            \/ store.reset + Width <= toWrite[c].reset
<1>1. store \in State /\ asOf[c] \in Nat /\ toWrite[c] \in State
  BY DEF IInv, TypeOK
<1>2. ~Exhausted(store, asOf[c]) /\ toWrite[c] = Counting(store, asOf[c])
  BY DEF IInv, StoreInv
<1>3. CASE Open(store, asOf[c])
  <2>1. toWrite[c].count = store.count + 1 /\ toWrite[c].reset = store.reset
    BY <1>1, <1>2, <1>3 DEF Counting, State
  <2>. QED
    BY <1>1, <1>2, <1>3, <2>1, LimitAssumption DEF Exhausted, State
<1>4. CASE ~Open(store, asOf[c])
  <2>1. toWrite[c].count = 1 /\ toWrite[c].reset = asOf[c] + Width
    BY <1>2, <1>4 DEF Counting
  <2>. QED
    BY <1>1, <1>4, <2>1, LimitAssumption DEF Open, State
<1>. QED
  BY <1>3, <1>4

\* A write that takes effect counts one request within the budget of its window.
LEMMA WriteCounts ==
  ASSUME IInv, NEW c \in Calls, step[c] = "writing", Written(c), Leave(c)
  PROVE  /\ store' \in State /\ counted' \subseteq Counted
         /\ StoreInv' /\ WithinBudget' /\ WindowsApart'
<1>1. /\ toWrite[c] \in State /\ toWrite[c].count \in 1..Limit
      /\ \/ toWrite[c].reset = store.reset /\ toWrite[c].count = store.count + 1
         \/ store.reset + Width <= toWrite[c].reset
  BY NextNumber
<1>2. PICK k \in 1..Limit, r \in Nat :
        toWrite[c].count = k /\ toWrite[c].reset = r
  BY <1>1 DEF State
<1>3. PICK e \in Counted : e = [by |-> c, count |-> k, reset |-> r]
  <2>1. k \in Nat
    BY LimitAssumption
  <2>2. [by |-> c, count |-> k, reset |-> r] \in Counted
    BY <2>1 DEF Counted
  <2>. QED
    BY <2>2
<1>4. /\ e.by = c /\ e.count = k /\ e.reset = r
      /\ counted' = counted \cup {e}
      /\ store' = toWrite[c] /\ store'.count = k /\ store'.reset = r
  BY <1>2, <1>3 DEF Written
<1>5. /\ store \in State /\ store.count \in Nat /\ store.reset \in Nat
      /\ \A x \in counted : x \in Counted /\ x.count \in Nat /\ x.reset \in Nat
  BY DEF IInv, TypeOK, State, Counted
<1>6. /\ Limit \in Nat /\ Width \in Nat \ {0}
      /\ (r = store.reset /\ k = store.count + 1) \/ store.reset + Width <= r
  BY <1>1, <1>2, LimitAssumption
<1>7. \A x \in counted :
        /\ x.count \in 1..Limit
        /\ x.reset <= r
        /\ x.reset = r => x.count < k
        /\ x.reset < r => x.reset + Width <= r
  BY <1>5, <1>6 DEF IInv, StoreInv
<1>8. store' \in State /\ counted' \subseteq Counted
  BY <1>1, <1>4 DEF IInv, TypeOK
<1>9. \A d \in Calls : step'[d] # "writing"
  BY OneAtTheStore, LeaveKeepsQueue
<1>10. StoreInv'
  <2>1. \A x \in counted' :
          /\ x.count \in 1..Limit
          /\ x.reset <= store'.reset
          /\ x.reset = store'.reset => x.count <= store'.count
          /\ x.reset < store'.reset => x.reset + Width <= store'.reset
    BY <1>4, <1>5, <1>6, <1>7
  <2>. QED
    BY <1>9, <2>1 DEF StoreInv
<1>11. WithinBudget'
  <2>1. \A x, y \in counted' : x.reset = y.reset /\ x.count = y.count => x = y
    BY <1>4, <1>5, <1>7 DEF IInv, WithinBudget
  <2>. QED
    BY <1>4, <1>7, <2>1 DEF WithinBudget
<1>12. WindowsApart'
  <2>1. \A x, y \in counted' : x.reset < y.reset => x.reset + Width <= y.reset
    BY <1>4, <1>5, <1>6, <1>7 DEF IInv, WindowsApart
  <2>. QED
    BY <2>1 DEF WindowsApart
<1>. QED
  BY <1>8, <1>10, <1>11, <1>12

-----------------------------------------------------------------------------
(* The invariant.                                                          *)

\* It holds at the start.
LEMMA InvInit == Init => IInv
<1>. SUFFICES ASSUME Init
              PROVE  IInv
  OBVIOUS
<1>1. TypeOK
  BY DEF Init, TypeOK, NoState, State, Steps, Kinds
<1>2. QueueInv /\ CallerInv /\ StoreInv /\ WithinBudget /\ WindowsApart
  BY DEF Init, QueueInv, CallerInv, StoreInv, WithinBudget, WindowsApart, Pending
<1>. QED
  BY <1>1, <1>2 DEF IInv

\* A step of the clock disturbs nothing.
LEMMA TickKeeps == IInv /\ Tick => IInv'
<1>. SUFFICES ASSUME IInv, Tick
              PROVE  IInv'
  OBVIOUS
<1>1. TypeOK'
  BY DEF IInv, TypeOK, Tick, limitVars
<1>2. QueueInv' /\ CallerInv'
  BY DEF IInv, Tick, limitVars, QueueInv, CallerInv
<1>3. StoreInv' /\ WithinBudget' /\ WindowsApart'
  BY NothingCounted DEF IInv, Tick, limitVars
<1>. QED
  BY <1>1, <1>2, <1>3 DEF IInv

\* A call joins the chain or is turned away.
LEMMA CallKeeps ==
  ASSUME IInv, NEW c \in Calls, Call(c) \/ CallRefused(c)
  PROVE  IInv'
<1>1. CASE Call(c)
  <2>1. /\ queue' \in Seq(Calls) /\ QueueInv'
        /\ queue # <<>> => queue' # <<>> /\ Head(queue') = Head(queue)
    BY <1>1, JoinKeepsQueue DEF Call
  <2>2. /\ step' \in [Calls -> Steps] /\ step'[c] = "queued" /\ step[c] = "new"
        /\ \A d \in Calls : d # c => step'[d] = step[d]
    BY <1>1 DEF Call, IInv, TypeOK, Steps
  <2>3. TypeOK'
    BY <1>1, <2>1, <2>2 DEF Call, IInv, TypeOK
  <2>4. CallerInv'
    BY <1>1, <2>2 DEF Call, IInv, CallerInv, Pending
  <2>5. StoreInv' /\ WithinBudget' /\ WindowsApart'
    BY <1>1, <2>2, NothingCounted DEF Call, IInv
  <2>. QED
    BY <2>1, <2>3, <2>4, <2>5 DEF IInv
<1>2. CASE CallRefused(c)
  <2>1. /\ step' \in [Calls -> Steps] /\ step'[c] = "gone" /\ step[c] = "new"
        /\ answer' \in [Calls -> Kinds]
        /\ \A d \in Calls : d # c => step'[d] = step[d] /\ answer'[d] = answer[d]
    BY <1>2 DEF CallRefused, IInv, TypeOK, Steps, Kinds
  <2>2. TypeOK'
    BY <1>2, <2>1 DEF CallRefused, IInv, TypeOK
  <2>3. QueueInv'
    BY <1>2, <2>1, SameQueue DEF CallRefused, IInv, Pending
  <2>4. CallerInv'
    BY <1>2, <2>1 DEF CallRefused, IInv, CallerInv, Pending
  <2>5. StoreInv' /\ WithinBudget' /\ WindowsApart'
    BY <1>2, <2>1, NothingCounted DEF CallRefused, IInv
  <2>. QED
    BY <2>2, <2>3, <2>4, <2>5 DEF IInv
<1>. QED
  BY <1>1, <1>2

\* The deadline answers a caller and leaves its task alone.
LEMMA DeadlineKeeps ==
  ASSUME IInv, NEW c \in Calls, Deadline(c)
  PROVE  IInv'
<1>1. /\ answer' \in [Calls -> Kinds] /\ answer'[c] = "unavailable" /\ step[c] \in Pending
      /\ \A d \in Calls : d # c => answer'[d] = answer[d]
      /\ aborted' = aborted \cup {c}
  BY DEF Deadline, IInv, TypeOK, Kinds, Pending
<1>2. TypeOK'
  BY <1>1 DEF Deadline, IInv, TypeOK
<1>3. QueueInv'
  BY SameQueue DEF Deadline, IInv
<1>4. CallerInv'
  BY <1>1 DEF Deadline, IInv, CallerInv, Pending
<1>5. StoreInv' /\ WithinBudget' /\ WindowsApart'
  BY NothingCounted DEF Deadline, IInv
<1>. QED
  BY <1>2, <1>3, <1>4, <1>5 DEF IInv

\* The head of the chain goes on to read, or from reading to writing.
LEMMA TurnKeeps ==
  ASSUME IInv, NEW c \in Calls, TakeTurn(c) \/ ReadAdmits(c)
  PROVE  IInv'
<1>1. PICK s \in {"reading", "writing"} :
        /\ step' = [step EXCEPT ![c] = s]
        /\ s = "reading" => TakeTurn(c)
        /\ s = "writing" => ReadAdmits(c)
  BY DEF TakeTurn, ReadAdmits
<1>2. /\ step' \in [Calls -> Steps] /\ step'[c] = s /\ step[c] \in Pending
      /\ \A d \in Calls : d # c => step'[d] = step[d]
  BY <1>1 DEF TakeTurn, ReadAdmits, IInv, TypeOK, Steps, Pending
<1>3. Running(c) /\ queue \in Seq(Calls)
  BY OneAtTheStore DEF TakeTurn, ReadAdmits, IInv, TypeOK
<1>4. /\ asOf' \in [Calls -> Nat] /\ toWrite' \in [Calls -> State]
      /\ \A d \in Calls : d # c => asOf'[d] = asOf[d] /\ toWrite'[d] = toWrite[d]
  <2>1. Counting(store, asOf[c]) \in State
    <3>1. store \in State /\ asOf[c] + Width \in Nat /\ store.count + 1 \in Nat
      BY LimitAssumption DEF IInv, TypeOK, State
    <3>2. [store EXCEPT !.count = @ + 1] \in State
      BY <3>1 DEF State
    <3>3. [count |-> 1, reset |-> asOf[c] + Width] \in State
      BY <3>1 DEF State
    <3>. QED
      BY <3>2, <3>3 DEF Counting
  <2>. QED
    BY <2>1 DEF TakeTurn, Clock, ReadAdmits, IInv, TypeOK
<1>5. /\ UNCHANGED <<now, store, queue, aborted, answer, counted>>
      /\ since' \in [Calls -> Nat]
  BY DEF TakeTurn, ReadAdmits, IInv, TypeOK
<1>6. TypeOK'
  BY <1>2, <1>3, <1>4, <1>5 DEF IInv, TypeOK, Running
<1>7. QueueInv'
  BY <1>2, <1>5, SameQueue DEF IInv, Pending
<1>8. CallerInv'
  BY <1>2, <1>5 DEF IInv, CallerInv, Pending
<1>9. WithinBudget' /\ WindowsApart'
  BY <1>5 DEF IInv, WithinBudget, WindowsApart
<1>10. StoreInv'
  <2>1. \A d \in Calls : d # c => step'[d] # "writing"
    BY <1>2, <1>3 DEF IInv, TypeOK, Running
  <2>2. s = "writing" => ~Exhausted(store', asOf'[c]) /\ toWrite'[c] = Counting(store', asOf'[c])
    BY <1>1 DEF ReadAdmits, IInv, TypeOK
  <2>. QED
    BY <1>2, <1>5, <2>1, <2>2 DEF IInv, StoreInv
<1>. QED
  BY <1>6, <1>7, <1>8, <1>9, <1>10 DEF IInv

\* The head of the chain settles.
LEMMA SettleKeeps ==
  ASSUME IInv, NEW c \in Calls,
         Drop(c) \/ ReadRefuses(c) \/ WriteReturns(c) \/ StoreFails(c)
  PROVE  IInv'
<1>1. Running(c) /\ Leave(c) /\ UNCHANGED <<now, asOf, toWrite, aborted, since>>
  BY OneAtTheStore DEF Drop, ReadRefuses, WriteReturns, StoreFails
<1>2. /\ queue' \in Seq(Calls) /\ QueueInv'
      /\ step' \in [Calls -> Steps] /\ step'[c] = "gone"
      /\ \A d \in Calls : d # c => step'[d] = step[d] /\ step[d] \notin {"reading", "writing"}
  BY <1>1, LeaveKeepsQueue
<1>3. /\ answer' \in [Calls -> Kinds]
      /\ \A d \in Calls : d # c => answer'[d] = answer[d]
  BY DEF Drop, ReadRefuses, WriteReturns, StoreFails, Tell, IInv, TypeOK, Kinds
<1>4. /\ store' \in State /\ counted' \subseteq Counted
      /\ StoreInv' /\ WithinBudget' /\ WindowsApart'
      /\ \A x \in counted' \ counted : x.by = c
  <2>1. CASE UNCHANGED <<store, counted>>
    BY <1>1, <1>2, <2>1, NothingCounted DEF IInv, TypeOK
  <2>2. CASE step[c] = "writing" /\ Written(c)
    BY <1>1, <2>2, WriteCounts DEF Written
  <2>. QED
    BY <2>1, <2>2 DEF Drop, ReadRefuses, WriteReturns, StoreFails
<1>5. TypeOK'
  BY <1>1, <1>2, <1>3, <1>4 DEF IInv, TypeOK
<1>6. CallerInv'
  BY <1>1, <1>2, <1>3, <1>4 DEF IInv, CallerInv, Pending
<1>. QED
  BY <1>2, <1>4, <1>5, <1>6 DEF IInv

\* Every step keeps the invariant.
LEMMA InvStep == IInv /\ [Next]_vars => IInv'
<1>. SUFFICES ASSUME IInv, [Next]_vars
              PROVE  IInv'
  OBVIOUS
<1>1. CASE Tick
  BY <1>1, TickKeeps
<1>2. CASE \E c \in Calls : Call(c) \/ CallRefused(c) \/ Deadline(c) \/ Task(c)
  BY <1>2, CallKeeps, DeadlineKeeps, TurnKeeps, SettleKeeps DEF Task
<1>3. CASE UNCHANGED vars
  <2>1. TypeOK' /\ QueueInv' /\ CallerInv'
    BY <1>3 DEF vars, limitVars, IInv, TypeOK, QueueInv, CallerInv
  <2>2. StoreInv' /\ WithinBudget' /\ WindowsApart'
    BY <1>3, NothingCounted DEF vars, limitVars, IInv
  <2>. QED
    BY <2>1, <2>2 DEF IInv
<1>. QED
  BY <1>1, <1>2, <1>3 DEF Next

\* The invariant holds throughout.
LEMMA InvHolds == Spec => []IInv
BY InvInit, InvStep, PTL DEF Spec

-----------------------------------------------------------------------------
(* The theorems.                                                           *)

\* Every variable keeps its type, and one task at a time is at the store.
THEOREM TypeCorrect == Spec => []TypeOK
<1>1. IInv => TypeOK
  BY DEF IInv
<1>. QED
  BY <1>1, InvHolds, PTL

\* For any number of calls, failures and deadlines, no window admits more than the
\* limit, and no number is given out twice.
THEOREM WithinBudgetCorrect == Spec => []WithinBudget
<1>1. IInv => WithinBudget
  BY DEF IInv
<1>. QED
  BY <1>1, InvHolds, PTL

\* Windows in which requests were counted begin at least Width seconds apart.
THEOREM WindowsApartCorrect == Spec => []WindowsApart
<1>1. IInv => WindowsApart
  BY DEF IInv
<1>. QED
  BY <1>1, InvHolds, PTL

\* A call counts itself only when its write takes effect, and what it writes closes
\* after the second it took for the present.
LEMMA CountedAhead ==
  ASSUME IInv, ClockInv, NEW c \in Calls, step[c] = "writing", Written(c), UNCHANGED since
  PROVE  CountedWhileOpen'
<1>1. /\ store \in State /\ asOf[c] \in Nat /\ asOf[c] = since[c]
      /\ toWrite[c] = Counting(store, asOf[c])
  BY DEF IInv, TypeOK, StoreInv, ClockInv
<1>2. toWrite[c].reset > since[c]
  BY <1>1, LimitAssumption DEF Counting, Open, State
<1>. QED
  BY <1>2 DEF Written, ClockInv, CountedWhileOpen

\* Every step keeps the clock's invariant.
LEMMA ClockStep == IInv /\ ClockInv /\ [Next]_vars => ClockInv'
<1>. SUFFICES ASSUME IInv, ClockInv, [Next]_vars
              PROVE  ClockInv'
  OBVIOUS
<1>1. CASE Tick \/ UNCHANGED vars
  BY <1>1 DEF Tick, vars, limitVars, ClockInv, CountedWhileOpen
<1>2. ASSUME NEW c \in Calls, Call(c) \/ TakeTurn(c)
      PROVE  ClockInv'
  <2>1. /\ step[c] \in {"new", "queued"} /\ UNCHANGED counted
        /\ \A x \in counted : x.by # c /\ x.by \in Calls
    BY <1>2 DEF Call, TakeTurn, IInv, TypeOK, CallerInv, Pending, Counted
  <2>2. \A d \in Calls : d # c => since'[d] = since[d] /\ asOf'[d] = asOf[d] /\ step'[d] = step[d]
    BY <1>2 DEF Call, TakeTurn, IInv, TypeOK
  <2>3. step'[c] \in {"reading", "writing"} => asOf'[c] = since'[c]
    BY <1>2 DEF Call, TakeTurn, Clock, IInv, TypeOK
  <2>. QED
    BY <2>1, <2>2, <2>3 DEF ClockInv, CountedWhileOpen
<1>3. ASSUME NEW c \in Calls, CallRefused(c) \/ Deadline(c) \/ ReadAdmits(c)
      PROVE  ClockInv'
  <2>1. /\ UNCHANGED <<since, asOf, counted>>
        /\ \A d \in Calls : step'[d] \in {"reading", "writing"} => step[d] \in {"reading", "writing"}
    BY <1>3 DEF CallRefused, Deadline, ReadAdmits, IInv, TypeOK
  <2>. QED
    BY <2>1 DEF ClockInv, CountedWhileOpen
<1>4. ASSUME NEW c \in Calls, Drop(c) \/ ReadRefuses(c) \/ WriteReturns(c) \/ StoreFails(c)
      PROVE  ClockInv'
  <2>1. /\ UNCHANGED <<since, asOf>>
        /\ UNCHANGED counted \/ (step[c] = "writing" /\ Written(c))
        /\ \A d \in Calls : step'[d] \in {"reading", "writing"} => step[d] \in {"reading", "writing"}
    BY <1>4 DEF Drop, ReadRefuses, WriteReturns, StoreFails, Leave, IInv, TypeOK
  <2>2. CountedWhileOpen'
    BY <2>1, CountedAhead DEF ClockInv, CountedWhileOpen
  <2>. QED
    BY <2>1, <2>2 DEF ClockInv
<1>. QED
  BY <1>1, <1>2, <1>3, <1>4 DEF Next, Task

\* However long a call waited in the chain, the window it is counted in was open when
\* its turn came: the clock is read under the lock (in-memory.ts).
THEOREM CountedWhileOpenCorrect == Spec => []CountedWhileOpen
<1>1. Init => ClockInv
  BY DEF Init, ClockInv, CountedWhileOpen
<1>2. ClockInv => CountedWhileOpen
  BY DEF ClockInv
<1>. QED
  BY <1>1, <1>2, InvHolds, ClockStep, PTL DEF Spec

\* Both modules read a window alike.
LEMMA SameWindow ==
  ASSUME NEW c \in Calls
  PROVE  /\ Atomic!Exhausted(store, asOf[c]) <=> Exhausted(store, asOf[c])
         /\ Atomic!Count(store, asOf[c]) = Counting(store, asOf[c])
BY DEF Exhausted, Counting, Open, Atomic!Exhausted, Atomic!Count, Atomic!Open

\* An error is the abstract GiveUp to a caller who waits, and nothing to one who was
\* answered by the deadline.
LEMMA TellUnavailable ==
  ASSUME IInv, NEW c \in Calls, step[c] \in Pending, Tell(c, "unavailable"),
         UNCHANGED <<now, asOf, store, counted>>
  PROVE  Atomic!GiveUp(c) \/ UNCHANGED Atomic!vars
<1>1. CASE c \in aborted
  BY <1>1 DEF Tell, Atomic!vars
<1>2. CASE c \notin aborted
  <2>1. answer[c] = "none"
    BY <1>2 DEF IInv, CallerInv
  <2>. QED
    BY <1>2, <2>1 DEF Tell, Atomic!GiveUp
<1>. QED
  BY <1>1, <1>2

\* A write that takes effect is the abstract Admit, whatever the caller is told.
LEMMA WriteAdmits ==
  ASSUME IInv, NEW c \in Calls, step[c] = "writing", Written(c), UNCHANGED <<now, asOf>>,
         NEW k \in {"allowed", "unavailable"}, Tell(c, k)
  PROVE  Atomic!Admit(c)
<1>1. answer[c] = IF c \in aborted THEN "unavailable" ELSE "none"
  BY DEF IInv, CallerInv, Pending
<1>2. Atomic!Uncounted(c)
  BY DEF IInv, CallerInv, Pending, Atomic!Uncounted
<1>3. ~Atomic!Exhausted(store, asOf[c]) /\ toWrite[c] = Atomic!Count(store, asOf[c])
  BY SameWindow DEF IInv, StoreInv
<1>4. store' = Atomic!Count(store, asOf[c]) /\ counted' = counted \cup {Atomic!Entry(c, store')}
  BY <1>3 DEF Written, Atomic!Entry
<1>5. \/ answer' = [answer EXCEPT ![c] = "unavailable"]
      \/ answer[c] = "none" /\ answer' = [answer EXCEPT ![c] = "allowed"]
  <2>1. answer \in [Calls -> Kinds]
    BY DEF IInv, TypeOK
  <2>2. CASE c \in aborted
    <3>1. answer' = answer /\ answer[c] = "unavailable"
      BY <1>1, <2>2 DEF Tell
    <3>2. [answer EXCEPT ![c] = "unavailable"] = answer
      BY <2>1, <3>1
    <3>. QED
      BY <3>1, <3>2
  <2>3. CASE c \notin aborted
    BY <1>1, <2>3 DEF Tell
  <2>. QED
    BY <2>2, <2>3
<1>. QED
  BY <1>1, <1>2, <1>3, <1>4, <1>5 DEF Atomic!Admit

\* A step of the queue is a step of the atomic limiter, or changes nothing of it.
LEMMA StepImplements == IInv /\ [Next]_vars => [Atomic!Next]_(Atomic!vars)
<1>. SUFFICES ASSUME IInv, [Next]_vars
              PROVE  Atomic!Next \/ UNCHANGED Atomic!vars
  OBVIOUS
<1>1. CASE Tick
  BY <1>1 DEF Tick, limitVars, Atomic!Next, Atomic!Tick
<1>2. CASE UNCHANGED vars
  BY <1>2 DEF vars, limitVars, Atomic!vars
<1>3. ASSUME NEW c \in Calls, Call(c) \/ CallRefused(c) \/ Deadline(c) \/ Task(c)
      PROVE  Atomic!Next \/ UNCHANGED Atomic!vars
  <2>1. CASE Call(c) \/ ReadAdmits(c) \/ Drop(c)
    BY <2>1 DEF Call, ReadAdmits, Drop, Atomic!vars
  <2>2. CASE CallRefused(c) \/ Deadline(c)
    <3>1. answer[c] = "none"
      BY <2>2 DEF CallRefused, Deadline, IInv, CallerInv, Pending
    <3>. QED
      BY <2>2, <3>1 DEF CallRefused, Deadline, Atomic!Next, Atomic!GiveUp
  <2>3. CASE TakeTurn(c)
    <3>1. answer[c] = "none"
      BY <2>3 DEF TakeTurn, Wanted, IInv, CallerInv, Pending
    <3>. QED
      BY <2>3, <3>1 DEF TakeTurn, Clock, Atomic!Next, Atomic!ReadClock
  <2>4. CASE ReadRefuses(c)
    <3>1. Atomic!Exhausted(store, asOf[c])
      BY <2>4, SameWindow DEF ReadRefuses
    <3>2. CASE c \in aborted
      BY <2>4, <3>2 DEF ReadRefuses, Tell, Atomic!vars
    <3>3. CASE c \notin aborted
      <4>1. answer[c] = "none"
        BY <2>4, <3>3 DEF ReadRefuses, IInv, CallerInv, Pending
      <4>. QED
        BY <2>4, <3>1, <3>3, <4>1 DEF ReadRefuses, Tell, Atomic!Next, Atomic!Refuse
    <3>. QED
      BY <3>2, <3>3
  <2>5. CASE WriteReturns(c)
    BY <2>5, WriteAdmits DEF WriteReturns, Atomic!Next
  <2>6. CASE StoreFails(c)
    <3>1. CASE UNCHANGED <<store, counted>>
      BY <2>6, <3>1, TellUnavailable DEF StoreFails, Pending, Atomic!Next
    <3>2. CASE step[c] = "writing" /\ Written(c)
      BY <2>6, <3>2, WriteAdmits DEF StoreFails, Atomic!Next
    <3>. QED
      BY <2>6, <3>1, <3>2 DEF StoreFails
  <2>. QED
    BY <1>3, <2>1, <2>2, <2>3, <2>4, <2>5, <2>6 DEF Task
<1>. QED
  BY <1>1, <1>2, <1>3 DEF Next

\* The queue over single reads and writes implements the bundled store's atomic
\* consume: a request is counted in one step, at the second its caller was served.
THEOREM ImplementsFixedWindowCorrect == Spec => ImplementsFixedWindow
<1>1. Init => Atomic!Init
  BY DEF Init, NoState, Atomic!Init, Atomic!NoWindow
<1>. QED
  BY <1>1, InvHolds, StepImplements, PTL DEF Spec, ImplementsFixedWindow, Atomic!Spec

\* The chain of a key (withKeyLock) holds every call that waits or runs once, and nothing
\* else: a task that failed, was refused or was abandoned holds the lock no longer.
THEOREM ChainCorrect == Spec => []QueueInv
<1>1. IInv => QueueInv
  BY DEF IInv
<1>. QED
  BY <1>1, InvHolds, PTL
=============================================================================
