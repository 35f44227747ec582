----------------------------- MODULE RateLimiter -----------------------------
(***************************************************************************)
(* The read/write fallback of inMemoryRateLimiter                          *)
(* (packages/guardian-defaults, src/rate-limit/in-memory.ts), for one key  *)
(* of one process: calls queue behind each other, the call at the head     *)
(* reads the store and writes it back, and the shell's deadline            *)
(* (lib/deadline.ts) may answer a caller 503 at any moment before.  Keys   *)
(* share nothing.                                                          *)
(*                                                                         *)
(* The store is external.  A read or a write may fail; a write that failed *)
(* has taken effect by then or never does.                                 *)
(***************************************************************************)
EXTENDS Integers, Sequences

CONSTANTS
  Calls,      \* calls of the limiter under one key
  Limit,      \* options.limit
  Width,      \* options.windowSeconds
  MaxPending, \* MAX_PENDING_PER_KEY
  MaxNow      \* bound on the clock

ASSUME LimitAssumption   == Limit \in Nat \ {0} /\ Width \in Nat \ {0}
ASSUME PendingAssumption == MaxPending \in Nat \ {0}
ASSUME ClockAssumption   == MaxNow \in Nat

VARIABLES
  now,       \* the clock, in seconds
  store,     \* the key's entry in the store
  queue,     \* the key's chain of tasks, the running one first
  step,      \* where each call is
  asOf,      \* nowSec
  toWrite,   \* the state a call is writing
  aborted,   \* calls whose signal was aborted by the deadline
  answer,    \* what each caller was told
  counted,   \* history: every request the store counted
  since      \* history: the second a call joined the chain, then that of its turn

limitVars == <<store, queue, step, asOf, toWrite, aborted, answer, counted, since>>
vars == <<now, limitVars>>

-----------------------------------------------------------------------------
State   == [count : Nat, reset : Nat]
Steps   == {"new", "queued", "reading", "writing", "gone"}
Kinds   == {"none", "allowed", "limited", "unavailable"}
Counted == [by : Calls, count : Nat, reset : Nat]

NoState == [count |-> 0, reset |-> 0]

\* The window the state describes is still open at second t.
Open(w, t) == w.reset > t

\* The state to write: one more in the open window, or the first of a new one.
Counting(w, t) == IF Open(w, t) THEN [w EXCEPT !.count = @ + 1] ELSE [count |-> 1, reset |-> t + Width]

\* A faulty Exhausted: one too many.
ExhaustedLate(w, t) == Open(w, t) /\ w.count > Limit

Exhausted(w, t) == Open(w, t) /\ w.count >= Limit

\* A faulty Running: no lock.
RunningAny(c) == \E i \in 1..Len(queue) : queue[i] = c

\* The chain runs one task at a time.
Running(c) == queue # <<>> /\ Head(queue) = c

-----------------------------------------------------------------------------
Init ==
  /\ now = 0 /\ store = NoState /\ queue = <<>>
  /\ step = [c \in Calls |-> "new"]
  /\ asOf = [c \in Calls |-> 0]
  /\ toWrite = [c \in Calls |-> NoState]
  /\ aborted = {} /\ counted = {}
  /\ since = [c \in Calls |-> 0]
  /\ answer = [c \in Calls |-> "none"]

Tick ==
  /\ now < MaxNow /\ now' = now + 1
  /\ UNCHANGED limitVars

\* Told only who still waits: a caller past its deadline has its answer.
Tell(c, kind) == answer' = IF c \in aborted THEN answer ELSE [answer EXCEPT ![c] = kind]

\* The running task settles, one way or the other, and the chain goes on.
Leave(c) ==
  /\ queue' = Tail(queue)
  /\ step' = [step EXCEPT ![c] = "gone"]

Call(c) ==
  /\ step[c] = "new" /\ Len(queue) < MaxPending
  /\ queue' = Append(queue, c)
  /\ step' = [step EXCEPT ![c] = "queued"]
  /\ since' = [since EXCEPT ![c] = now]
  /\ UNCHANGED <<now, store, asOf, toWrite, aborted, answer, counted>>

\* The backlog is full: the caller fails at once.
CallRefused(c) ==
  /\ step[c] = "new" /\ Len(queue) >= MaxPending
  /\ step' = [step EXCEPT ![c] = "gone"]
  /\ answer' = [answer EXCEPT ![c] = "unavailable"]
  /\ UNCHANGED <<now, store, queue, asOf, toWrite, aborted, counted, since>>

\* The shell's deadline: the caller is answered 503 and the signal aborted.
Deadline(c) ==
  /\ step[c] \in {"queued", "reading", "writing"} /\ c \notin aborted
  /\ aborted' = aborted \cup {c}
  /\ answer' = [answer EXCEPT ![c] = "unavailable"]
  /\ UNCHANGED <<now, store, queue, step, asOf, toWrite, counted, since>>

\* A faulty Wanted: the signal is not looked at.
WantedAnyhow(c) == TRUE

\* The signal is looked at once, when the task's turn has come.
Wanted(c) == c \notin aborted

\* A faulty Clock: captured when the call joined the chain.
ClockOfCall(c) == since[c]

\* The second a call takes for the present.
Clock(c) == now

\* The clock is read under the lock, then the store.
TakeTurn(c) ==
  /\ Running(c) /\ step[c] = "queued" /\ Wanted(c)
  /\ step' = [step EXCEPT ![c] = "reading"]
  /\ asOf' = [asOf EXCEPT ![c] = Clock(c)]
  /\ since' = [since EXCEPT ![c] = now]
  /\ UNCHANGED <<now, store, queue, toWrite, aborted, answer, counted>>

Drop(c) ==
  /\ Running(c) /\ step[c] = "queued" /\ ~Wanted(c)
  /\ Leave(c)
  /\ UNCHANGED <<now, store, asOf, toWrite, aborted, answer, counted, since>>

ReadRefuses(c) ==
  /\ step[c] = "reading" /\ Exhausted(store, asOf[c])
  /\ Leave(c) /\ Tell(c, "limited")
  /\ UNCHANGED <<now, store, asOf, toWrite, aborted, counted, since>>

ReadAdmits(c) ==
  /\ step[c] = "reading" /\ ~Exhausted(store, asOf[c])
  /\ step' = [step EXCEPT ![c] = "writing"]
  /\ toWrite' = [toWrite EXCEPT ![c] = Counting(store, asOf[c])]
  /\ UNCHANGED <<now, store, queue, asOf, aborted, answer, counted, since>>

Written(c) ==
  /\ store' = toWrite[c]
  /\ counted' = counted \cup {[by |-> c, count |-> toWrite[c].count, reset |-> toWrite[c].reset]}

WriteReturns(c) ==
  /\ step[c] = "writing"
  /\ Written(c)
  /\ Leave(c) /\ Tell(c, "allowed")
  /\ UNCHANGED <<now, asOf, toWrite, aborted, since>>

\* A faulty StoreFails: the chain goes on only after a task that succeeded.
StoreFailsStuck(c) ==
  /\ step[c] \in {"reading", "writing"}
  /\ step' = [step EXCEPT ![c] = "gone"]
  /\ Tell(c, "unavailable")
  /\ UNCHANGED <<now, store, queue, asOf, toWrite, aborted, counted, since>>

\* The store rejects: a read, or a write that took effect or did not.
StoreFails(c) ==
  /\ \/ step[c] \in {"reading", "writing"} /\ UNCHANGED <<store, counted>>
     \/ step[c] = "writing" /\ Written(c)
  /\ Leave(c) /\ Tell(c, "unavailable")
  /\ UNCHANGED <<now, asOf, toWrite, aborted, since>>

-----------------------------------------------------------------------------
\* The limiter's own task, up to its settling.
Task(c) ==
  TakeTurn(c) \/ Drop(c) \/ ReadRefuses(c) \/ ReadAdmits(c) \/ WriteReturns(c) \/ StoreFails(c)

Next ==
  \/ Tick
  \/ \E c \in Calls : Call(c) \/ CallRefused(c) \/ Deadline(c) \/ Task(c)

Spec == Init /\ [][Next]_vars

\* A store that settles every call, one way or the other.
FairSpec == Spec /\ \A c \in Calls : WF_vars(Task(c))

-----------------------------------------------------------------------------
(* Correctness.                                                            *)

\* Types; only the head of the chain is past queueing, and only there is a state
\* being written.
TypeOK ==
  /\ now \in Nat
  /\ store \in State
  /\ queue \in Seq(Calls)
  /\ step \in [Calls -> Steps]
  /\ asOf \in [Calls -> Nat]
  /\ toWrite \in [Calls -> State]
  /\ aborted \subseteq Calls
  /\ answer \in [Calls -> Kinds]
  /\ counted \subseteq Counted
  /\ since \in [Calls -> Nat]
  /\ \A c \in Calls : step[c] \in {"reading", "writing"} => queue # <<>> /\ Head(queue) = c

\* No window admits more than its budget, whatever queues, fails or is given up: the
\* requests counted in one window carry different numbers, none above the limit.
WithinBudget ==
  /\ \A x \in counted : x.count \in 1..Limit
  /\ \A x, y \in counted : x.reset = y.reset /\ x.count = y.count => x = y

\* The budget is one per Width seconds: two windows in which requests were counted
\* never overlap, whatever the clock did between the turn and the write.
WindowsApart ==
  \A x, y \in counted : x.reset < y.reset => x.reset + Width <= y.reset

\* "A clock captured before queueing can be stale by the full queue wait, counting a
\* request into a window that has already expired" (in-memory.ts): however long the
\* wait, the window a request is counted in was open when its turn came.
CountedWhileOpen == \A x \in counted : x.reset > since[x.by]

\* "No budget is burned for rejected requests" (in-memory.ts): the store counts no
\* request whose caller was already answered 503.
NoBudgetForRejected ==
  [][\A x \in counted' \ counted : answer[x.by] # "unavailable"]_vars

\* Every task queued settles, whatever the tasks before it met: a failed store call
\* does not poison the key.
QueueMovesOn == \A c \in Calls : step[c] = "queued" ~> step[c] = "gone"

\* The queue over reads and writes amounts to one atomic consume per call.
Atomic == INSTANCE FixedWindow WITH window <- store

ImplementsFixedWindow == Atomic!Spec
=============================================================================
