----------------------------- MODULE FixedWindow -----------------------------
(***************************************************************************)
(* A fixed-window budget for one rate-limit key: what the bundled store of *)
(* packages/guardian-defaults (src/rate-limit/store.ts, consume) does in   *)
(* one turn of the event loop, and so what the queue of in-memory.ts has   *)
(* to amount to over a store that can only read and write.                 *)
(***************************************************************************)
EXTENDS Integers

CONSTANTS
  Calls,  \* calls of the limiter under one key
  Limit,  \* options.limit
  Width,  \* options.windowSeconds
  MaxNow  \* bound on the clock

VARIABLES
  now,     \* the clock, in seconds
  asOf,    \* the second each call takes for the present
  window,  \* RateLimitState: requests counted and when the window closes
  answer,  \* what each caller was told
  counted  \* the requests counted so far, each with its number and window

vars == <<now, asOf, window, answer, counted>>

\* No entry in the store: a window that closed before the clock began.
NoWindow == [count |-> 0, reset |-> 0]

Open(w, t) == w.reset > t

\* The state a request leaves when it is counted at second t, and whether it may be.
Count(w, t)   == IF Open(w, t) THEN [w EXCEPT !.count = @ + 1] ELSE [count |-> 1, reset |-> t + Width]
Exhausted(w, t) == Open(w, t) /\ w.count >= Limit

Entry(c, w) == [by |-> c, count |-> w.count, reset |-> w.reset]

Init ==
  /\ now = 0 /\ window = NoWindow /\ counted = {}
  /\ asOf = [c \in Calls |-> 0]
  /\ answer = [c \in Calls |-> "none"]

Tick ==
  /\ now < MaxNow /\ now' = now + 1
  /\ UNCHANGED <<asOf, window, answer, counted>>

ReadClock(c) ==
  /\ answer[c] = "none"
  /\ asOf' = [asOf EXCEPT ![c] = now]
  /\ UNCHANGED <<now, window, answer, counted>>

Uncounted(c) == \A x \in counted : x.by # c

\* The request is counted; whoever waits no longer for the answer, or gets an error
\* instead, has been counted nonetheless.
Admit(c) ==
  /\ answer[c] \in {"none", "unavailable"} /\ Uncounted(c)
  /\ ~Exhausted(window, asOf[c])
  /\ window' = Count(window, asOf[c])
  /\ counted' = counted \cup {Entry(c, window')}
  /\ answer' \in {[answer EXCEPT ![c] = "unavailable"]}
                 \cup (IF answer[c] = "none" THEN {[answer EXCEPT ![c] = "allowed"]} ELSE {})
  /\ UNCHANGED <<now, asOf>>

\* The budget is spent: nothing is counted.
Refuse(c) ==
  /\ answer[c] = "none" /\ Exhausted(window, asOf[c])
  /\ answer' = [answer EXCEPT ![c] = "limited"]
  /\ UNCHANGED <<now, asOf, window, counted>>

\* An error, a full backlog, a deadline: nothing is counted.
GiveUp(c) ==
  /\ answer[c] = "none"
  /\ answer' = [answer EXCEPT ![c] = "unavailable"]
  /\ UNCHANGED <<now, asOf, window, counted>>

Next == Tick \/ \E c \in Calls : ReadClock(c) \/ Admit(c) \/ Refuse(c) \/ GiveUp(c)

Spec == Init /\ [][Next]_vars
=============================================================================
