----------------------------- MODULE RoleAnswer ------------------------------
(***************************************************************************)
(* What a role scan promises, apart from how it reads the chain: it takes  *)
(* the head of the chain once, and answers for that block, whatever is     *)
(* mined meanwhile.                                                        *)
(***************************************************************************)
EXTENDS RoleHistory

CONSTANTS
  MaxLookback, \* policy.eventScanMaxLookbackBlocks
  FailIfOld    \* policy.onLookbackExhausted = "fail"

VARIABLES
  phase,   \* "idle", "asked" or "done"
  latest,  \* the head the answer is for
  answer   \* the verdict and the role holders that come with it

vars == <<chainVars, phase, latest, answer>>

Kinds    == {"none", "resolved", "tooOld", "probed", "failed"}
NoAnswer == [kind |-> "none", holders |-> Nobody]

\* The oldest block the window reaches.
Earliest(h) == IF h > MaxLookback THEN h - MaxLookback ELSE 0

\* The verdicts that are right for head h: complete role holders when the
\* deployment is inside the window, otherwise nothing but roles really held.
RightAnswers(h) ==
  {[kind |-> "failed", holders |-> Nobody]}
  \cup (IF CodeAt(Earliest(h) - 1)
        THEN {[kind |-> "tooOld", holders |-> s] :
                s \in {t \in [Users -> RoleSets] : \A u \in Users : t[u] \in {NoRoles, stored[h][u]}}}
             \cup (IF FailIfOld THEN {[kind |-> "probed", holders |-> Nobody]} ELSE {})
        ELSE {[kind |-> "resolved", holders |-> stored[h]]})

Init == ChainInit /\ phase = "idle" /\ latest = 0 /\ answer = NoAnswer

Mine == Grow /\ UNCHANGED <<phase, latest, answer>>

Ask ==
  /\ phase = "idle" /\ Deployed
  /\ phase' = "asked" /\ latest' = height
  /\ UNCHANGED <<chainVars, answer>>

Reply ==
  /\ phase = "asked" /\ phase' = "done"
  /\ answer' \in RightAnswers(latest)
  /\ UNCHANGED <<chainVars, latest>>

Forget ==
  /\ phase = "done" /\ phase' = "idle"
  /\ latest' = 0 /\ answer' = NoAnswer
  /\ UNCHANGED chainVars

Next == Mine \/ Ask \/ Reply \/ Forget

Spec == Init /\ [][Next]_vars
=============================================================================
