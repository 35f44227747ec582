---------------------------- MODULE CheckHelpers ----------------------------
(***************************************************************************)
(* What the four policy check runners share (checks/helpers.ts): entries   *)
(* of the `checks` array, their roll-up into an answer, the tolerance of a *)
(* price and the nonce window; and the on-chain read they all make, a      *)
(* viem multicall whose slots fail one by one or all together.             *)
(***************************************************************************)
EXTENDS Integers, Sequences, FiniteSetsExt

CONSTANTS
  Reverts,      \* a call that reverted or returned no data
  Malformed,    \* a call that returned data the ABI cannot decode
  Unreachable,  \* a call whose aggregate3 never came back
  NoContract    \* the subject of an entry about the whole request

-----------------------------------------------------------------------------
(* Entries and answers. *)

Entry(check, outcome) ==
  [check |-> check, of |-> NoContract, outcome |-> outcome]

passed(check) == Entry(check, "passed")
failed(check) == Entry(check, "failed")
skipped(check) == Entry(check, "skipped")

entryIf(check, holds) == IF holds THEN passed(check) ELSE failed(check)

Answer(status, checks) == [status |-> status, checks |-> checks]

StateConflictError(checks) == Answer(409, checks)
UpstreamUnavailableError == Answer(503, <<>>)

anyFailed(checks) == \E i \in DOMAIN checks : checks[i].outcome = "failed"

\* A skipped entry counts as passed.
rollUp(checks) == Answer(IF anyFailed(checks) THEN 422 ELSE 200, checks)

checkMembership(check, value, accepted) == entryIf(check, value \in accepted)

DeadlineCheck == "deadline"

\* Only the distance into the future is capped.
checkDeadline(now, deadline, maxSecondsAhead) ==
  entryIf(DeadlineCheck, deadline <= now + maxSecondsAhead)

bpsToleranceWithWeiFloor(expected, bps) ==
  LET proportional == (expected * bps) \div 10000
  IN  IF proportional > 0 THEN proportional ELSE IF bps > 0 THEN 1 ELSE 0

NonceChecks == <<"nonce_unconsumed", "nonce_above_floor", "nonce_below_ceiling">>

checkNonceWindow(nonce, consumed, floor, maxAboveFloor) ==
  << entryIf(NonceChecks[1], ~consumed),
     entryIf(NonceChecks[2], nonce >= floor),
     entryIf(NonceChecks[3], nonce <= floor + maxAboveFloor) >>

-----------------------------------------------------------------------------
(* One multicall. A slot names its function and what the contract answers; *)
(* the slots in `lost` are those whose aggregate3 call failed.             *)

Slot(functionName, got) == [functionName |-> functionName, got |-> got]

Failure(functionName, cause) ==
  [failed |-> TRUE, functionName |-> functionName, cause |-> cause]

multicall(slots, lost) ==
  [ i \in DOMAIN slots |->
      IF i \in lost
        THEN Failure("aggregate3", Unreachable)
      ELSE IF slots[i].got \in {Reverts, Malformed}
        THEN Failure(slots[i].functionName, slots[i].got)
      ELSE [failed |-> FALSE, result |-> slots[i].got] ]

FailuresOf(results) == {i \in DOMAIN results : results[i].failed}

\* With allowFailure: false the first slot that failed is thrown.
Throws(results) == FailuresOf(results) # {}
Thrown(results) == results[Min(FailuresOf(results))]

isDeterministicContractCallFailure(error, functionNames) ==
  /\ error.functionName \in functionNames
  /\ error.cause = Reverts
=============================================================================
