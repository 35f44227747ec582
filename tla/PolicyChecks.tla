---------------------------- MODULE PolicyChecks ----------------------------
(***************************************************************************)
(* The check runners of fund binding (A.2), swap (A.3) and request         *)
(* whitelisting (A.4). A call runs up to its next on-chain read, and every *)
(* read may find a chain that has moved since the last one, may be lost,   *)
(* or may reach a contract that does not answer. The A.1 checks of each    *)
(* contract of a whitelisting batch are taken at their promise: the        *)
(* contract passes or not, or the upstream was unavailable (the module     *)
(* RequestBinding has their detail, and their cache).                      *)
(***************************************************************************)
EXTENDS CheckHelpers, Functions, Filter

CONSTANTS
  Bodies,          \* the requests, each with its kind
  Policies,        \* the policies a Guardian may be configured with
  FundAnswers,     \* what owner() of a fund may answer
  IntentAnswers,   \* what getIntent() may answer
  FactoryAnswers,  \* what isPositionManager() may answer
  ViewAnswers,     \* what the views of a position manager may answer
  BookAnswers,     \* what a whitelist book may answer
  NoFund,          \* the zero address: no fund is bound
  AnyBook          \* acceptedWhitelistBooks is not configured

Fees == [totalAssets : Nat, totalSupply : Nat, feeShares : Nat]

\* Sentinels are values of no other kind.
ASSUME SentinelsApart ==
  /\ Reverts # Malformed
  /\ Unreachable \notin {0, 1, 2, Reverts, Malformed}
  /\ \A s \in {Reverts, Malformed} : s \notin Nat /\ s \notin BOOLEAN /\ s \notin Fees

\* What the schemas let through: unsigned numbers, two legs to a swap, and no
\* contract twice in a batch.
ASSUME BodiesWellFormed ==
  \A b \in Bodies :
    /\ b.kind \in {"fund", "swap", "whitelisting"}
    /\ b.now \in Nat /\ b.deadline \in Nat
    /\ b.kind = "swap" => \A leg \in 1..2 : b.legs[leg].amount \in Nat
    /\ b.kind = "whitelisting" =>
         /\ b.nonce \in Nat
         /\ b.requestContracts \in Seq(Range(b.requestContracts))
         /\ IsInjective(b.requestContracts)
         /\ NoContract \notin Range(b.requestContracts)

ASSUME PoliciesWellFormed ==
  \A p \in Policies :
    /\ p.maxDeadlineSecondsAhead \in Nat /\ p.maxNonceAboveFloor \in Nat
    /\ p.acceptedPmFactories \in Seq(Range(p.acceptedPmFactories))
    /\ Reverts \notin p.acceptedOwners

\* What decodes has the type the ABI gives it.
ASSUME AnswersWellFormed ==
  /\ \A found \in FactoryAnswers, p \in Policies :
       \A f \in Range(p.acceptedPmFactories) :
         /\ f \in DOMAIN found
         /\ \A leg \in 1..2 : found[f][leg] \in BOOLEAN \cup {Reverts, Malformed}
  /\ \A v \in ViewAnswers :
       /\ DOMAIN v = {"owner", "debtAsset", "pendingFees", "virtualShareOffset"}
       /\ v.pendingFees \in Fees \cup {Reverts, Malformed}
       /\ v.virtualShareOffset \in Nat \cup {Reverts, Malformed}
  /\ \A k \in BookAnswers :
       /\ k.floor \in Nat \cup {Reverts, Malformed}
       /\ k.consumed \in BOOLEAN \cup {Reverts, Malformed}

VARIABLES
  phase,    \* "idle", or the read the call waits for, or "done"
  request,  \* the body of the call
  policy,   \* the policy it is judged by
  left,     \* the request contracts of the batch still to be checked
  checks,   \* the entries collected so far
  saw,      \* what each read of the call found, in order (history)
  verdict   \* what the runner returned

checkVars == <<phase, request, policy, left, checks, saw, verdict>>

ChecksInit ==
  /\ phase = "idle"
  /\ request = NoContract
  /\ policy = NoContract
  /\ left = <<>>
  /\ checks = <<>>
  /\ saw = <<>>
  /\ verdict = UpstreamUnavailableError

-----------------------------------------------------------------------------
(* Steps every runner makes. *)

Finish(result) ==
  /\ phase' = "done"
  /\ verdict' = result
  /\ checks' = result.checks

Await(read, collected) ==
  /\ phase' = read
  /\ checks' = collected
  /\ UNCHANGED verdict

\* The builders throw on any other policy, and the Guardian does not start.
Builds(p) ==
  /\ p.swapPriceToleranceBps \in Nat
  /\ p.maxRequestContracts \in Nat \ {0}

Arrives(kind, b, p) ==
  /\ Builds(p)
  /\ phase = "idle"
  /\ b.kind = kind
  /\ request' = b
  /\ policy' = p
  /\ saw' = <<>>

Sees(read, found, lost) ==
  /\ saw' = Append(saw, [read |-> read, found |-> found, lost |-> lost # {}])
  /\ UNCHANGED <<request, policy>>

deadlineCheck(b, p) == checkDeadline(b.now, b.deadline, p.maxDeadlineSecondsAhead)

-----------------------------------------------------------------------------
(* A.2, intent-fund-binding.ts. *)

OnChainFundChecks ==
  << skipped("position_manager_is_the_intents"),
     skipped("no_fund_is_bound"),
     skipped("depositor_role") >>

FundArrives(b, p) ==
  /\ Arrives("fund", b, p)
  /\ left' = <<>>
  /\ LET fundOnList == checkMembership("fund_accepted", b.fundContract, p.acceptedFunds)
         offChain == <<deadlineCheck(b, p), fundOnList>>
     IN  IF fundOnList.outcome = "failed"
         THEN Finish(rollUp(offChain \o <<skipped("fund_owner_accepted")>> \o OnChainFundChecks))
         ELSE Await("fund", offChain)

\* A faulty verdict: the conflict is returned before the other checks are
\* looked at.
FundVerdictConflictFirst(entries) ==
  IF entries[5].outcome = "failed" THEN StateConflictError(entries)
  ELSE rollUp(entries)

\* 422 wins over 409: the fifth entry is the one of the 409 class.
FundVerdict(entries) ==
  LET class422 == [i \in DOMAIN entries \ {5} |-> entries[i]]
  IN  IF anyFailed(class422) THEN rollUp(entries)
      ELSE IF entries[5].outcome = "failed" THEN StateConflictError(entries)
      ELSE Answer(200, entries)

FundRead(owner, intent, lost) ==
  LET results == multicall(<<Slot("owner", owner), Slot("getIntent", intent)>>, lost)
  IN  /\ phase = "fund"
      /\ Sees("fund", [owner |-> owner, intent |-> intent], lost)
      /\ UNCHANGED left
      /\ IF Throws(results)
         THEN IF isDeterministicContractCallFailure(Thrown(results), {"owner", "getIntent"})
              THEN Finish(rollUp(checks \o <<failed("fund_owner_accepted")>> \o OnChainFundChecks))
              ELSE Finish(UpstreamUnavailableError)
         ELSE Finish(FundVerdict(checks \o
                << checkMembership("fund_owner_accepted", owner, policy.acceptedOwners),
                   checkMembership("position_manager_is_the_intents",
                                   request.positionManager, intent.positionManagers),
                   entryIf("no_fund_is_bound", intent.fund = NoFund),
                   skipped("depositor_role") >>))

-----------------------------------------------------------------------------
(* A.3, intent-swap.ts. *)

SwapChecks(oneManager, onManager, deadline) ==
  << oneManager >> \o onManager \o << deadline >>

OnManagerSkipped ==
  << skipped("manager_owner_accepted"),
     skipped("other_leg_is_the_debt_asset"),
     skipped("price_within_tolerance") >>

NotOneManager(b, p) ==
  rollUp(SwapChecks(failed("one_leg_is_a_manager"), OnManagerSkipped, deadlineCheck(b, p)))

SwapArrives(b, p) ==
  /\ Arrives("swap", b, p)
  /\ left' = <<>>
  /\ IF p.acceptedPmFactories = <<>>
     THEN Finish(NotOneManager(b, p))
     ELSE Await("factories", <<>>)

\* isPositionManager of every accepted factory, first for leg A, then for B.
FactorySlots(factories, found) ==
  LET n == Len(factories)
  IN  [ i \in 1..(2 * n) |->
          Slot("isPositionManager",
               IF i <= n THEN found[factories[i]][1] ELSE found[factories[i - n]][2]) ]

Hits(results, slots) ==
  \E i \in slots : ~results[i].failed /\ results[i].result

\* A faulty decision: legs are counted from the slots that answered, and a
\* lost slot is a leg that is no manager.
ManagerLegGuessing(results) ==
  LET n == Len(results) \div 2
      aHits == Hits(results, 1..n)
      bHits == Hits(results, (n + 1)..(2 * n))
  IN  IF aHits = bHits THEN 0 ELSE IF aHits THEN 1 ELSE 2

\* The leg that is a manager, 0 if it is not exactly one, and Unreachable
\* if the answers do not tell.
ManagerLeg(results) ==
  LET n == Len(results) \div 2
      aHits == Hits(results, 1..n)
      bHits == Hits(results, (n + 1)..(2 * n))
      Deterministic(i) ==
        isDeterministicContractCallFailure(results[i], {"isPositionManager"})
  IN  IF \E i \in FailuresOf(results) : ~Deterministic(i) THEN Unreachable
      ELSE IF aHits = bHits
           THEN IF ~aHits /\ FailuresOf(results) # {} THEN Unreachable ELSE 0
      ELSE IF aHits THEN 1 ELSE 2

SwapFactories(found, lost) ==
  LET leg == ManagerLeg(multicall(FactorySlots(policy.acceptedPmFactories, found), lost))
  IN  /\ phase = "factories"
      /\ Sees("factories", found, lost)
      /\ \/ /\ leg = Unreachable
            /\ UNCHANGED left
            /\ Finish(UpstreamUnavailableError)
         \/ /\ leg = 0
            /\ UNCHANGED left
            /\ Finish(NotOneManager(request, policy))
         \/ /\ leg \in {1, 2}
            /\ left' = << request.legs[leg], request.legs[3 - leg] >>
            /\ Await("views", <<passed("one_leg_is_a_manager")>>)

\* LibView.convertToShares read backwards, with VIRTUAL_ASSETS = 1.
priceCheck(shares, debt, views, bps) ==
  LET fees == views.pendingFees
      denom == fees.totalSupply + views.virtualShareOffset + fees.feeShares
      expected == (shares * (fees.totalAssets + 1)) \div denom
      delta == IF debt > expected THEN debt - expected ELSE expected - debt
  IN  entryIf("price_within_tolerance",
              denom # 0 /\ delta <= bpsToleranceWithWeiFloor(expected, bps))

SwapViews(views, lost) ==
  LET slots == << Slot("owner", views.owner), Slot("assets", views.debtAsset),
                  Slot("pendingFees", views.pendingFees),
                  Slot("virtualShareOffset", views.virtualShareOffset) >>
      pmLeg == left[1]
      debtLeg == left[2]
      debtMatch == entryIf("other_leg_is_the_debt_asset", debtLeg.asset = views.debtAsset)
  IN  /\ phase = "views"
      /\ Sees("views", views, lost)
      /\ UNCHANGED left
      /\ IF Throws(multicall(slots, lost))
         THEN Finish(UpstreamUnavailableError)
         ELSE Finish(rollUp(SwapChecks(checks[1],
                << checkMembership("manager_owner_accepted", views.owner, policy.acceptedPmOwners),
                   debtMatch,
                   IF debtMatch.outcome = "failed"
                   THEN skipped("price_within_tolerance")
                   ELSE priceCheck(pmLeg.amount, debtLeg.amount, views,
                                   policy.swapPriceToleranceBps) >>,
                deadlineCheck(request, policy))))

-----------------------------------------------------------------------------
(* A.4, request-whitelisting.ts. *)

NonceSkipped == [i \in DOMAIN NonceChecks |-> skipped(NonceChecks[i])]

\* A faulty batch: every contract keeps its own deadline entry.
keepDeadlines(entries) == entries

\* The entries without the deadline, which the batch emits once for itself.
dropDeadlines(entries) ==
  Filter(entries, {i \in DOMAIN entries : entries[i].check # DeadlineCheck})

suffixed(entries, contract) ==
  [i \in DOMAIN entries |-> [entries[i] EXCEPT !.of = contract]]

\* The gate of the whitelist book, when a set of books is configured.
BookGate(b, p) ==
  IF p.acceptedWhitelistBooks = AnyBook THEN <<>>
  ELSE <<checkMembership("book_accepted", b.whitelistBook, p.acceptedWhitelistBooks)>>

AwaitNext(contracts, collected, b, p) ==
  /\ left' = contracts
  /\ IF contracts # <<>> THEN Await("contract", collected)
     ELSE Await("book", collected \o <<deadlineCheck(b, p)>>)

WhitelistingArrives(b, p) ==
  /\ Arrives("whitelisting", b, p)
  /\ IF Len(b.requestContracts) > p.maxRequestContracts
     THEN left' = <<>> /\ Finish(rollUp(<<failed("batch_within_cap")>>))
     ELSE IF anyFailed(BookGate(b, p))
     THEN left' = <<>> /\ Finish(rollUp(BookGate(b, p) \o <<deadlineCheck(b, p)>> \o NonceSkipped))
     ELSE AwaitNext(IF b.operation = "whitelist" THEN b.requestContracts ELSE <<>>,
                    BookGate(b, p), b, p)

\* What runA1 promises of one contract.
runA1(passes, lost, b, p) ==
  IF lost # {} THEN UpstreamUnavailableError
  ELSE rollUp(<<entryIf("request_contract", passes), deadlineCheck(b, p)>>)

\* Only an upstream failure ends the batch; a failed contract adds its entries.
Continues(a1) == a1.status # 503

ContractRead(passes, lost) ==
  LET a1 == runA1(passes, lost, request, policy)
  IN  /\ phase = "contract"
      /\ Sees("contract", [contract |-> Head(left), passes |-> passes], lost)
      /\ IF Continues(a1)
         THEN AwaitNext(Tail(left),
                        checks \o suffixed(dropDeadlines(a1.checks), Head(left)), request, policy)
         ELSE UNCHANGED left /\ Finish(UpstreamUnavailableError)

BookRead(book, lost) ==
  LET results == multicall(<<Slot("validatorNonceFloor", book.floor),
                             Slot("isNonceConsumed", book.consumed)>>, lost)
  IN  /\ phase = "book"
      /\ Sees("book", book, lost)
      /\ UNCHANGED left
      /\ IF Throws(results)
         THEN IF isDeterministicContractCallFailure(Thrown(results),
                                                    {"validatorNonceFloor", "isNonceConsumed"})
              THEN Finish(rollUp(checks \o <<failed("book_has_nonces")>> \o NonceSkipped))
              ELSE Finish(UpstreamUnavailableError)
         ELSE Finish(rollUp(checks \o checkNonceWindow(request.nonce, book.consumed, book.floor,
                                                        policy.maxNonceAboveFloor)))

-----------------------------------------------------------------------------
\* All the slots of a small read share one aggregate3 call; those of a wide
\* one (two per factory) are spread over several.
Lost(n) == {{}, 1..n}

ChecksNext ==
  \/ \E b \in Bodies, p \in Policies :
       FundArrives(b, p) \/ SwapArrives(b, p) \/ WhitelistingArrives(b, p)
  \/ \E owner \in FundAnswers, intent \in IntentAnswers, lost \in Lost(2) :
       FundRead(owner, intent, lost)
  \/ phase = "factories" /\ LET n == 2 * Len(policy.acceptedPmFactories) IN
       \E found \in FactoryAnswers, lost \in SUBSET (1..n) : SwapFactories(found, lost)
  \/ \E views \in ViewAnswers, lost \in Lost(4) : SwapViews(views, lost)
  \/ \E passes \in BOOLEAN, lost \in Lost(1) : ContractRead(passes, lost)
  \/ \E book \in BookAnswers, lost \in Lost(2) : BookRead(book, lost)

ChecksSpec == ChecksInit /\ [][ChecksNext]_checkVars

-----------------------------------------------------------------------------
(* Properties. *)

Did(read) == {i \in DOMAIN saw : saw[i].read = read}
Found(read) == {saw[i].found : i \in Did(read)}

\* What an honest chain and a sound configuration would not have shown.
NotTheClients(r) ==
  \/ r.read = "fund" /\ Malformed \in {r.found.owner, r.found.intent}
  \/ r.read = "book" /\ Malformed \in {r.found.floor, r.found.consumed}
  \/ r.read = "factories" /\ \E f \in DOMAIN r.found, leg \in 1..2 :
                               r.found[f][leg] \notin BOOLEAN
  \/ r.read = "views" /\ \E view \in DOMAIN r.found :
                           r.found[view] \in {Reverts, Malformed}

(* An outage is never blamed on the client, and a contract the client      *)
(* named that merely reverts is never reported as an outage: any lost read *)
(* of the call ends in a 503, and a 503 has a lost read, a factory or a    *)
(* position manager that did not answer, or undecodable data behind it     *)
(* (helpers.ts, "so the caller should map them to a 422-class check        *)
(* failure instead of a 503").                                             *)
BlameIsRight ==
  phase = "done" =>
    /\ (\E i \in DOMAIN saw : saw[i].lost) => verdict.status = 503
    /\ verdict.status = 503 =>
         \E i \in DOMAIN saw : saw[i].lost \/ NotTheClients(saw[i])

FundIsRight ==
  /\ request.fundContract \in policy.acceptedFunds
  /\ \E r \in Found("fund") :
       /\ r.owner \in policy.acceptedOwners
       /\ r.intent # Reverts
       /\ request.positionManager \in r.intent.positionManagers

IsManager(leg) ==
  \E r \in Found("factories") :
    \E i \in DOMAIN policy.acceptedPmFactories : r[policy.acceptedPmFactories[i]][leg] = TRUE

\* The debt amount within the tolerance of the worth of the shares, by
\* cross-multiplication.
Priced(shares, debt, v, bps) ==
  LET denom == v.pendingFees.totalSupply + v.virtualShareOffset + v.pendingFees.feeShares
      worth == (shares * (v.pendingFees.totalAssets + 1)) \div denom
  IN  denom > 0 /\ \A delta \in {debt - worth, worth - debt} :
                     \/ delta * 10000 <= worth * bps
                     \/ bps > 0 /\ delta <= 1

SwapIsRight ==
  \E leg \in 1..2 : LET other == request.legs[3 - leg] IN
    /\ IsManager(leg) /\ ~IsManager(3 - leg)
    /\ \E v \in Found("views") :
         /\ v.owner \in policy.acceptedPmOwners
         /\ v.debtAsset = other.asset
         /\ Priced(request.legs[leg].amount, other.amount, v, policy.swapPriceToleranceBps)

WhitelistingIsRight ==
  /\ Len(request.requestContracts) <= policy.maxRequestContracts
  /\ \/ policy.acceptedWhitelistBooks = AnyBook
     \/ request.whitelistBook \in policy.acceptedWhitelistBooks
  /\ request.operation = "whitelist" =>
       \A i \in DOMAIN request.requestContracts :
         \E r \in Found("contract") : r.contract = request.requestContracts[i] /\ r.passes
  /\ \E book \in Found("book") :
       /\ book.consumed = FALSE
       /\ book.floor # Reverts
       /\ request.nonce - book.floor \in 0..policy.maxNonceAboveFloor

RequestIsRight ==
  /\ request.deadline - request.now <= policy.maxDeadlineSecondsAhead
  /\ CASE request.kind = "fund" -> FundIsRight
       [] request.kind = "swap" -> SwapIsRight
       [] request.kind = "whitelisting" -> WhitelistingIsRight

(* Whatever order the reads came in and wherever the runner stopped, its   *)
(* verdict is the policy's: a request that satisfies the appendix, by what *)
(* the reads of this call found, is passed, any other is a 422, and the    *)
(* 409 of fund binding comes only when nothing else is wrong (spec 6.6.1). *)
VerdictIsRight ==
  phase = "done" /\ verdict.status # 503 =>
    /\ verdict.status = 422 <=> ~RequestIsRight
    /\ verdict.status = 409 <=>
         /\ RequestIsRight
         /\ request.kind = "fund"
         /\ \E r \in Found("fund") : r.intent.fund # NoFund

Reported == {verdict.checks[i].check : i \in DOMAIN verdict.checks}

Appendix ==
  CASE request.kind = "fund" ->
         {"deadline", "fund_accepted", "fund_owner_accepted",
          "position_manager_is_the_intents", "no_fund_is_bound", "depositor_role"}
    [] request.kind = "swap" ->
         {"deadline", "one_leg_is_a_manager", "manager_owner_accepted",
          "other_leg_is_the_debt_asset", "price_within_tolerance"}
    [] request.kind = "whitelisting" ->
         IF Len(request.requestContracts) > policy.maxRequestContracts
         THEN {"batch_within_cap"}
         ELSE {"deadline"} \cup Range(NonceChecks)

(* Every early return still describes the appendix in full, with a skipped *)
(* entry for what was not evaluated; no check is reported twice of one     *)
(* subject, nor both of the request and of a contract of its batch.        *)
AppendixIsDescribed ==
  phase = "done" /\ verdict.status # 503 =>
    /\ Appendix \subseteq Reported
    /\ \A i, j \in DOMAIN verdict.checks :
         /\ verdict.checks[i].check = verdict.checks[j].check
         /\ verdict.checks[i].of \in {NoContract, verdict.checks[j].of}
         => i = j
=============================================================================
