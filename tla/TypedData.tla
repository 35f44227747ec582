----------------------------- MODULE TypedData -----------------------------
(***************************************************************************)
(* The EIP-712 payloads the sign runners build (guardian/src/typed-data):  *)
(* one per operation, each bound to the domain of its verifying contract.  *)
(* Hashing is injective, so the payload stands for its payloadHash.        *)
(***************************************************************************)
EXTENDS Integers, Sequences

\* The contract whose domain and signature check the request is about:
\* body.facility, or body.whitelistBook.
Kinds == {"binding", "fund", "swap", "whitelist", "unwhitelist"}

\* The legs of a swap: intent id, asset and amount, all ordered.
Leg == [id : Int, asset : Int, amount : Int]

Before(a, b) ==
  \/ a.id < b.id
  \/ a.id = b.id /\ a.asset < b.asset
  \/ a.id = b.id /\ a.asset = b.asset /\ a.amount < b.amount

\* A faulty canonicaliseSwapLegs: intent id and asset alone decide.
canonicaliseSwapLegsNoAmount(legs) ==
  IF \/ legs[2].id < legs[1].id
     \/ legs[2].id = legs[1].id /\ legs[2].asset < legs[1].asset
  THEN <<legs[2], legs[1]>> ELSE legs

canonicaliseSwapLegs(legs) ==
  IF Before(legs[2], legs[1]) THEN <<legs[2], legs[1]>> ELSE legs

PrimaryType(kind) ==
  CASE kind = "binding" -> "SetRequestParams"
    [] kind = "fund" -> "SetFundParams"
    [] kind = "swap" -> "SwapParams"
    [] kind = "whitelist" -> "WhitelistRequest"
    [] kind = "unwhitelist" -> "UnwhitelistRequest"

\* what is the part of the body that lands in the message: for a swap its two
\* legs, for a whitelisting its targets, for a binding the new request or fund.
Swap(body) == canonicaliseSwapLegs(body.what)

\* validator and nonce are signed with a whitelisting and with nothing else.
messageOf(body, validator) ==
  [what |-> body.what, deadline |-> body.deadline,
   nonce |-> body.nonce, validator |-> validator]

Message(body, validator) ==
  CASE body.kind = "swap" -> [what |-> Swap(body), deadline |-> body.deadline]
    [] body.kind \in {"binding", "fund"} -> [what |-> body.what, deadline |-> body.deadline]
    [] body.kind \in {"whitelist", "unwhitelist"} -> messageOf(body, validator)

\* The domain is assembled from what the request names and what the contract
\* calls itself; the builders throw when it is not the domain of the target.
Domain(body, name) == [name |-> name, chain |-> body.chain, verifier |-> body.target]

assertDomainMatches(domain, body) == domain.verifier = body.target

TypedDataOf(domain, body, validator) ==
  [domain |-> domain, primaryType |-> PrimaryType(body.kind),
   message |-> Message(body, validator)]
=============================================================================
