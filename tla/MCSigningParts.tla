--------------------------- MODULE MCSigningParts ---------------------------
(* Three parts of a signing call that share no state, checked side by side: *)
(* the sign runner, the cache store and the policy checks. A behaviour is   *)
(* one of the part drawn at its start; the others keep their first state.   *)
EXTENDS SignRunner, BoundedCache, PolicyChecks, TLC

VARIABLE part

CONSTANTS c1, c2, here, targets, n1, n2

LegA == [id |-> 1, asset |-> 1, amount |-> 5]
LegB == [id |-> 1, asset |-> 1, amount |-> 7]

Request(kind, chain, what) ==
  [kind |-> kind, chain |-> chain, target |-> here, what |-> what,
   deadline |-> 100, nonce |-> 1]

\* One swap with its legs in either order; one batch listed and unlisted; two
\* books at the same address of two chains.
TheWorkloads ==
  {c1 :> Request("swap", 1, <<LegA, LegB>>) @@ c2 :> Request("swap", 1, <<LegB, LegA>>),
   c1 :> Request("whitelist", 1, targets) @@ c2 :> Request("unwhitelist", 1, targets),
   c1 :> Request("fund", 1, targets) @@ c2 :> Request("fund", 2, targets)}
ThePlaces == {<<1, here>>, <<2, here>>}
TheProviders == c1 :> "remote_http" @@ c2 :> "aws_kms"


-----------------------------------------------------------------------------
(* Policies, requests and chains for PolicyChecks. *)

MCBodies ==
  [ kind : {"fund"}, now : {10}, deadline : {12, 20},
    fundContract : {"fund", "stray"}, positionManager : {"manager", "other"} ]
  \cup
  [ kind : {"swap"}, now : {10}, deadline : {12, 20},
    legs : { << [asset |-> "x", amount |-> a], [asset |-> "y", amount |-> b] >> :
             a \in {0, 3, 20003}, b \in {3, 20001} } ]
  \cup
  [ kind : {"whitelisting"}, now : {10}, deadline : {12, 20},
    operation : {"whitelist", "unwhitelist"}, nonce : {1, 5},
    requestContracts : { <<"c1">>, <<"c1", "c2">>, <<"c1", "c2", "c3">> },
    whitelistBook : {"book", "stray"} ]

MCPolicies ==
  LET Base == [ maxDeadlineSecondsAhead |-> 5, acceptedFunds |-> {"fund"},
                acceptedOwners |-> {"owner"}, acceptedPmOwners |-> {"owner"},
                maxNonceAboveFloor |-> 2 ]
  IN  { [ acceptedPmFactories |-> <<"f1", "f2">>, swapPriceToleranceBps |-> 1,
          maxRequestContracts |-> 2, acceptedWhitelistBooks |-> {"book"} ] @@ Base,
        [ acceptedPmFactories |-> <<"f1">>, swapPriceToleranceBps |-> 0,
          maxRequestContracts |-> 3, acceptedWhitelistBooks |-> AnyBook ] @@ Base,
        [ acceptedPmFactories |-> <<>>, swapPriceToleranceBps |-> 0,
          maxRequestContracts |-> 3, acceptedWhitelistBooks |-> {} ] @@ Base }

MCFundAnswers == {"owner", "stranger", Reverts, Malformed}

MCIntentAnswers ==
  [ positionManagers : {{}, {"manager"}}, fund : {NoFund, "fund"} ]
    \cup {Reverts, Malformed}

MCFactoryAnswers == [ {"f1", "f2"} -> {TRUE, FALSE, Reverts} \X {TRUE, FALSE, Reverts} ]

MCViewAnswers ==
  [ owner : {"owner", "stranger"}, debtAsset : {"x", "y"},
    pendingFees : { [totalAssets |-> 4, totalSupply |-> 2, feeShares |-> 1],
                    [totalAssets |-> 0, totalSupply |-> 0, feeShares |-> 0] },
    virtualShareOffset : {0, 1, 2} ]
  \cup { [ owner |-> "owner", debtAsset |-> Reverts,
           pendingFees |-> Reverts, virtualShareOffset |-> 1 ] }

MCBookAnswers == [ floor : {0, 3, Reverts, Malformed}, consumed : {TRUE, FALSE, Reverts} ]

-----------------------------------------------------------------------------

\* Filter, which is defined by position, is what SelectSeq computes.
ASSUME FilterIsSelect ==
  \A n \in 0..4 : \A s \in [1..n -> 0..2], kept \in SUBSET (0..2) :
    Filter(s, {i \in 1..n : s[i] \in kept}) = SelectSeq(s, LAMBDA x : x \in kept)

AtRest ==
  /\ body = CHOOSE w \in Workloads : TRUE
  /\ declared = [p \in Places |-> NoDomain]

PartsInit ==
  /\ part \in {"runner", "cache", "checks"}
  /\ Init /\ CacheInit /\ ChecksInit
  /\ part # "runner" => AtRest

PartsNext ==
  /\ UNCHANGED part
  /\ \/ part = "runner" /\ Next /\ UNCHANGED <<cacheVars, checkVars>>
     \/ part = "cache" /\ CacheNext /\ UNCHANGED <<vars, checkVars>>
     \/ part = "checks" /\ ChecksNext /\ UNCHANGED <<vars, cacheVars>>

PartsSpec == PartsInit /\ [][PartsNext]_<<part, vars, cacheVars, checkVars>>

NameSymmetry == Permutations(Names)
=============================================================================
