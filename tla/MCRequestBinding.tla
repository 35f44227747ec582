-------------------------- MODULE MCRequestBinding --------------------------
(* Small instances of RequestBinding for TLC.                              *)
EXTENDS RequestBinding, TLC

CONSTANTS f1, f2, o1, r1, good, bad, c1, c2, none

\* The operator's policies: reject what cannot be seen, skip it, drop an owner and list
\* a retargetter, vouch for the contract.
Strict == [trusted |-> FALSE, factories |-> {f1}, flashFactories |-> {f2},
           owners |-> {o1, r1}, retargetters |-> {},
           pullers |-> {good}, consumers |-> {good}, executors |-> {good}, exhausted |-> "fail"]
Lenient  == [Strict EXCEPT !.exhausted = "skip"]
Listing  == [Lenient EXCEPT !.retargetters = {r1}]
Vouching == [Strict EXCEPT !.trusted = TRUE]

SomePolicies == {Strict, Lenient, Listing, Vouching}

Unborn == [claims |-> {}, maker |-> f1, owner |-> none, roles |-> [p \in {good, bad} |-> {}],
           recent |-> {}, old |-> FALSE, fit |-> {}, policy |-> Strict]

\* Deployed by one factory, recognised by both, with its roles granted.
Granted == [Unborn EXCEPT !.claims = {f1, f2}, !.owner = r1,
                          !.roles[good] = Roles, !.recent = {good}]

\* Deployed before the window; somebody unknown was granted a role inside it.
Aged == [Granted EXCEPT !.roles[bad] = {"puller"}, !.recent = {bad}, !.old = TRUE]

SomeStarts == {Unborn, Granted, Aged}

CallSymmetry == Permutations(Calls)
=============================================================================
