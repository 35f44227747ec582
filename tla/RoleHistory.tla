----------------------------- MODULE RoleHistory -----------------------------
(***************************************************************************)
(* The chain a role scan reads: blocks, the request contract's stored      *)
(* roles, and the event logs that contract and the accepted factories      *)
(* emit.  External: modelled from what                                     *)
(* packages/guardian-defaults/src/checks/role-events.ts expects of it.     *)
(***************************************************************************)
EXTENDS Integers, Sequences, FiniteSets

CONSTANTS
  Users,     \* accounts that may hold roles on the request contract
  RoleSets,  \* role bitfields
  NoRoles,   \* the empty bitfield
  Factories, \* accepted factories that claim the request contract
  Request,   \* the request contract
  Other,     \* some other request contract
  MaxHeight  \* bound on the chain

ASSUME RolesAssumption    == NoRoles \in RoleSets
ASSUME EmitterAssumption  == Request \notin Factories /\ Request # Other
ASSUME HeightAssumption   == MaxHeight \in Nat

VARIABLES
  stored,    \* stored[h]: the roles the request contract stores at block h
  updates,   \* RolesUpdated logs, of the request contract and of the factories
  creations  \* deployment logs, genuine or not

chainVars == <<stored, updates, creations>>

Emitter  == Factories \cup {Request}
Update   == [block : Nat, index : {1, 2}, from : Emitter, user : Users, roles : RoleSets]
Creation == [block : Nat, from : Emitter, request : {Request, Other}]

height == Len(stored)

Nobody == [u \in Users |-> NoRoles]
Roles  == IF height = 0 THEN Nobody ELSE stored[height]

\* The request contract's deployment, by a factory that claims it.
Genuine(c) == c.from \in Factories /\ c.request = Request
Deployed   == \E c \in creations : Genuine(c)
CodeAt(h)  == \E c \in creations : Genuine(c) /\ c.block <= h

ChainInit == stored = <<>> /\ updates = {} /\ creations = {}

\* A block in which the contract stores roles after emitting U, and C is emitted.
Block(roles, U, C) ==
  /\ height < MaxHeight
  /\ stored' = Append(stored, roles)
  /\ updates' = updates \cup U
  /\ creations' = creations \cup C

RoleLog(i, e, u, r) == [block |-> height + 1, index |-> i, from |-> e, user |-> u, roles |-> r]
CreationLog(e, q)   == [block |-> height + 1, from |-> e, request |-> q]

\* initialize() grants the first roles in the transaction of the deployment.
DeployBlock ==
  /\ ~Deployed
  /\ \E f \in Factories, u \in Users, r \in RoleSets :
       Block([Nobody EXCEPT ![u] = r], {RoleLog(1, Request, u, r)}, {CreationLog(f, Request)})

\* Roles are granted or revoked, once or twice in one block.
RolesBlock ==
  /\ Deployed
  /\ \E u \in Users, r, s \in RoleSets :
       \/ Block([Roles EXCEPT ![u] = r], {RoleLog(1, Request, u, r)}, {})
       \/ r # s /\ Block([Roles EXCEPT ![u] = s],
                         {RoleLog(1, Request, u, r), RoleLog(2, Request, u, s)}, {})

\* A factory updates roles of its own, or deploys another request contract; the
\* request contract may emit a deployment log that is not its to emit.
NoiseBlock ==
  \/ \E f \in Factories, u \in Users, r \in RoleSets : Block(Roles, {RoleLog(1, f, u, r)}, {})
  \/ \E f \in Factories : Block(Roles, {}, {CreationLog(f, Other)})
  \/ Deployed /\ Block(Roles, {}, {CreationLog(Request, Request)})

Grow == DeployBlock \/ RolesBlock \/ NoiseBlock

ChainTypeOK ==
  /\ stored \in Seq([Users -> RoleSets])
  /\ updates \subseteq Update
  /\ creations \subseteq Creation
=============================================================================
