--------------------------- MODULE RoleScanProofs ----------------------------
(***************************************************************************)
(* Proofs about RoleScan: whatever the chain, the window and the block     *)
(* range, the scan answers for the head it read and for nothing else, and  *)
(* so implements RoleAnswer.                                               *)
(***************************************************************************)
EXTENDS RoleScan, TLAPS

-----------------------------------------------------------------------------
(* The inductive invariant.                                                *)

\* The request contract's own updates up to block h.
Upto(h) == {a \in updates : Own(a) /\ a.block <= h}

\* What the contract stores at block h is what its own logs up to h say.
LogsTellRoles(h, u) ==
  \/ stored[h][u] = NoRoles /\ \A a \in Upto(h) : a.user # u
  \/ \E a \in Upto(h) : a.user = u /\ IsLast(a, Upto(h)) /\ stored[h][u] = a.roles

\* The chain's part: logs lie in blocks there are, the contract is deployed once
\* and emits nothing before, and its logs tell its roles at every block.
HistoryInv ==
  /\ \A a \in updates : a.block \in 1..height
  /\ \A c \in creations : c.block \in 1..height
  /\ \A c, d \in creations : Genuine(c) /\ Genuine(d) => c = d
  /\ \A a \in updates : Own(a) => CodeAt(a.block)
  /\ \A h \in 1..height, u \in Users : LogsTellRoles(h, u)

\* What the chunks read so far have gathered: every own log above to, up to the
\* head, and no deployment among them.
ScanInv ==
  /\ pc # "idle" => latest \in 1..height /\ CodeAt(latest)
  /\ pc = "probe" => FailIfOld /\ latest > MaxLookback /\ to = latest
  /\ pc \in {"probe", "scan"} =>
       /\ Earliest(latest) <= to
       /\ seen = {a \in Upto(latest) : a.block > to}
       /\ \A c \in creations : Genuine(c) /\ c.block <= latest => c.block <= to
  /\ answer.kind # "none" => pc = "done"

IInv == TypeOK /\ HistoryInv /\ ScanInv /\ ResolvedIsComplete /\ PartialIsSound /\ AgeDecides

-----------------------------------------------------------------------------
(* Lemmas.                                                                 *)

\* The window's oldest block is a block, and not above the head.
LEMMA EarliestBound ==
  ASSUME NEW h \in Nat
  PROVE  Earliest(h) \in 0..h
BY ScanAssumption DEF Earliest

\* A chunk begins inside the window and, once the window's end lies below it, not
\* above its own end.
LEMMA FromBound ==
  ASSUME latest \in Nat, to \in Earliest(latest)..latest
  PROVE  From \in Earliest(latest)..to
<1>1. Earliest(latest) \in 0..latest
  BY EarliestBound
<1>. QED
  BY <1>1, ScanAssumption DEF From

\* Replaying the logs of a window gives, for a user the window tells of, the roles
\* stored at its head, and no roles for any other user.
LEMMA ReplayTells ==
  ASSUME TypeOK, HistoryInv, NEW h \in 1..height, NEW lo \in Nat, NEW u \in Users
  PROVE  LET S == {a \in Upto(h) : lo <= a.block}
         IN  /\ (\E a \in S : a.user = u) => Replay(S)[u] = stored[h][u]
             /\ (\A a \in S : a.user # u) => Replay(S)[u] = NoRoles
<1>. DEFINE S == {a \in Upto(h) : lo <= a.block}
<1>0. \A a \in Upto(h) : a.block \in Nat /\ a.index \in Nat
  BY DEF Upto, TypeOK, ChainTypeOK, Update
<1>1. Replay(S)[u] = RolesIn(S, u)
  BY DEF Replay
<1>2. ASSUME NEW a \in S, a.user = u
      PROVE  RolesIn(S, u) = stored[h][u]
  <2>1. PICK l \in Upto(h) : l.user = u /\ IsLast(l, Upto(h)) /\ stored[h][u] = l.roles
    BY <1>2 DEF HistoryInv, LogsTellRoles
  <2>2. l.block >= a.block
    BY <1>0, <1>2, <2>1 DEF IsLast, Later
  <2>3. l \in S
    BY <1>0, <1>2, <2>2
  <2>4. l.user = u /\ IsLast(l, S)
    BY <2>1, <2>3 DEF IsLast
  <2>5. ASSUME NEW x \in S, x.user = u, IsLast(x, S)
        PROVE  x = l
    BY <1>0, <2>3, <2>4, <2>5 DEF IsLast, Later
  <2>6. (CHOOSE x \in S : x.user = u /\ IsLast(x, S)) = l
    BY <2>3, <2>4, <2>5
  <2>. QED
    BY <1>2, <2>1, <2>6 DEF RolesIn
<1>3. ASSUME \A a \in S : a.user # u
      PROVE  RolesIn(S, u) = NoRoles
  BY <1>3 DEF RolesIn
<1>. QED
  BY <1>1, <1>2, <1>3

-----------------------------------------------------------------------------
(* One more block.                                                         *)

\* What a new block adds, and that it changes nothing of the blocks before it.
LEMMA BlockAdds ==
  ASSUME ChainTypeOK, HistoryInv, NEW n \in Nat, n = height + 1,
         NEW roles \in [Users -> RoleSets],
         NEW U \in SUBSET Update, \A a \in U : a.block = n,
         NEW C \in SUBSET Creation, \A c \in C : c.block = n,
         Block(roles, U, C)
  PROVE  /\ ChainTypeOK'
         /\ height' = n
         /\ stored'[n] = roles
         /\ \A h \in 1..height : /\ stored'[h] = stored[h]
                                 /\ Upto(h)' = Upto(h)
                                 /\ CodeAt(h)' = CodeAt(h)
         /\ Upto(n)' = Upto(height) \cup {a \in U : Own(a)}
<1>. USE DEF ChainTypeOK, Block, height
<1>1. /\ stored' \in Seq([Users -> RoleSets])
      /\ Len(stored') = Len(stored) + 1
      /\ stored'[Len(stored) + 1] = roles
      /\ \A h \in 1..Len(stored) : stored'[h] = stored[h]
  OBVIOUS
<1>2. updates' \subseteq Update /\ creations' \subseteq Creation
  OBVIOUS
<1>3. /\ \A a \in updates : a.block \in 1..Len(stored)
      /\ \A c \in creations : c.block \in 1..Len(stored)
  BY DEF HistoryInv
<1>4. ASSUME NEW h \in 1..Len(stored)
      PROVE  Upto(h)' = Upto(h)
  BY <1>3, <1>4 DEF Upto
<1>5. ASSUME NEW h \in 1..Len(stored)
      PROVE  CodeAt(h)' = CodeAt(h)
  <2>1. \A c \in C : ~(c.block <= h)
    BY <1>5
  <2>. QED
    BY <2>1 DEF CodeAt
<1>6. Upto(n)' = Upto(Len(stored)) \cup {a \in U : Own(a)}
  BY <1>3 DEF Upto
<1>. QED
  BY <1>1, <1>2, <1>4, <1>5, <1>6

\* A new block keeps the chain's invariant when the deployment in it, if there is
\* one, is the only one, when the contract's logs come with its code, and when they
\* tell the roles stored at the new block.
LEMMA BlockKeepsHistory ==
  ASSUME ChainTypeOK, HistoryInv, NEW n \in Nat, n = height + 1,
         NEW roles \in [Users -> RoleSets],
         NEW U \in SUBSET Update, \A a \in U : a.block = n,
         NEW C \in SUBSET Creation, \A c \in C : c.block = n,
         Block(roles, U, C),
         \A c \in C : Genuine(c) => ~Deployed,
         \A c, d \in C : Genuine(c) /\ Genuine(d) => c = d,
         \A a \in U : Own(a) => Deployed \/ \E c \in C : Genuine(c),
         \A u \in Users : LogsTellRoles(n, u)'
  PROVE  HistoryInv'
<1>1. /\ height \in Nat
      /\ updates' = updates \cup U
      /\ creations' = creations \cup C
  BY DEF ChainTypeOK, Block, height
<1>2. /\ height' = n
      /\ \A h \in 1..height : /\ stored'[h] = stored[h]
                              /\ Upto(h)' = Upto(h)
                              /\ CodeAt(h)' = CodeAt(h)
  BY BlockAdds
<1>3. (\A a \in updates : a.block \in 1..height)'
  BY <1>1, <1>2 DEF HistoryInv
<1>4. (\A c \in creations : c.block \in 1..height)'
  BY <1>1, <1>2 DEF HistoryInv
<1>5. (\A c, d \in creations : Genuine(c) /\ Genuine(d) => c = d)'
  BY <1>1 DEF HistoryInv, Deployed, Genuine
<1>6. ASSUME NEW a \in updates', Own(a)
      PROVE  CodeAt(a.block)'
  <2>1. CASE a \in updates
    BY <1>1, <1>6, <2>1 DEF HistoryInv, CodeAt
  <2>2. CASE a \in U
    <3>1. \E c \in creations' : Genuine(c)
      BY <1>1, <1>6, <2>2 DEF Deployed
    <3>. QED
      BY <1>1, <1>2, <1>4, <2>2, <3>1 DEF CodeAt
  <2>. QED
    BY <1>1, <2>1, <2>2
<1>7. ASSUME NEW h \in 1..n, NEW u \in Users
      PROVE  LogsTellRoles(h, u)'
  <2>1. CASE h \in 1..height
    BY <1>2, <2>1 DEF HistoryInv, LogsTellRoles
  <2>. QED
    BY <1>1, <2>1
<1>. QED
  BY <1>2, <1>3, <1>4, <1>5, <1>6, <1>7 DEF HistoryInv

\* A block with no log of the contract's own tells the roles it told before.
LEMMA QuietBlockTells ==
  ASSUME ChainTypeOK, HistoryInv, NEW n \in Nat, n = height + 1,
         NEW U \in SUBSET Update, \A a \in U : a.block = n /\ ~Own(a),
         NEW C \in SUBSET Creation, \A c \in C : c.block = n,
         NEW roles \in [Users -> RoleSets], roles = Roles,
         Block(roles, U, C), NEW u \in Users
  PROVE  LogsTellRoles(n, u)'
<1>1. height \in Nat
  BY DEF ChainTypeOK, height
<1>a. \A a \in U : a.block = n
  OBVIOUS
<1>b. /\ stored'[n] = roles
      /\ Upto(n)' = Upto(height) \cup {a \in U : Own(a)}
  BY <1>a, BlockAdds
<1>2. /\ stored'[n] = roles
      /\ Upto(n)' = Upto(height)
  BY <1>b
<1>3. CASE height = 0
  <2>1. Upto(height) = {}
    BY <1>3 DEF HistoryInv, Upto
  <2>. QED
    BY <1>2, <1>3, <2>1 DEF LogsTellRoles, Roles, Nobody
<1>4. CASE height # 0
  <2>1. LogsTellRoles(height, u) /\ Roles = stored[height]
    BY <1>1, <1>4 DEF HistoryInv, Roles
  <2>. QED
    BY <1>2, <2>1 DEF LogsTellRoles
<1>. QED
  BY <1>3, <1>4

\* A block with logs of one user, the last of them carrying the roles stored for it,
\* tells the roles stored at it.
LEMMA UpdateBlockTells ==
  ASSUME ChainTypeOK, HistoryInv, NEW n \in Nat, n = height + 1,
         NEW v \in Users, NEW r \in RoleSets,
         NEW U \in SUBSET Update, \A a \in U : a.block = n /\ Own(a) /\ a.user = v,
         NEW l \in U, l.roles = r, \A a \in U : a # l => l.index > a.index,
         NEW C \in SUBSET Creation, \A c \in C : c.block = n,
         NEW roles \in [Users -> RoleSets],
         roles[v] = r, \A w \in Users : w # v => roles[w] = Roles[w],
         Block(roles, U, C), NEW u \in Users
  PROVE  LogsTellRoles(n, u)'
<1>1. height \in Nat /\ Roles \in [Users -> RoleSets]
  BY RolesAssumption DEF ChainTypeOK, height, Roles, Nobody
<1>2. \A a \in U : a.block = n
  OBVIOUS
<1>3. /\ stored'[n] = roles
      /\ Upto(n)' = Upto(height) \cup {a \in U : Own(a)}
  BY <1>2, BlockAdds
<1>4. Upto(n)' = Upto(height) \cup U
  BY <1>3
<1>5. \A a \in Upto(height) : a.block \in Nat /\ a.block < height + 1
  BY <1>1 DEF Upto, HistoryInv, height
<1>6. CASE u = v
  <2>1. \A b \in Upto(height) \cup U : b.user = u /\ b # l => Later(l, b)
    BY <1>1, <1>5 DEF Later
  <2>2. l \in Upto(n)' /\ l.user = u /\ IsLast(l, Upto(n)')
    BY <1>4, <1>6, <2>1 DEF IsLast
  <2>3. stored'[n][u] = l.roles
    BY <1>1, <1>3, <1>6
  <2>. QED
    BY <2>2, <2>3 DEF LogsTellRoles
<1>7. CASE u # v
  <2>1. stored'[n][u] = Roles[u]
    BY <1>1, <1>3, <1>7
  <2>2. CASE height = 0
    <3>1. Upto(height) = {}
      BY <2>2 DEF HistoryInv, Upto
    <3>. QED
      BY <1>4, <1>7, <2>1, <2>2, <3>1 DEF LogsTellRoles, Roles, Nobody
  <2>3. CASE height # 0
    <3>1. LogsTellRoles(height, u) /\ Roles = stored[height]
      BY <1>1, <2>3 DEF HistoryInv, Roles
    <3>. QED
      BY <1>4, <1>7, <2>1, <3>1 DEF LogsTellRoles, IsLast
  <2>. QED
    BY <2>2, <2>3
<1>. QED
  BY <1>6, <1>7

\* What growing the chain leaves as it was, and that its invariant survives.
LEMMA GrowKeeps ==
  ASSUME ChainTypeOK, HistoryInv, Grow
  PROVE  /\ ChainTypeOK' /\ HistoryInv'
         /\ height' = height + 1
         /\ updates \subseteq updates'
         /\ \A h \in 1..height : /\ stored'[h] = stored[h]
                                 /\ Upto(h)' = Upto(h)
                                 /\ CodeAt(h)' = CodeAt(h)
         /\ \A c \in creations' \ creations : c.block > height
<1>1. /\ height \in Nat
      /\ Nobody \in [Users -> RoleSets]
      /\ Roles \in [Users -> RoleSets]
  BY RolesAssumption DEF ChainTypeOK, height, Roles, Nobody
<1>2. PICK n \in Nat : n = height + 1
  BY <1>1
<1>3. ASSUME NEW roles \in [Users -> RoleSets],
             NEW U \in SUBSET Update, \A a \in U : a.block = n,
             NEW C \in SUBSET Creation, \A c \in C : c.block = n,
             Block(roles, U, C), HistoryInv'
      PROVE  /\ ChainTypeOK' /\ HistoryInv'
             /\ height' = height + 1
             /\ updates \subseteq updates'
             /\ \A h \in 1..height : /\ stored'[h] = stored[h]
                                     /\ Upto(h)' = Upto(h)
                                     /\ CodeAt(h)' = CodeAt(h)
             /\ \A c \in creations' \ creations : c.block > height
  <2>1. /\ ChainTypeOK'
        /\ height' = n
        /\ \A h \in 1..height : /\ stored'[h] = stored[h]
                                /\ Upto(h)' = Upto(h)
                                /\ CodeAt(h)' = CodeAt(h)
    BY <1>2, <1>3, BlockAdds
  <2>2. updates' = updates \cup U /\ creations' = creations \cup C
    BY <1>3 DEF Block
  <2>. QED
    BY <1>1, <1>2, <1>3, <2>1, <2>2
<1>4. /\ \A e \in Emitter, u \in Users, r \in RoleSets, i \in {1, 2} :
           /\ RoleLog(i, e, u, r) \in Update
           /\ RoleLog(i, e, u, r).block = n
           /\ RoleLog(i, e, u, r).index = i
           /\ RoleLog(i, e, u, r).from = e
           /\ RoleLog(i, e, u, r).user = u
           /\ RoleLog(i, e, u, r).roles = r
      /\ \A e \in Emitter, q \in {Request, Other} :
           /\ CreationLog(e, q) \in Creation
           /\ CreationLog(e, q).block = n
           /\ CreationLog(e, q).from = e
           /\ CreationLog(e, q).request = q
  BY <1>1, <1>2 DEF RoleLog, CreationLog, Update, Creation
<1>5. Request \in Emitter /\ \A f \in Factories : f \in Emitter /\ f # Request
  BY EmitterAssumption DEF Emitter
<1>6. CASE DeployBlock
  <2>1. ~Deployed
    BY <1>6 DEF DeployBlock
  <2>2. PICK f \in Factories, u \in Users, r \in RoleSets :
          Block([Nobody EXCEPT ![u] = r], {RoleLog(1, Request, u, r)}, {CreationLog(f, Request)})
    BY <1>6 DEF DeployBlock
  <2>3. PICK roles : roles = [Nobody EXCEPT ![u] = r]
    OBVIOUS
  <2>4. PICK l, c : l = RoleLog(1, Request, u, r) /\ c = CreationLog(f, Request)
    OBVIOUS
  <2>5. roles \in [Users -> RoleSets]
    BY <1>1, <2>3
  <2>6. Block(roles, {l}, {c})
    BY <2>2, <2>3, <2>4
  <2>7. /\ l \in Update /\ l.block = n /\ Own(l) /\ l.user = u /\ l.roles = r
        /\ c \in Creation /\ c.block = n /\ Genuine(c)
    BY <1>4, <1>5, <2>4 DEF Own, Genuine
  <2>8. ASSUME NEW v \in Users
        PROVE  LogsTellRoles(n, v)'
    <3>1. height = 0 \/ stored[height] = Nobody
      <4>1. ASSUME height # 0, NEW w \in Users
            PROVE  stored[height][w] = NoRoles
        <5>1. LogsTellRoles(height, w)
          BY <1>1, <4>1 DEF HistoryInv
        <5>2. Upto(height) = {}
          BY <2>1 DEF HistoryInv, Upto, CodeAt, Deployed
        <5>. QED
          BY <5>1, <5>2 DEF LogsTellRoles
      <4>2. ASSUME height # 0
            PROVE  stored[height] \in [Users -> RoleSets]
        BY <1>1, <4>2 DEF ChainTypeOK, height
      <4>. QED
        BY <4>1, <4>2 DEF Nobody
    <3>2. Roles = Nobody
      BY <3>1 DEF Roles
    <3>3. roles[u] = r /\ \A w \in Users : w # u => roles[w] = Roles[w]
      BY <1>1, <2>3, <3>2
    <3>. QED
      BY <1>2, <2>5, <2>6, <2>7, <3>3, UpdateBlockTells
  <2>9. HistoryInv'
    BY <1>2, <2>1, <2>5, <2>6, <2>7, <2>8, BlockKeepsHistory
  <2>. QED
    BY <1>3, <2>5, <2>6, <2>7, <2>9
<1>7. CASE RolesBlock
  <2>1. Deployed
    BY <1>7 DEF RolesBlock
  <2>2. PICK u \in Users, r \in RoleSets, U \in SUBSET Update, l \in Update :
          /\ l \in U
          /\ Block([Roles EXCEPT ![u] = r], U, {})
          /\ \A a \in U : a.block = n /\ Own(a) /\ a.user = u
          /\ l.roles = r
          /\ \A a \in U : a # l => l.index > a.index
    <3>1. PICK u \in Users, r \in RoleSets, s \in RoleSets :
            \/ Block([Roles EXCEPT ![u] = r], {RoleLog(1, Request, u, r)}, {})
            \/ Block([Roles EXCEPT ![u] = s],
                     {RoleLog(1, Request, u, r), RoleLog(2, Request, u, s)}, {})
      BY <1>7 DEF RolesBlock
    <3>2. CASE Block([Roles EXCEPT ![u] = r], {RoleLog(1, Request, u, r)}, {})
      <4>1. PICK U, l : l = RoleLog(1, Request, u, r) /\ U = {l}
        OBVIOUS
      <4>2. Block([Roles EXCEPT ![u] = r], U, {})
        BY <3>2, <4>1
      <4>3. /\ l \in Update /\ U \in SUBSET Update /\ l \in U
            /\ \A a \in U : a.block = n /\ Own(a) /\ a.user = u
            /\ l.roles = r
            /\ \A a \in U : a # l => l.index > a.index
        BY <1>4, <1>5, <4>1 DEF Own
      <4>. QED
        BY <4>2, <4>3
    <3>3. CASE Block([Roles EXCEPT ![u] = s],
                     {RoleLog(1, Request, u, r), RoleLog(2, Request, u, s)}, {})
      <4>1. PICK U, k, l : /\ k = RoleLog(1, Request, u, r)
                           /\ l = RoleLog(2, Request, u, s)
                           /\ U = {k, l}
        OBVIOUS
      <4>2. Block([Roles EXCEPT ![u] = s], U, {})
        BY <3>3, <4>1
      <4>3. /\ l \in Update /\ U \in SUBSET Update /\ l \in U
            /\ \A a \in U : a.block = n /\ Own(a) /\ a.user = u
            /\ l.roles = s
            /\ \A a \in U : a # l => l.index > a.index
        BY <1>4, <1>5, <4>1 DEF Own
      <4>. QED
        BY <4>2, <4>3
    <3>. QED
      BY <3>1, <3>2, <3>3
  <2>3. PICK roles : roles = [Roles EXCEPT ![u] = r]
    OBVIOUS
  <2>4. roles \in [Users -> RoleSets] /\ Block(roles, U, {})
    BY <1>1, <2>2, <2>3
  <2>5. ASSUME NEW v \in Users
        PROVE  LogsTellRoles(n, v)'
    <3>1. roles[u] = r /\ \A w \in Users : w # u => roles[w] = Roles[w]
      BY <1>1, <2>3
    <3>. QED
      BY <1>2, <2>2, <2>4, <3>1, UpdateBlockTells
  <2>6. HistoryInv'
    BY <1>2, <2>1, <2>2, <2>4, <2>5, BlockKeepsHistory
  <2>7. /\ \A a \in U : a.block = n
        /\ {} \in SUBSET Creation /\ \A c \in {} : c.block = n
    BY <2>2
  <2>. QED
    BY <1>3, <2>4, <2>6, <2>7
<1>8. CASE NoiseBlock
  <2>1. PICK roles : roles = Roles
    OBVIOUS
  <2>2. PICK U \in SUBSET Update, C \in SUBSET Creation :
          /\ Block(Roles, U, C)
          /\ \A a \in U : a.block = n /\ ~Own(a)
          /\ \A c \in C : c.block = n /\ ~Genuine(c)
    <3>1. CASE \E f \in Factories, u \in Users, r \in RoleSets :
                 Block(Roles, {RoleLog(1, f, u, r)}, {})
      <4>1. PICK f \in Factories, u \in Users, r \in RoleSets :
              Block(Roles, {RoleLog(1, f, u, r)}, {})
        BY <3>1
      <4>. QED
        BY <1>4, <1>5, <4>1 DEF Own
    <3>2. CASE \E f \in Factories : Block(Roles, {}, {CreationLog(f, Other)})
      <4>1. PICK f \in Factories : Block(Roles, {}, {CreationLog(f, Other)})
        BY <3>2
      <4>. QED
        BY <1>4, <1>5, <4>1, EmitterAssumption DEF Genuine
    <3>3. CASE Block(Roles, {}, {CreationLog(Request, Request)})
      BY <1>4, <1>5, <3>3, EmitterAssumption DEF Genuine
    <3>. QED
      BY <1>8, <3>1, <3>2, <3>3 DEF NoiseBlock
  <2>3. roles \in [Users -> RoleSets] /\ Block(roles, U, C)
    BY <1>1, <2>1, <2>2
  <2>4. ASSUME NEW v \in Users
        PROVE  LogsTellRoles(n, v)'
    BY <1>2, <2>1, <2>2, <2>3, QuietBlockTells
  <2>5. HistoryInv'
    BY <1>2, <2>2, <2>3, <2>4, BlockKeepsHistory
  <2>. QED
    BY <1>3, <2>2, <2>3, <2>5
<1>. QED
  BY <1>6, <1>7, <1>8 DEF Grow

-----------------------------------------------------------------------------
(* The scan.                                                               *)

\* Every user's replayed roles are roles.
LEMMA ReplayType ==
  ASSUME TypeOK, HistoryInv, NEW h \in 1..height, NEW lo \in Nat
  PROVE  Replay({a \in Upto(h) : lo <= a.block}) \in [Users -> RoleSets]
<1>. DEFINE S == {a \in Upto(h) : lo <= a.block}
<1>1. ASSUME NEW u \in Users
      PROVE  RolesIn(S, u) \in RoleSets
  <2>1. RolesIn(S, u) = Replay(S)[u]
    BY DEF Replay
  <2>2. Replay(S)[u] \in {NoRoles, stored[h][u]}
    BY ReplayTells
  <2>3. stored[h][u] \in RoleSets
    BY DEF TypeOK, ChainTypeOK, height
  <2>. QED
    BY <2>1, <2>2, <2>3, RolesAssumption
<1>. QED
  BY <1>1 DEF Replay

\* The initial states satisfy the invariant.
LEMMA InvInit == Init => IInv
<1>. SUFFICES ASSUME Init
              PROVE  IInv
  OBVIOUS
<1>1. stored = <<>> /\ updates = {} /\ creations = {} /\ height = 0
  BY DEF Init, ChainInit, height
<1>2. Nobody \in [Users -> RoleSets]
  BY RolesAssumption DEF Nobody
<1>3. answer = NoAnswer /\ NoAnswer.kind = "none" /\ NoAnswer \in [kind : Kinds, holders : [Users -> RoleSets]]
  BY <1>2 DEF Init, NoAnswer, Kinds
<1>4. TypeOK
  BY <1>1, <1>3 DEF Init, TypeOK, ChainTypeOK
<1>5. HistoryInv
  BY <1>1 DEF HistoryInv
<1>. QED
  BY <1>3, <1>4, <1>5 DEF IInv, Init, ScanInv, ResolvedIsComplete, PartialIsSound, AgeDecides

\* A new block leaves the scan's invariant as it was: the scan is about its head.
LEMMA MineBlockKeeps == IInv /\ MineBlock => IInv'
<1>. SUFFICES ASSUME IInv, MineBlock
              PROVE  IInv'
  OBVIOUS
<1>1. TypeOK /\ HistoryInv /\ ScanInv /\ ResolvedIsComplete /\ PartialIsSound /\ AgeDecides
  BY DEF IInv
<1>2. ChainTypeOK /\ Grow /\ UNCHANGED scanVars
  BY <1>1 DEF MineBlock, TypeOK
<1>3. /\ ChainTypeOK' /\ HistoryInv'
      /\ height' = height + 1
      /\ updates \subseteq updates'
      /\ \A h \in 1..height : /\ stored'[h] = stored[h]
                              /\ Upto(h)' = Upto(h)
                              /\ CodeAt(h)' = CodeAt(h)
      /\ \A c \in creations' \ creations : c.block > height
  BY <1>1, <1>2, GrowKeeps
<1>4. pc' = pc /\ latest' = latest /\ to' = to /\ seen' = seen /\ answer' = answer
  BY <1>2 DEF scanVars
<1>5. height \in Nat /\ latest \in 0..height /\ to \in 0..latest
  BY <1>1 DEF TypeOK, ChainTypeOK, height
<1>6. TypeOK'
  BY <1>1, <1>3, <1>4, <1>5 DEF TypeOK
<1>7. \A h \in Int : h <= height => CodeAt(h)' = CodeAt(h)
  <2>1. creations \subseteq creations'
    BY <1>2 DEF Grow, DeployBlock, RolesBlock, NoiseBlock, Block
  <2>2. \A c \in creations' : c.block \in Nat
    BY <1>3 DEF ChainTypeOK, Creation
  <2>. QED
    BY <1>3, <1>5, <2>1, <2>2 DEF CodeAt
<1>8. Upto(latest)' = Upto(latest) \/ latest = 0
  BY <1>3, <1>4, <1>5
<1>9. ScanInv'
  <2>1. \A c \in creations' : c.block <= latest => c \in creations
    BY <1>3, <1>5 DEF ChainTypeOK, Creation
  <2>2. pc # "idle" => (latest \in 1..height /\ CodeAt(latest))'
    BY <1>1, <1>3, <1>4, <1>5 DEF ScanInv
  <2>3. pc \in {"probe", "scan"} =>
          /\ Earliest(latest) <= to
          /\ seen = {a \in Upto(latest)' : a.block > to}
          /\ \A c \in creations' : Genuine(c) /\ c.block <= latest => c.block <= to
    BY <1>1, <1>5, <1>8, <2>1 DEF ScanInv
  <2>. QED
    BY <1>1, <1>4, <2>2, <2>3 DEF ScanInv, Upto
<1>10. answer.kind # "none" => latest \in 1..height
  BY <1>1 DEF ScanInv
<1>11. ResolvedIsComplete' /\ PartialIsSound'
  BY <1>1, <1>3, <1>4, <1>10 DEF ResolvedIsComplete, PartialIsSound
<1>12. AgeDecides'
  <2>1. answer.kind # "none" => CodeAt(Earliest(latest) - 1)' = CodeAt(Earliest(latest) - 1)
    <3>1. Earliest(latest) \in 0..latest
      BY <1>5, EarliestBound
    <3>2. PICK e \in Int : e = Earliest(latest) - 1
      BY <1>5, <3>1
    <3>3. CodeAt(e)' = CodeAt(e)
      BY <1>5, <1>7, <3>1, <3>2
    <3>4. Earliest(latest)' - 1 = e
      BY <1>4, <3>2 DEF Earliest
    <3>. QED
      BY <3>2, <3>3, <3>4
  <2>. QED
    BY <1>1, <1>4, <2>1 DEF AgeDecides
<1>. QED
  BY <1>3, <1>6, <1>9, <1>11, <1>12 DEF IInv

\* A step that mines nothing leaves the chain's own facts as they were.
LEMMA ChainStays ==
  ASSUME ChainTypeOK, HistoryInv, UNCHANGED chainVars
  PROVE  ChainTypeOK' /\ HistoryInv'
<1>1. stored' = stored /\ updates' = updates /\ creations' = creations
  BY DEF chainVars
<1>2. ChainTypeOK'
  BY <1>1 DEF ChainTypeOK
<1>3. \A h : Upto(h)' = Upto(h) /\ CodeAt(h)' = CodeAt(h)
  BY <1>1 DEF Upto, CodeAt
<1>. QED
  BY <1>1, <1>2, <1>3 DEF HistoryInv, height, LogsTellRoles, CodeAt

\* Steps that read no logs keep the invariant: the head that is read is the chain's,
\* and the probe's block is the last one before the window.
LEMMA QuietStepKeeps ==
  IInv /\ (ReadHead \/ ProbeHit \/ ProbeMiss \/ ScanFails \/ Forget) => IInv'
<1>. SUFFICES ASSUME IInv, ReadHead \/ ProbeHit \/ ProbeMiss \/ ScanFails \/ Forget
              PROVE  IInv'
  OBVIOUS
<1>1. TypeOK /\ HistoryInv /\ ScanInv /\ ResolvedIsComplete /\ PartialIsSound /\ AgeDecides
  BY DEF IInv
<1>2. UNCHANGED chainVars
  BY DEF ReadHead, ProbeHit, ProbeMiss, ScanFails, Forget
<1>3. ChainTypeOK' /\ HistoryInv'
  BY <1>1, <1>2, ChainStays DEF TypeOK
<1>4. stored' = stored /\ updates' = updates /\ creations' = creations /\ height' = height
  BY <1>2 DEF chainVars, height
<1>5. height \in Nat /\ latest \in 0..height /\ to \in 0..latest
  BY <1>1 DEF TypeOK, ChainTypeOK, height
<1>6. Nobody \in [Users -> RoleSets]
  BY RolesAssumption DEF Nobody
<1>7. \A k \in Kinds : /\ [kind |-> k, holders |-> Nobody] \in [kind : Kinds, holders : [Users -> RoleSets]]
                       /\ [kind |-> k, holders |-> Nobody].kind = k
  BY <1>6
<1>8. NoAnswer \in [kind : Kinds, holders : [Users -> RoleSets]] /\ NoAnswer.kind = "none"
  BY <1>7 DEF NoAnswer, Kinds
<1>9. CASE ReadHead
  <2>1. /\ pc = "idle" /\ Deployed /\ latest' = height /\ to' = height
        /\ pc' \in {"probe", "scan"} /\ (pc' = "probe" => FailIfOld /\ height > MaxLookback)
        /\ seen' = seen /\ answer' = answer
    BY <1>9 DEF ReadHead
  <2>2. seen = {} /\ answer.kind = "none"
    BY <1>1, <2>1 DEF TypeOK, ScanInv
  <2>3. TypeOK'
    BY <1>1, <1>3, <1>4, <1>5, <2>1, <2>2 DEF TypeOK
  <2>4. \A a \in updates : a.block \in 1..height
    BY <1>1 DEF HistoryInv
  <2>5. \A c \in creations : c.block \in 1..height
    BY <1>1 DEF HistoryInv
  <2>6. height \in 1..height /\ CodeAt(height)
    BY <1>5, <2>1, <2>5 DEF Deployed, CodeAt
  <2>7. Earliest(height) \in 0..height
    BY <1>5, EarliestBound
  <2>8. {} = {a \in Upto(height) : a.block > height}
    BY <1>5, <2>4 DEF Upto
  <2>9. ScanInv'
    <3>1. (latest \in 1..height /\ CodeAt(latest))'
      BY <1>4, <2>1, <2>6 DEF CodeAt
    <3>2. Earliest(latest)' = Earliest(height) /\ Upto(latest)' = Upto(height)
      BY <1>4, <2>1 DEF Earliest, Upto
    <3>. QED
      BY <1>4, <1>5, <2>1, <2>2, <2>7, <2>8, <3>1, <3>2 DEF ScanInv
  <2>10. ResolvedIsComplete' /\ PartialIsSound' /\ AgeDecides'
    BY <2>1, <2>2 DEF ResolvedIsComplete, PartialIsSound, AgeDecides
  <2>. QED
    BY <1>3, <2>3, <2>9, <2>10 DEF IInv
<1>10. CASE ProbeHit
  <2>1. /\ pc = "probe" /\ CodeAt(ProbeBlock) /\ pc' = "done"
        /\ answer' = [kind |-> "probed", holders |-> Nobody]
        /\ latest' = latest /\ to' = to /\ seen' = seen
    BY <1>10 DEF ProbeHit
  <2>2. answer'.kind = "probed" /\ answer' \in [kind : Kinds, holders : [Users -> RoleSets]]
    BY <1>7, <2>1 DEF Kinds
  <2>3. TypeOK'
    BY <1>1, <1>3, <1>4, <2>1, <2>2 DEF TypeOK
  <2>4. ScanInv'
    BY <1>1, <1>4, <2>1 DEF ScanInv, CodeAt
  <2>5. Earliest(latest) - 1 = ProbeBlock
    BY <1>1, <2>1 DEF ScanInv, Earliest, ProbeBlock
  <2>6. CodeAt(Earliest(latest) - 1)'
    BY <1>4, <2>1, <2>5 DEF CodeAt, Earliest
  <2>7. ResolvedIsComplete' /\ PartialIsSound' /\ AgeDecides'
    BY <2>2, <2>6 DEF ResolvedIsComplete, PartialIsSound, AgeDecides
  <2>. QED
    BY <1>3, <2>3, <2>4, <2>7 DEF IInv
<1>11. CASE ProbeMiss
  <2>1. pc = "probe" /\ pc' = "scan" /\ latest' = latest /\ to' = to /\ seen' = seen /\ answer' = answer
    BY <1>11 DEF ProbeMiss
  <2>2. TypeOK'
    BY <1>1, <1>3, <1>4, <2>1 DEF TypeOK
  <2>3. answer.kind = "none"
    BY <1>1, <2>1 DEF ScanInv
  <2>4. ScanInv'
    BY <1>1, <1>4, <2>1, <2>3 DEF ScanInv, CodeAt, Earliest, Upto
  <2>5. ResolvedIsComplete' /\ PartialIsSound' /\ AgeDecides'
    BY <2>1, <2>3 DEF ResolvedIsComplete, PartialIsSound, AgeDecides
  <2>. QED
    BY <1>3, <2>2, <2>4, <2>5 DEF IInv
<1>12. CASE ScanFails
  <2>1. /\ pc = "scan" /\ pc' = "done"
        /\ answer' = [kind |-> "failed", holders |-> Nobody]
        /\ latest' = latest /\ to' = to /\ seen' = seen
    BY <1>12 DEF ScanFails
  <2>2. answer'.kind = "failed" /\ answer' \in [kind : Kinds, holders : [Users -> RoleSets]]
    BY <1>7, <2>1 DEF Kinds
  <2>3. TypeOK'
    BY <1>1, <1>3, <1>4, <2>1, <2>2 DEF TypeOK
  <2>4. ScanInv'
    BY <1>1, <1>4, <2>1 DEF ScanInv, CodeAt
  <2>5. ResolvedIsComplete' /\ PartialIsSound' /\ AgeDecides'
    BY <2>2 DEF ResolvedIsComplete, PartialIsSound, AgeDecides
  <2>. QED
    BY <1>3, <2>3, <2>4, <2>5 DEF IInv
<1>13. CASE Forget
  <2>1. pc' = "idle" /\ latest' = 0 /\ to' = 0 /\ seen' = {} /\ answer' = NoAnswer
    BY <1>13 DEF Forget
  <2>2. TypeOK'
    BY <1>3, <1>4, <1>5, <1>8, <2>1 DEF TypeOK
  <2>3. ScanInv' /\ ResolvedIsComplete' /\ PartialIsSound' /\ AgeDecides'
    BY <1>8, <2>1 DEF ScanInv, ResolvedIsComplete, PartialIsSound, AgeDecides
  <2>. QED
    BY <1>3, <2>2, <2>3 DEF IInv
<1>. QED
  BY <1>9, <1>10, <1>11, <1>12, <1>13

\* Reading a chunk gathers every own log from its first block to the head.
LEMMA ChunkGathers ==
  ASSUME IInv, pc = "scan"
  PROVE  /\ latest \in 1..height
         /\ Earliest(latest) \in 0..latest
         /\ From \in Earliest(latest)..to
         /\ Gathered = {a \in Upto(latest) : From <= a.block}
         /\ ~Found => \A c \in creations : Genuine(c) /\ c.block <= latest => c.block < From
<1>1. /\ latest \in 1..height /\ height \in Nat /\ to \in 0..latest
      /\ Earliest(latest) <= to
      /\ seen = {a \in Upto(latest) : a.block > to}
      /\ \A c \in creations : Genuine(c) /\ c.block <= latest => c.block <= to
  BY DEF IInv, ScanInv, TypeOK, ChainTypeOK, height
<1>2. Earliest(latest) \in 0..latest
  BY <1>1, EarliestBound
<1>3. From \in Earliest(latest)..to
  BY <1>1, <1>2, FromBound
<1>4. /\ \A a \in updates : a.block \in Nat
      /\ \A c \in creations : c.block \in Nat
  BY DEF IInv, TypeOK, ChainTypeOK, Update, Creation
<1>5. Gathered = {a \in Upto(latest) : From <= a.block}
  BY <1>1, <1>2, <1>3, <1>4 DEF Gathered, InChunk, Upto
<1>6. ~Found => \A c \in creations : Genuine(c) /\ c.block <= latest => c.block < From
  BY <1>1, <1>2, <1>3, <1>4 DEF Found, InChunk, Marks, Genuine
<1>. QED
  BY <1>1, <1>2, <1>3, <1>5, <1>6

\* The next chunk ends just below the one read, so no log is missed in between.
LEMMA ChunkOnKeeps == IInv /\ ChunkOn => IInv'
<1>. SUFFICES ASSUME IInv, ChunkOn
              PROVE  IInv'
  OBVIOUS
<1>1. /\ TypeOK /\ HistoryInv /\ ScanInv /\ ResolvedIsComplete /\ PartialIsSound /\ AgeDecides
      /\ height \in Nat /\ to \in 0..latest
  BY DEF IInv, TypeOK, ChainTypeOK, height
<1>2. /\ pc = "scan" /\ ~Found /\ ~LastChunk
      /\ seen' = Gathered /\ to' = From - 1
      /\ UNCHANGED chainVars /\ pc' = pc /\ latest' = latest /\ answer' = answer
  BY DEF ChunkOn
<1>3. ChainTypeOK' /\ HistoryInv'
  BY <1>1, <1>2, ChainStays DEF TypeOK
<1>4. stored' = stored /\ updates' = updates /\ creations' = creations /\ height' = height
  BY <1>2 DEF chainVars, height
<1>5. /\ latest \in 1..height
      /\ Earliest(latest) \in 0..latest
      /\ From \in Earliest(latest)..to
      /\ Gathered = {a \in Upto(latest) : From <= a.block}
      /\ \A c \in creations : Genuine(c) /\ c.block <= latest => c.block < From
  BY <1>2, ChunkGathers
<1>6. From > Earliest(latest) /\ to' \in 0..latest /\ Earliest(latest) <= to'
  BY <1>1, <1>2, <1>5 DEF LastChunk
<1>7. Gathered \subseteq updates
  BY <1>5 DEF Upto
<1>8. TypeOK'
  BY <1>1, <1>2, <1>3, <1>4, <1>6, <1>7 DEF TypeOK
<1>9. answer.kind = "none"
  BY <1>1, <1>2 DEF ScanInv
<1>10. ScanInv'
  <2>1. seen' = {a \in Upto(latest) : a.block > to'}
    <3>1. \A a \in updates : a.block \in Nat
      BY <1>1 DEF TypeOK, ChainTypeOK, Update
    <3>. QED
      BY <1>1, <1>2, <1>5, <3>1 DEF Upto
  <2>2. \A c \in creations : Genuine(c) /\ c.block <= latest => c.block <= to'
    <3>1. \A c \in creations : c.block \in Nat
      BY <1>1 DEF TypeOK, ChainTypeOK, Creation
    <3>. QED
      BY <1>1, <1>2, <1>5, <3>1
  <2>3. CodeAt(latest)
    BY <1>1, <1>2 DEF ScanInv
  <2>. QED
    BY <1>2, <1>4, <1>5, <1>6, <1>9, <2>1, <2>2, <2>3 DEF ScanInv, CodeAt, Earliest, Upto
<1>11. ResolvedIsComplete' /\ PartialIsSound' /\ AgeDecides'
  BY <1>2, <1>9 DEF ResolvedIsComplete, PartialIsSound, AgeDecides
<1>. QED
  BY <1>3, <1>8, <1>10, <1>11 DEF IInv

\* What the last chunk decides: the age of the contract, and role holders that are
\* complete when it is young enough and true when it is not.
LEMMA LastChunkTells ==
  ASSUME IInv, pc = "scan", Found \/ LastChunk
  PROVE  /\ Replay(Gathered) \in [Users -> RoleSets]
         /\ \A u \in Users : Replay(Gathered)[u] \in {NoRoles, stored[latest][u]}
         /\ IF ~Found /\ Earliest(latest) > 0
            THEN CodeAt(Earliest(latest) - 1)
            ELSE /\ ~CodeAt(Earliest(latest) - 1)
                 /\ Replay(Gathered) = stored[latest]
<1>1. TypeOK /\ HistoryInv /\ ScanInv
  BY DEF IInv
<1>2. height \in Nat /\ to \in 0..latest /\ stored \in Seq([Users -> RoleSets]) /\ CodeAt(latest)
  BY <1>1 DEF TypeOK, ChainTypeOK, height, ScanInv
<1>3. /\ latest \in 1..height
      /\ Earliest(latest) \in 0..latest
      /\ From \in Earliest(latest)..to
      /\ Gathered = {a \in Upto(latest) : From <= a.block}
      /\ ~Found => \A c \in creations : Genuine(c) /\ c.block <= latest => c.block < From
  BY ChunkGathers
<1>4. /\ \A a \in updates : a.block \in Nat
      /\ \A c \in creations : c.block \in 1..height
  BY <1>1 DEF TypeOK, ChainTypeOK, Update, HistoryInv
<1>5. From \in Nat
  BY <1>2, <1>3
<1>6. PICK d \in creations : Genuine(d) /\ d.block <= latest
  BY <1>2 DEF CodeAt
<1>7. \A c \in creations : Genuine(c) => c = d
  BY <1>1, <1>6 DEF HistoryInv
<1>8. Replay(Gathered) \in [Users -> RoleSets]
  BY <1>1, <1>3, <1>5, ReplayType
<1>9. \A u \in Users :
        /\ (\E a \in Gathered : a.user = u) => Replay(Gathered)[u] = stored[latest][u]
        /\ (\A a \in Gathered : a.user # u) => Replay(Gathered)[u] = NoRoles
  BY <1>1, <1>3, <1>5, ReplayTells
<1>10. CASE ~Found /\ Earliest(latest) > 0
  <2>1. From = Earliest(latest)
    BY <1>2, <1>3, <1>10 DEF LastChunk
  <2>2. d.block < Earliest(latest)
    BY <1>3, <1>6, <1>10, <2>1
  <2>3. CodeAt(Earliest(latest) - 1)
    BY <1>3, <1>4, <1>6, <2>2 DEF CodeAt
  <2>. QED
    BY <1>8, <1>9, <1>10, <2>3
<1>11. CASE Found \/ Earliest(latest) = 0
  <2>1. d.block >= From \/ From = 0
    <3>1. CASE Found
      BY <1>3, <1>4, <1>6, <1>7, <3>1 DEF Found, InChunk, Marks, Genuine
    <3>2. CASE ~Found
      BY <1>2, <1>3, <1>11, <3>2 DEF LastChunk
    <3>. QED
      BY <3>1, <3>2
  <2>2. ~CodeAt(Earliest(latest) - 1)
    BY <1>2, <1>3, <1>4, <1>6, <1>7, <2>1, <1>11 DEF CodeAt
  <2>3. \A a \in Upto(latest) : From <= a.block
    <3>1. \A a \in Upto(latest) : CodeAt(a.block)
      BY <1>1 DEF HistoryInv, Upto
    <3>2. \A a \in Upto(latest) : d.block <= a.block
      BY <1>7, <3>1 DEF CodeAt
    <3>. QED
      BY <1>4, <1>5, <2>1, <3>2 DEF Upto
  <2>4. Gathered = Upto(latest)
    BY <1>3, <2>3
  <2>5. ASSUME NEW u \in Users
        PROVE  Replay(Gathered)[u] = stored[latest][u]
    <3>1. LogsTellRoles(latest, u)
      BY <1>1, <1>3 DEF HistoryInv
    <3>. QED
      BY <1>9, <2>4, <3>1 DEF LogsTellRoles
  <2>6. stored[latest] \in [Users -> RoleSets]
    BY <1>2, <1>3 DEF height
  <2>7. Replay(Gathered) = stored[latest]
    BY <1>8, <2>5, <2>6
  <2>. QED
    BY <1>3, <1>8, <1>11, <2>2, <2>5, <2>7
<1>. QED
  BY <1>3, <1>10, <1>11

\* The chunk that ends the scan keeps the invariant.
LEMMA ChunkLastKeeps == IInv /\ ChunkLast => IInv'
<1>. SUFFICES ASSUME IInv, ChunkLast
              PROVE  IInv'
  OBVIOUS
<1>1. /\ TypeOK /\ HistoryInv /\ ScanInv
      /\ height \in Nat /\ to \in 0..latest
  BY DEF IInv, TypeOK, ChainTypeOK, height
<1>2. PICK k, H :
        /\ k = IF ~Found /\ Earliest(latest) > 0 THEN "tooOld" ELSE "resolved"
        /\ k \in {"tooOld", "resolved"} /\ H = Replay(Gathered)
        /\ answer' = [kind |-> k, holders |-> H]
  BY DEF ChunkLast
<1>3. /\ pc = "scan" /\ (Found \/ LastChunk)
      /\ seen' = Gathered /\ pc' = "done"
      /\ UNCHANGED chainVars /\ latest' = latest /\ to' = to
  BY DEF ChunkLast
<1>4. ChainTypeOK' /\ HistoryInv'
  BY <1>1, <1>3, ChainStays DEF TypeOK
<1>5. stored' = stored /\ updates' = updates /\ creations' = creations /\ height' = height
  BY <1>3 DEF chainVars, height
<1>6. /\ H \in [Users -> RoleSets]
      /\ \A u \in Users : H[u] \in {NoRoles, stored[latest][u]}
      /\ k = "tooOld" => CodeAt(Earliest(latest) - 1)
      /\ k = "resolved" => ~CodeAt(Earliest(latest) - 1) /\ H = stored[latest]
  BY <1>2, <1>3, LastChunkTells
<1>7. /\ answer'.kind = k /\ answer'.holders = H
      /\ answer' \in [kind : Kinds, holders : [Users -> RoleSets]]
  BY <1>2, <1>6 DEF Kinds
<1>8. Gathered \subseteq updates
  BY <1>3, ChunkGathers DEF Upto
<1>9. TypeOK'
  BY <1>1, <1>3, <1>4, <1>5, <1>7, <1>8 DEF TypeOK
<1>10. ScanInv'
  BY <1>1, <1>3, <1>5 DEF ScanInv, CodeAt
<1>11. ResolvedIsComplete' /\ PartialIsSound'
  BY <1>3, <1>5, <1>6, <1>7 DEF ResolvedIsComplete, PartialIsSound
<1>12. AgeDecides'
  <2>1. CodeAt(Earliest(latest) - 1)' <=> CodeAt(Earliest(latest) - 1)
    BY <1>3, <1>5 DEF CodeAt, Earliest
  <2>. QED
    BY <1>2, <1>6, <1>7, <2>1 DEF AgeDecides
<1>. QED
  BY <1>4, <1>9, <1>10, <1>11, <1>12 DEF IInv

-----------------------------------------------------------------------------
(* The theorems.                                                           *)

\* Every step keeps the invariant.
LEMMA InvStep == IInv /\ [Next]_vars => IInv'
<1>. SUFFICES ASSUME IInv, [Next]_vars
              PROVE  IInv'
  OBVIOUS
<1>1. CASE MineBlock
  BY <1>1, MineBlockKeeps
<1>2. CASE ReadHead \/ ProbeHit \/ ProbeMiss \/ ScanFails \/ Forget
  BY <1>2, QuietStepKeeps
<1>3. CASE ChunkOn
  BY <1>3, ChunkOnKeeps
<1>4. CASE ChunkLast
  BY <1>4, ChunkLastKeeps
<1>5. CASE UNCHANGED vars
  <2>1. UNCHANGED chainVars /\ UNCHANGED scanVars
    BY <1>5 DEF vars
  <2>2. ChainTypeOK' /\ HistoryInv'
    BY <2>1, ChainStays DEF IInv, TypeOK
  <2>3. TypeOK'
    BY <2>1, <2>2 DEF IInv, TypeOK, chainVars, scanVars, height
  <2>4. ScanInv'
    BY <2>1 DEF IInv, ScanInv, chainVars, scanVars, height, CodeAt, Earliest, Upto
  <2>5. ResolvedIsComplete' /\ PartialIsSound' /\ AgeDecides'
    BY <2>1 DEF IInv, ResolvedIsComplete, PartialIsSound, AgeDecides, chainVars, scanVars, CodeAt, Earliest
  <2>. QED
    BY <2>2, <2>3, <2>4, <2>5 DEF IInv
<1>. QED
  BY <1>1, <1>2, <1>3, <1>4, <1>5 DEF Next, Scan

\* The invariant holds throughout.
LEMMA InvHolds == Spec => []IInv
BY InvInit, InvStep, PTL DEF Spec

\* Every variable keeps its type, and no log is held for a scan not begun.
THEOREM TypeCorrect == Spec => []TypeOK
<1>1. IInv => TypeOK
  BY DEF IInv
<1>. QED
  BY <1>1, InvHolds, PTL

\* For every chain, window and block range, role holders reported as complete are
\* the ones the contract stores at the head the scan read.
THEOREM ResolvedIsCompleteCorrect == Spec => []ResolvedIsComplete
<1>1. IInv => ResolvedIsComplete
  BY DEF IInv
<1>. QED
  BY <1>1, InvHolds, PTL

\* The holders of a contract too old for the window are holders nonetheless.
THEOREM PartialIsSoundCorrect == Spec => []PartialIsSound
<1>1. IInv => PartialIsSound
  BY DEF IInv
<1>. QED
  BY <1>1, InvHolds, PTL

\* The archive probe and the scan draw the line at the same block.
THEOREM AgeDecidesCorrect == Spec => []AgeDecides
<1>1. IInv => AgeDecides
  BY DEF IInv
<1>. QED
  BY <1>1, InvHolds, PTL

\* A step of the scan is a step of the abstract answer, or changes nothing of it.
LEMMA StepImplements == IInv /\ [Next]_vars => [Abstract!Next]_(Abstract!vars)
<1>. SUFFICES ASSUME IInv, [Next]_vars
              PROVE  Abstract!Next \/ UNCHANGED Abstract!vars
  OBVIOUS
<1>1. CASE MineBlock
  <2>1. Grow /\ UNCHANGED scanVars
    BY <1>1 DEF MineBlock
  <2>2. Abstract!Grow
    BY <2>1 DEF Grow, DeployBlock, RolesBlock, NoiseBlock, Deployed, Genuine, Block, Roles, Nobody,
                RoleLog, CreationLog, height,
                Abstract!Grow, Abstract!DeployBlock, Abstract!RolesBlock, Abstract!NoiseBlock,
                Abstract!Deployed, Abstract!Genuine, Abstract!Block, Abstract!Roles,
                Abstract!Nobody, Abstract!RoleLog, Abstract!CreationLog, Abstract!height
  <2>. QED
    BY <2>1, <2>2 DEF scanVars, Abstract!Next, Abstract!Mine
<1>2. CASE ReadHead
  BY <1>2 DEF ReadHead, Abstract!Next, Abstract!Ask, Deployed, Genuine, height, chainVars,
              Abstract!Deployed, Abstract!Genuine, Abstract!height, Abstract!chainVars
<1>3. CASE ProbeMiss \/ ChunkOn
  BY <1>3 DEF ProbeMiss, ChunkOn, Abstract!vars, chainVars, Abstract!chainVars
<1>4. CASE ProbeHit
  <2>1. FailIfOld /\ CodeAt(Earliest(latest) - 1)
    BY <1>4, ScanAssumption DEF ProbeHit, IInv, TypeOK, ScanInv, Earliest, ProbeBlock
  <2>2. [kind |-> "probed", holders |-> Nobody] \in Abstract!RightAnswers(latest)
    BY <2>1 DEF CodeAt, Genuine, Earliest, Nobody, Abstract!RightAnswers, Abstract!CodeAt,
                Abstract!Genuine, Abstract!Earliest, Abstract!Nobody
  <2>. QED
    BY <1>4, <2>2 DEF ProbeHit, chainVars, Abstract!chainVars, Abstract!Next, Abstract!Reply
<1>5. CASE ScanFails
  <2>1. [kind |-> "failed", holders |-> Nobody] \in Abstract!RightAnswers(latest)
    BY DEF Nobody, Abstract!RightAnswers, Abstract!Nobody
  <2>. QED
    BY <1>5, <2>1 DEF ScanFails, chainVars, Abstract!chainVars, Abstract!Next, Abstract!Reply
<1>6. CASE ChunkLast
  <2>1. PICK k, H :
          /\ k = IF ~Found /\ Earliest(latest) > 0 THEN "tooOld" ELSE "resolved"
          /\ k \in {"tooOld", "resolved"} /\ H = Replay(Gathered)
          /\ answer' = [kind |-> k, holders |-> H]
    BY <1>6 DEF ChunkLast
  <2>2. /\ H \in [Users -> RoleSets]
        /\ \A u \in Users : H[u] \in {NoRoles, stored[latest][u]}
        /\ k = "tooOld" => CodeAt(Earliest(latest) - 1)
        /\ k = "resolved" => ~CodeAt(Earliest(latest) - 1) /\ H = stored[latest]
    BY <1>6, <2>1, LastChunkTells DEF ChunkLast
  <2>3. [kind |-> k, holders |-> H] \in Abstract!RightAnswers(latest)
    <3>1. CodeAt(Earliest(latest) - 1) <=> Abstract!CodeAt(Abstract!Earliest(latest) - 1)
      BY DEF CodeAt, Genuine, Earliest, Abstract!CodeAt, Abstract!Genuine, Abstract!Earliest
    <3>2. CASE k = "tooOld"
      BY <2>2, <3>1, <3>2 DEF Abstract!RightAnswers
    <3>3. CASE k = "resolved"
      BY <2>2, <3>1, <3>3 DEF Abstract!RightAnswers
    <3>. QED
      BY <2>1, <3>2, <3>3
  <2>. QED
    BY <1>6, <2>1, <2>3 DEF ChunkLast, chainVars, Abstract!chainVars, Abstract!Next, Abstract!Reply
<1>7. CASE Forget
  BY <1>7 DEF Forget, NoAnswer, Nobody, chainVars, Abstract!Next, Abstract!Forget, Abstract!NoAnswer,
              Abstract!Nobody, Abstract!chainVars
<1>8. CASE UNCHANGED vars
  BY <1>8 DEF vars, scanVars, chainVars, Abstract!vars, Abstract!chainVars
<1>. QED
  BY <1>1, <1>2, <1>3, <1>4, <1>5, <1>6, <1>7, <1>8 DEF Next, Scan

\* However many chunks the scan takes and whatever is mined between them, what it
\* does is what RoleAnswer does in one step: answer for the head it read.
THEOREM ImplementsRoleAnswerCorrect == Spec => ImplementsRoleAnswer
<1>1. Init => Abstract!Init
  BY DEF Init, ChainInit, NoAnswer, Nobody, Abstract!Init, Abstract!ChainInit, Abstract!NoAnswer,
         Abstract!Nobody
<1>. QED
  BY <1>1, InvHolds, StepImplements, PTL DEF Spec, ImplementsRoleAnswer, Abstract!Spec

-----------------------------------------------------------------------------
(* How far a scan is from its end.                                         *)

\* Every getLogs call that goes on takes BlockRange blocks off what is left of the
\* window, and there are some left (scanRoleHolders, the loop over toBlock): so no scan
\* makes more calls than the lookback has block ranges, and one.
ChunksUseUpTheWindow ==
  [][pc = "scan" /\ pc' = "scan" /\ ~UNCHANGED scanVars =>
       /\ latest' = latest
       /\ to' = to - BlockRange
       /\ Earliest(latest) <= to' /\ to - Earliest(latest) <= MaxLookback
    ]_vars

\* A chunk that goes on ends where the next begins, within the window.
LEMMA ChunkOnShortens ==
  IInv /\ ChunkOn =>
    /\ latest' = latest /\ to' = to - BlockRange
    /\ Earliest(latest) <= to' /\ to - Earliest(latest) <= MaxLookback
<1>. SUFFICES ASSUME IInv, ChunkOn
              PROVE  /\ latest' = latest /\ to' = to - BlockRange
                     /\ Earliest(latest) <= to' /\ to - Earliest(latest) <= MaxLookback
  OBVIOUS
<1>1. latest \in Nat /\ to \in 0..latest /\ Earliest(latest) <= to /\ pc = "scan"
  BY DEF IInv, TypeOK, ChainTypeOK, ScanInv, ChunkOn, height
<1>2. /\ Earliest(latest) \in 0..latest
      /\ latest - Earliest(latest) <= MaxLookback
  BY <1>1, ScanAssumption DEF Earliest
<1>3. From # Earliest(latest) /\ to' = From - 1 /\ latest' = latest
  BY DEF ChunkOn, LastChunk
<1>4. From = to - BlockRange + 1 /\ From > Earliest(latest)
  BY <1>3 DEF From
<1>. QED
  BY <1>1, <1>2, <1>3, <1>4, ScanAssumption

\* Only such a chunk keeps scanRoleHolders in its loop, whatever is mined meanwhile: the
\* blocks left to read shrink with every call, and the head of the scan is never moved.
THEOREM ScanIsBounded == Spec => ChunksUseUpTheWindow
<1>1. ASSUME IInv, [Next]_vars, pc = "scan", pc' = "scan", ~UNCHANGED scanVars
      PROVE  /\ latest' = latest /\ to' = to - BlockRange
             /\ Earliest(latest) <= to' /\ to - Earliest(latest) <= MaxLookback
  <2>1. ~MineBlock /\ ~UNCHANGED vars
    BY <1>1 DEF MineBlock, vars
  <2>2. ~ReadHead /\ ~ProbeHit /\ ~ProbeMiss /\ ~ChunkLast /\ ~ScanFails /\ ~Forget
    BY <1>1 DEF ReadHead, ProbeHit, ProbeMiss, ChunkLast, ScanFails, Forget
  <2>. QED
    BY <1>1, <2>1, <2>2, ChunkOnShortens DEF Next, Scan
<1>. QED
  BY <1>1, InvHolds, PTL DEF Spec, ChunksUseUpTheWindow

\* No getLogs call asks for an empty range or for more blocks than the provider is
\* configured to give, the last one included (scanRoleHolders, chunkStart).
ChunksFitTheRange == pc = "scan" => to - From + 1 \in 1..BlockRange

\* Every chunk scanRoleHolders asks for holds from one block to a full block range, for
\* any head, lookback and range: the last chunk of the window is cut, never empty.
THEOREM ChunksFit == Spec => []ChunksFitTheRange
<1>1. IInv => ChunksFitTheRange
  <2>. SUFFICES ASSUME IInv, pc = "scan" PROVE to - From + 1 \in 1..BlockRange
    BY DEF ChunksFitTheRange
  <2>1. latest \in Nat /\ to \in 0..latest /\ Earliest(latest) <= to
    BY DEF IInv, TypeOK, ChainTypeOK, ScanInv, height
  <2>2. Earliest(latest) \in Nat
    BY <2>1, ScanAssumption DEF Earliest
  <2>. QED
    BY <2>1, <2>2, ScanAssumption DEF From
<1>. QED
  BY <1>1, InvHolds, PTL
=============================================================================
