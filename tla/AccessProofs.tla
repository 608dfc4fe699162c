---------------------------- MODULE AccessProofs ----------------------------
(***************************************************************************)
(* Proofs about Access, for any number of administrators, roles,           *)
(* permissions and requests.                                               *)
(***************************************************************************)
EXTENDS Access, TLAPS

\* What a request carries at each of its steps.
Shape(x) ==
  /\ x.step \in {"stamped", "reading", "loaded", "answered"} => x.caller \in Admin
  /\ x.step \in {"decided", "locked"} =>
       /\ x.on \in Admin /\ x.op \in AccountOp
       /\ x.op \in {"create", "update", "roles"} => x.want \subseteq AnyRole
       /\ x.op = "direct" => x.want \subseteq Permission
  /\ x.step = "revoking" => x.on \in Admin
  /\ x.step \in {"roleDecided", "writing", "counted"} =>
       x.on \in Role /\ x.op \in RoleOp /\ x.want \subseteq Permission
  /\ x.step \in {"writing", "counted"} => x.op \in {"carry", "activate", "deactivate"}

Shapes == \A q \in Request : Shape(req[q])

\* The types of all but the requests.
SharedOK ==
  /\ status \in [Admin -> {"absent", "invited", "active", "disabled"}]
  /\ version \in [Admin -> Nat] /\ authz \in [Admin -> Nat]
  /\ roles \in [Admin -> SUBSET AnyRole] /\ direct \in [Admin -> SUBSET Permission]
  /\ standing \in [Role -> {"absent", "active", "inactive", "deleted"}]
  /\ roleVersion \in [Role -> Nat] /\ carries \in [Role -> SUBSET Permission]
  /\ lock \in [AnyRole -> Request \cup {Nobody}]
  /\ accepting \subseteq Admin /\ signedIn \subseteq Admin
  /\ cache \subseteq Entry

LEMMA Turned ==
  ASSUME req \in [Request -> Req], NEW q \in Request, NEW x, Turn(q, x)
  PROVE  /\ req'[q] = x /\ \A p \in Request \ {q} : req'[p] = req[p]
         /\ x \in Req => req' \in [Request -> Req]
         /\ x \in Req /\ Shape(x) /\ Shapes => Shapes'
  BY DEF Turn, Shapes, Shape

LEMMA IdleIsReq == Idle \in Req /\ Shape(Idle) /\ Idle.step = "idle"
  BY DEF Idle, Req, Shape, Step

LEMMA SharedStep == ASSUME TypeOK, Shapes, [Next]_vars PROVE SharedOK'
<1> USE AccessAssumption
    DEF TypeOK, Shapes, Shape, SharedOK, Right, AnyRole, accountVars, roleVars, At, Release, Ready, Bump, Changes
<1>1. ASSUME NEW a \in Admin, SignIn(a) PROVE SharedOK'
  BY <1>1 DEF SignIn
<1>2. ASSUME NEW a \in Admin, BeginSetup(a) PROVE SharedOK'
  BY <1>2 DEF BeginSetup
<1>3. ASSUME NEW a \in Admin, FinishSetup(a) PROVE SharedOK'
  BY <1>3 DEF FinishSetup
<1>4. ASSUME NEW q \in Request, Hit(q) PROVE SharedOK'
  BY <1>4 DEF Hit
<1>5. ASSUME NEW q \in Request, ReadGrants(q) PROVE SharedOK'
  BY <1>5 DEF ReadGrants
<1>6. ASSUME NEW q \in Request, ReadCarried(q) PROVE SharedOK'
  BY <1>6 DEF ReadCarried
<1>7. ASSUME NEW q \in Request, Store(q) PROVE SharedOK'
  <2>1. req[q] \in Req /\ req[q].caller \in Admin
    BY <1>7 DEF Store
  <2>2. [admin |-> req[q].caller, version |-> req[q].stamp, rights |-> req[q].rights] \in Entry
    BY <2>1 DEF Req, Entry
  <2>3. QED
    BY <1>7, <2>2 DEF Store
<1>8. ASSUME NEW q \in Request, LockSuper(q) PROVE SharedOK'
  BY <1>8 DEF LockSuper
<1>9. ASSUME NEW q \in Request, Create(q) PROVE SharedOK'
  BY <1>9 DEF Create
<1>10. ASSUME NEW q \in Request, Update(q) PROVE SharedOK'
  BY <1>10 DEF Update
<1>11. ASSUME NEW q \in Request, ReplaceRoles(q) PROVE SharedOK'
  BY <1>11 DEF ReplaceRoles
<1>12. ASSUME NEW q \in Request, ReplaceDirect(q) PROVE SharedOK'
  BY <1>12 DEF ReplaceDirect
<1>13. ASSUME NEW q \in Request, Disable(q) PROVE SharedOK'
  BY <1>13 DEF Disable
<1>14. ASSUME NEW q \in Request, Enable(q) PROVE SharedOK'
  BY <1>14 DEF Enable
<1>15. ASSUME NEW q \in Request, Revoke(q) PROVE SharedOK'
  BY <1>15 DEF Revoke
<1>16. ASSUME NEW q \in Request, Refuse(q) PROVE SharedOK'
  BY <1>16 DEF Refuse
<1>17. ASSUME NEW q \in Request, CreateRole(q) PROVE SharedOK'
  BY <1>17 DEF CreateRole
<1>18. ASSUME NEW q \in Request, DeleteRole(q) PROVE SharedOK'
  BY <1>18 DEF DeleteRole
<1>19. ASSUME NEW q \in Request, LockRole(q) PROVE SharedOK'
  BY <1>19 DEF LockRole
<1>20. ASSUME NEW q \in Request, ReadHolders(q) PROVE SharedOK'
  BY <1>20 DEF ReadHolders
<1>21. ASSUME NEW q \in Request, CommitRole(q) PROVE SharedOK'
  <2>1. req[q] \in Req /\ req[q].on \in Role /\ req[q].want \subseteq Permission /\ req[q].holders \subseteq Admin
    BY <1>21 DEF CommitRole, Req
  <2>2. QED
    BY <1>21, <2>1 DEF CommitRole
<1>22. ASSUME NEW q \in Request, Abandon(q) PROVE SharedOK'
  BY <1>22 DEF Abandon
<1>23. ASSUME NEW q \in Request, NEW a \in Admin, Arrive(q, a) PROVE SharedOK'
  BY <1>23 DEF Arrive
<1>24. ASSUME NEW q \in Request, NEW o \in AccountOp, NEW a \in Admin, NEW w \in (SUBSET AnyRole) \cup (SUBSET Permission),
            Decide(q, o, a, w) PROVE SharedOK'
  BY <1>24 DEF Decide
<1>25. ASSUME NEW q \in Request, NEW o \in RoleOp, NEW r \in Role, NEW w \in SUBSET Permission,
            DecideRole(q, o, r, w) PROVE SharedOK'
  BY <1>25 DEF DecideRole
<1>26. CASE UNCHANGED vars
  BY <1>26 DEF vars
<1> HIDE DEF SharedOK, TypeOK, Shapes
<1> QED
  BY <1>1, <1>2, <1>3, <1>4, <1>5, <1>6, <1>7, <1>8, <1>9, <1>10, <1>11, <1>12, <1>13, <1>14, <1>15,
     <1>16, <1>17, <1>18, <1>19, <1>20, <1>21, <1>22, <1>23, <1>24, <1>25, <1>26
  DEF Next, Resolve, ChangeAccount, ChangeRole

LEMMA RequestStep == ASSUME TypeOK, Shapes, [Next]_vars PROVE req' \in [Request -> Req] /\ Shapes'
<1> USE AccessAssumption DEF TypeOK, Shapes
<1>1. ASSUME NEW a \in Admin, SignIn(a) PROVE req' \in [Request -> Req] /\ Shapes'
  BY <1>1 DEF SignIn
<1>2. ASSUME NEW a \in Admin, BeginSetup(a) PROVE req' \in [Request -> Req] /\ Shapes'
  BY <1>2 DEF BeginSetup
<1>3. ASSUME NEW a \in Admin, FinishSetup(a) PROVE req' \in [Request -> Req] /\ Shapes'
  BY <1>3 DEF FinishSetup
<1>4. ASSUME NEW q \in Request, Hit(q) PROVE req' \in [Request -> Req] /\ Shapes'
  <2>1. PICK e \in cache : Turn(q, [req[q] EXCEPT !.step = "answered", !.rights = e.rights])
    BY <1>4 DEF Hit
  <2>2. e.rights \in SUBSET Right
    BY DEF Entry
  <2>3. req[q] \in Req /\ Shape(req[q]) /\ req[q].step = "stamped"
    BY <1>4 DEF Hit, At
  <2>4. [req[q] EXCEPT !.step = "answered", !.rights = e.rights] \in Req
    BY <2>2, <2>3 DEF Req, Step
  <2>5. Shape([req[q] EXCEPT !.step = "answered", !.rights = e.rights])
    BY <2>3 DEF Req, Shape
  <2>6. QED
    BY <2>1, <2>4, <2>5, Turned
<1>5. ASSUME NEW q \in Request, ReadGrants(q) PROVE req' \in [Request -> Req] /\ Shapes'
  <2>0. req[q] \in Req /\ Shape(req[q]) /\ req[q].step = "stamped"
    BY <1>5 DEF ReadGrants, At
  <2> DEFINE a == req[q].caller
             x == [req[q] EXCEPT !.step = "reading", !.held = roles[a], !.rights = direct[a]]
             y == [req[q] EXCEPT !.step = "loaded"]
  <2>1. a \in Admin /\ roles[a] \in SUBSET AnyRole /\ direct[a] \in SUBSET Right
    BY <2>0 DEF Shape, Right
  <2>2. x \in Req /\ Shape(x)
    BY <2>0, <2>1 DEF Req, Shape, Step
  <2>3. y \in Req /\ Shape(y)
    BY <2>0, <2>1 DEF Req, Shape, Step
  <2>4. Turn(q, x) \/ Turn(q, y)
    BY <1>5 DEF ReadGrants
  <2>5. QED
    BY <2>2, <2>3, <2>4, Turned
<1>6. ASSUME NEW q \in Request, ReadCarried(q) PROVE req' \in [Request -> Req] /\ Shapes'
  <2>0. req[q] \in Req /\ Shape(req[q]) /\ req[q].step = "reading"
    BY <1>6 DEF ReadCarried, At
  <2> DEFINE x == [req[q] EXCEPT !.step = "loaded", !.held = {}, !.rights = req[q].rights \cup Inherited(req[q].held)]
  <2>1. Inherited(req[q].held) \in SUBSET Right
    BY DEF Inherited, Right
  <2>2. x \in Req /\ Shape(x)
    BY <2>0, <2>1 DEF Req, Shape, Step
  <2>3. Turn(q, x)
    BY <1>6 DEF ReadCarried
  <2>4. QED
    BY <2>2, <2>3, Turned
<1>7. ASSUME NEW q \in Request, Store(q) PROVE req' \in [Request -> Req] /\ Shapes'
  <2>0. req[q] \in Req /\ Shape(req[q]) /\ req[q].step = "loaded"
    BY <1>7 DEF Store, At, Ready
  <2> DEFINE x == [req[q] EXCEPT !.step = "answered"]
  <2>2. x \in Req /\ Shape(x)
    BY <1>7, <2>0 DEF Store, Req, Shape, Idle, Step
  <2>3. Turn(q, x)
    BY <1>7 DEF Store, End
  <2>4. QED
    BY <2>2, <2>3, Turned, IdleIsReq
<1>8. ASSUME NEW q \in Request, LockSuper(q) PROVE req' \in [Request -> Req] /\ Shapes'
  <2>0. req[q] \in Req /\ Shape(req[q]) /\ req[q].step = "decided"
    BY <1>8 DEF LockSuper, At, Ready
  <2> DEFINE x == [req[q] EXCEPT !.step = "locked"]
  <2>2. x \in Req /\ Shape(x)
    BY <1>8, <2>0 DEF LockSuper, Req, Shape, Idle, Step
  <2>3. Turn(q, x) \/ Turn(q, Idle)
    BY <1>8 DEF LockSuper, End
  <2>4. QED
    BY <2>2, <2>3, Turned, IdleIsReq
<1>9. ASSUME NEW q \in Request, Create(q) PROVE req' \in [Request -> Req] /\ Shapes'
  <2>1. Turn(q, Idle)
    BY <1>9 DEF Create, End
  <2>2. QED
    BY <2>1, Turned, IdleIsReq
<1>10. ASSUME NEW q \in Request, Update(q) PROVE req' \in [Request -> Req] /\ Shapes'
  <2>0. req[q] \in Req /\ Shape(req[q]) /\ req[q].step \in {"decided", "locked"}
    BY <1>10 DEF Update, At, Ready
  <2> DEFINE x == [Idle EXCEPT !.step = "revoking", !.on = req[q].on]
  <2>2. x \in Req /\ Shape(x)
    BY <1>10, <2>0 DEF Update, Req, Shape, Idle, Step
  <2>3. Turn(q, x)
    BY <1>10 DEF Update, End
  <2>4. QED
    BY <2>2, <2>3, Turned, IdleIsReq
<1>11. ASSUME NEW q \in Request, ReplaceRoles(q) PROVE req' \in [Request -> Req] /\ Shapes'
  <2>1. Turn(q, Idle)
    BY <1>11 DEF ReplaceRoles, End
  <2>2. QED
    BY <2>1, Turned, IdleIsReq
<1>12. ASSUME NEW q \in Request, ReplaceDirect(q) PROVE req' \in [Request -> Req] /\ Shapes'
  <2>1. Turn(q, Idle)
    BY <1>12 DEF ReplaceDirect, End
  <2>2. QED
    BY <2>1, Turned, IdleIsReq
<1>13. ASSUME NEW q \in Request, Disable(q) PROVE req' \in [Request -> Req] /\ Shapes'
  <2>0. req[q] \in Req /\ Shape(req[q]) /\ req[q].step \in {"decided", "locked"}
    BY <1>13 DEF Disable, At, Ready
  <2> DEFINE x == [Idle EXCEPT !.step = "revoking", !.on = req[q].on]
  <2>2. x \in Req /\ Shape(x)
    BY <1>13, <2>0 DEF Disable, Req, Shape, Idle, Step
  <2>3. Turn(q, x)
    BY <1>13 DEF Disable, End
  <2>4. QED
    BY <2>2, <2>3, Turned, IdleIsReq
<1>14. ASSUME NEW q \in Request, Enable(q) PROVE req' \in [Request -> Req] /\ Shapes'
  <2>1. Turn(q, Idle)
    BY <1>14 DEF Enable, End
  <2>2. QED
    BY <2>1, Turned, IdleIsReq
<1>15. ASSUME NEW q \in Request, Revoke(q) PROVE req' \in [Request -> Req] /\ Shapes'
  <2>1. Turn(q, Idle)
    BY <1>15 DEF Revoke, End
  <2>2. QED
    BY <2>1, Turned, IdleIsReq
<1>16. ASSUME NEW q \in Request, Refuse(q) PROVE req' \in [Request -> Req] /\ Shapes'
  <2>1. Turn(q, Idle)
    BY <1>16 DEF Refuse, End
  <2>2. QED
    BY <2>1, Turned, IdleIsReq
<1>17. ASSUME NEW q \in Request, CreateRole(q) PROVE req' \in [Request -> Req] /\ Shapes'
  <2>1. Turn(q, Idle)
    BY <1>17 DEF CreateRole, End
  <2>2. QED
    BY <2>1, Turned, IdleIsReq
<1>18. ASSUME NEW q \in Request, DeleteRole(q) PROVE req' \in [Request -> Req] /\ Shapes'
  <2>1. Turn(q, Idle)
    BY <1>18 DEF DeleteRole, End
  <2>2. QED
    BY <2>1, Turned, IdleIsReq
<1>19. ASSUME NEW q \in Request, LockRole(q) PROVE req' \in [Request -> Req] /\ Shapes'
  <2>0. req[q] \in Req /\ Shape(req[q]) /\ req[q].step = "roleDecided"
    BY <1>19 DEF LockRole, At, Ready
  <2> DEFINE x == [req[q] EXCEPT !.step = "writing"]
  <2>2. x \in Req /\ Shape(x)
    BY <1>19, <2>0 DEF LockRole, Req, Shape, Idle, Step
  <2>3. Turn(q, x) \/ Turn(q, Idle)
    BY <1>19 DEF LockRole, End
  <2>4. QED
    BY <2>2, <2>3, Turned, IdleIsReq
<1>20. ASSUME NEW q \in Request, ReadHolders(q) PROVE req' \in [Request -> Req] /\ Shapes'
  <2>0. req[q] \in Req /\ Shape(req[q]) /\ req[q].step = "writing"
    BY <1>20 DEF ReadHolders, At
  <2>1. PICK h \in SUBSET Admin : Turn(q, [req[q] EXCEPT !.step = "counted", !.holders = h])
    BY <1>20 DEF ReadHolders, Holders
  <2> DEFINE x == [req[q] EXCEPT !.step = "counted", !.holders = h]
  <2>2. x \in Req /\ Shape(x)
    BY <2>0 DEF Req, Shape, Step
  <2>3. QED
    BY <2>1, <2>2, Turned
<1>21. ASSUME NEW q \in Request, CommitRole(q) PROVE req' \in [Request -> Req] /\ Shapes'
  <2>1. Turn(q, Idle)
    BY <1>21 DEF CommitRole, End
  <2>2. QED
    BY <2>1, Turned, IdleIsReq
<1>22. ASSUME NEW q \in Request, Abandon(q) PROVE req' \in [Request -> Req] /\ Shapes'
  <2>1. Turn(q, Idle)
    BY <1>22 DEF Abandon, End
  <2>2. QED
    BY <2>1, Turned, IdleIsReq
<1>23. ASSUME NEW q \in Request, NEW a \in Admin, Arrive(q, a) PROVE req' \in [Request -> Req] /\ Shapes'
  <2> DEFINE x == [Idle EXCEPT !.step = "stamped", !.caller = a, !.stamp = authz[a]]
  <2>1. x \in Req /\ Shape(x)
    BY DEF Idle, Req, Shape, Step
  <2>2. Turn(q, x) \/ UNCHANGED req
    BY <1>23 DEF Arrive
  <2>3. QED
    BY <2>1, <2>2, Turned
<1>24. ASSUME NEW q \in Request, NEW o \in AccountOp, NEW a \in Admin, NEW w \in (SUBSET AnyRole) \cup (SUBSET Permission),
            Decide(q, o, a, w) PROVE req' \in [Request -> Req] /\ Shapes'
  <2> DEFINE l == Super \in roles[a] /\ (o = "disable" \/ (o \in {"update", "roles"} /\ Super \notin w))
             x == [Idle EXCEPT !.step = "decided", !.op = o, !.on = a, !.want = w, !.seen = version[a], !.loses = l]
  <2>1. l \in BOOLEAN
    OBVIOUS
  <2>2. /\ o \in {"create", "update", "roles"} => w \subseteq AnyRole
        /\ o = "direct" => w \subseteq Permission
    BY <1>24 DEF Decide, Assignable
  <2> HIDE DEF l
  <2>3. w \in SUBSET (AnyRole \cup Permission)
    BY <1>24
  <2>4. x \in Req
    BY <2>1, <2>3 DEF Idle, Req, Step
  <2>5. Shape(x)
    BY <2>2 DEF Idle, Shape
  <2>6. Turn(q, x)
    BY <1>24 DEF Decide, l
  <2>7. QED
    BY <2>4, <2>5, <2>6, Turned
<1>25. ASSUME NEW q \in Request, NEW o \in RoleOp, NEW r \in Role, NEW w \in SUBSET Permission,
            DecideRole(q, o, r, w) PROVE req' \in [Request -> Req] /\ Shapes'
  <2> DEFINE x == [Idle EXCEPT !.step = "roleDecided", !.op = o, !.on = r, !.want = w, !.seen = roleVersion[r]]
  <2>1. x \in Req
    BY DEF Idle, Req, Step
  <2>2. Shape(x)
    BY DEF Idle, Shape
  <2>3. Turn(q, x)
    BY <1>25 DEF DecideRole
  <2>4. QED
    BY <2>1, <2>2, <2>3, Turned
<1>26. CASE UNCHANGED vars
  BY <1>26 DEF vars
<1> HIDE DEF TypeOK, Shapes
<1> QED
  BY <1>1, <1>2, <1>3, <1>4, <1>5, <1>6, <1>7, <1>8, <1>9, <1>10, <1>11, <1>12, <1>13, <1>14, <1>15,
     <1>16, <1>17, <1>18, <1>19, <1>20, <1>21, <1>22, <1>23, <1>24, <1>25, <1>26
  DEF Next, Resolve, ChangeAccount, ChangeRole

LEMMA TypeAndShape == Spec => [](TypeOK /\ Shapes)
<1>1. Init => TypeOK /\ Shapes
  BY IdleIsReq DEF Init, TypeOK, Shapes
<1>2. TypeOK /\ Shapes /\ [Next]_vars => (TypeOK /\ Shapes)'
  BY SharedStep, RequestStep DEF SharedOK, TypeOK
<1>3. QED
  BY <1>1, <1>2, PTL DEF Spec

\* Every variable keeps to its type: an account, a role and a request are
\* always in one of the states the schema and the handlers know.
THEOREM TypeCorrect == Spec => []TypeOK
  BY TypeAndShape, PTL

-----------------------------------------------------------------------------
\* What a step leaves to everyone but the request that takes it.

\* Nobody holds a role that is not there.
RolesExist == \A a \in Admin, r \in Role : r \in roles[a] => standing[r] \notin {"absent", "deleted"}

\* The version of an account's rights moves with them.
RightsMove ==
  \A a \in Admin :
    /\ authz'[a] \in Nat /\ authz'[a] >= authz[a]
    /\ authz'[a] = authz[a] /\ status[a] = "active" =>
         status'[a] = "active" /\ roles'[a] = roles[a] /\ direct'[a] = direct[a] /\ Effective(a)' = Effective(a)

\* The version of an account moves with its roles.
AccountsMove ==
  \A a \in Admin :
    /\ version'[a] \in Nat /\ version'[a] >= version[a]
    /\ status[a] # "absent" => status'[a] # "absent"
    /\ status[a] # "absent" /\ version'[a] = version[a] => roles'[a] = roles[a]

RolesMove == \A r \in Role : standing[r] # "absent" => standing'[r] # "absent"

\* What the row locks of request p protect.
Spares(p) ==
  /\ \A r \in AnyRole : lock[r] = p => lock'[r] = p
  /\ \A r \in Role : lock[r] = p /\ standing[r] # "absent" =>
       standing'[r] = standing[r] /\ Holders(r)' \subseteq Holders(r)
  /\ lock[Super] = p => \A b \in Admin : IsSuper(b) => IsSuper(b)'

\* A request that writes an account knows which roles there were, and whether
\* it takes the protected one away.
Changing(x) ==
  x.step \in {"decided", "locked"} =>
    /\ x.seen <= version[x.on]
    /\ x.op # "create" => status[x.on] # "absent"
    /\ x.op \in {"create", "update", "roles"} => \A r \in x.want \cap Role : standing[r] # "absent"
    /\ x.seen = version[x.on] /\ ~x.loses /\ Super \in roles[x.on] =>
         x.op # "disable" /\ (x.op \in {"update", "roles"} => Super \in x.want)

\* A request that has locked the protected role has seen another who holds it.
Guarding(q, x) ==
  x.step = "locked" => lock[Super] = q /\ \E b \in Admin \ {x.on} : IsSuper(b)

\* A request that changes a role has it locked, and knows everyone who holds it.
Altering(q, x) ==
  /\ x.step \in {"roleDecided", "writing", "counted"} /\ x.op # "createRole" => standing[x.on] # "absent"
  /\ x.step \in {"writing", "counted"} => lock[x.on] = q
  /\ x.step = "counted" =>
       \/ Holders(x.on) \subseteq x.holders
       \/ x.op # "carry" /\ standing[x.on] = (IF x.op = "activate" THEN "active" ELSE "inactive")

\* A request that resolves its caller under the present version has what the
\* database grants.
Resolving(x) ==
  x.step \in {"stamped", "reading", "loaded", "answered"} =>
    /\ x.stamp <= authz[x.caller]
    /\ x.stamp = authz[x.caller] =>
         /\ status[x.caller] = "active"
         /\ x.step = "reading" => x.held = roles[x.caller] /\ x.rights = direct[x.caller]
         /\ x.step \in {"loaded", "answered"} => x.rights = Effective(x.caller)

Sound(q, x) == Changing(x) /\ Guarding(q, x) /\ Altering(q, x) /\ Resolving(x)

AllSound == \A q \in Request : Sound(q, req[q])

EntrySound(e) ==
  /\ e.version <= authz[e.admin]
  /\ e.version = authz[e.admin] => status[e.admin] = "active" /\ e.rights = Effective(e.admin)

EntriesSound == \A e \in cache : EntrySound(e)

IInv == TypeOK /\ Shapes /\ RolesExist /\ AllSound /\ EntriesSound /\ SuperAdminRemains

LEMMA EffectiveSame ==
  ASSUME TypeOK, NEW a \in Admin, status'[a] = status[a], roles'[a] = roles[a], direct'[a] = direct[a],
         \A r \in roles[a] \cap Role : standing'[r] = standing[r] /\ carries'[r] = carries[r]
  PROVE  Effective(a)' = Effective(a)
<1>1. Super \in roles[a] => Effective(a)' = Effective(a)
  BY DEF Effective, Inherited
<1>2. ASSUME Super \notin roles[a] PROVE Effective(a)' = Effective(a)
  <2>1. {x \in roles[a] \cap Role : standing'[x] = "active"} = {x \in roles[a] \cap Role : standing[x] = "active"}
    OBVIOUS
  <2>2. UNION {carries'[r] : r \in {x \in roles[a] \cap Role : standing[x] = "active"}}
          = UNION {carries[r] : r \in {x \in roles[a] \cap Role : standing[x] = "active"}}
    OBVIOUS
  <2>3. QED
    BY <1>2, <2>1, <2>2 DEF Effective, Inherited
<1>3. QED
  BY <1>1, <1>2

LEMMA QuietRights ==
  ASSUME TypeOK, UNCHANGED <<accountVars, authz, roleVars>> PROVE RightsMove
  BY EffectiveSame DEF TypeOK, RightsMove, accountVars, roleVars

LEMMA RightsStep == ASSUME TypeOK, Shapes, RolesExist, AllSound, [Next]_vars PROVE RightsMove
<1> USE DEF TypeOK, Shapes, Shape, RightsMove, accountVars, roleVars, At, Ready, Bump
<1>1. ASSUME NEW a \in Admin, SignIn(a) PROVE RightsMove
  BY <1>1, QuietRights DEF SignIn
<1>2. ASSUME NEW a \in Admin, BeginSetup(a) PROVE RightsMove
  BY <1>2, QuietRights DEF BeginSetup
<1>3. ASSUME NEW a \in Admin, FinishSetup(a) PROVE RightsMove
  <2>1. \A b \in Admin : status[b] = "active" => Effective(b)' = Effective(b)
    BY <1>3, EffectiveSame DEF FinishSetup
  <2>2. QED
    BY <1>3, <2>1 DEF FinishSetup
<1>4. ASSUME NEW q \in Request, Hit(q) PROVE RightsMove
  BY <1>4, QuietRights DEF Hit
<1>5. ASSUME NEW q \in Request, ReadGrants(q) PROVE RightsMove
  BY <1>5, QuietRights DEF ReadGrants
<1>6. ASSUME NEW q \in Request, ReadCarried(q) PROVE RightsMove
  BY <1>6, QuietRights DEF ReadCarried
<1>7. ASSUME NEW q \in Request, Store(q) PROVE RightsMove
  BY <1>7, QuietRights DEF Store
<1>8. ASSUME NEW q \in Request, LockSuper(q) PROVE RightsMove
  BY <1>8, QuietRights DEF LockSuper
<1>9. ASSUME NEW q \in Request, Create(q) PROVE RightsMove
  <2>0. req[q].on \in Admin /\ \A b \in Admin \ {req[q].on} : status'[b] = status[b] /\ roles'[b] = roles[b] /\ direct'[b] = direct[b]
    BY <1>9 DEF Create
  <2>1. \A b \in Admin \ {req[q].on} : Effective(b)' = Effective(b)
    BY <1>9, <2>0, EffectiveSame DEF Create
  <2>2. QED
    BY <1>9, <2>0, <2>1 DEF Create
<1>10. ASSUME NEW q \in Request, Update(q) PROVE RightsMove
  <2>0. req[q].on \in Admin /\ \A b \in Admin \ {req[q].on} : status'[b] = status[b] /\ roles'[b] = roles[b] /\ direct'[b] = direct[b]
    BY <1>10 DEF Update
  <2>1. \A b \in Admin \ {req[q].on} : Effective(b)' = Effective(b)
    BY <1>10, <2>0, EffectiveSame DEF Update
  <2>2. QED
    BY <1>10, <2>0, <2>1 DEF Update
<1>11. ASSUME NEW q \in Request, ReplaceRoles(q) PROVE RightsMove
  <2>0. req[q].on \in Admin /\ \A b \in Admin \ {req[q].on} : status'[b] = status[b] /\ roles'[b] = roles[b] /\ direct'[b] = direct[b]
    BY <1>11 DEF ReplaceRoles
  <2>1. \A b \in Admin \ {req[q].on} : Effective(b)' = Effective(b)
    BY <1>11, <2>0, EffectiveSame DEF ReplaceRoles
  <2>2. QED
    BY <1>11, <2>0, <2>1 DEF ReplaceRoles
<1>12. ASSUME NEW q \in Request, ReplaceDirect(q) PROVE RightsMove
  <2>0. req[q].on \in Admin /\ \A b \in Admin \ {req[q].on} : status'[b] = status[b] /\ roles'[b] = roles[b] /\ direct'[b] = direct[b]
    BY <1>12 DEF ReplaceDirect
  <2>1. \A b \in Admin \ {req[q].on} : Effective(b)' = Effective(b)
    BY <1>12, <2>0, EffectiveSame DEF ReplaceDirect
  <2>2. QED
    BY <1>12, <2>0, <2>1 DEF ReplaceDirect
<1>13. ASSUME NEW q \in Request, Disable(q) PROVE RightsMove
  <2>0. req[q].on \in Admin /\ \A b \in Admin \ {req[q].on} : status'[b] = status[b] /\ roles'[b] = roles[b] /\ direct'[b] = direct[b]
    BY <1>13 DEF Disable
  <2>1. \A b \in Admin \ {req[q].on} : Effective(b)' = Effective(b)
    BY <1>13, <2>0, EffectiveSame DEF Disable
  <2>2. QED
    BY <1>13, <2>0, <2>1 DEF Disable
<1>14. ASSUME NEW q \in Request, Enable(q) PROVE RightsMove
  <2>0. req[q].on \in Admin /\ \A b \in Admin \ {req[q].on} : status'[b] = status[b] /\ roles'[b] = roles[b] /\ direct'[b] = direct[b]
    BY <1>14 DEF Enable
  <2>1. \A b \in Admin \ {req[q].on} : Effective(b)' = Effective(b)
    BY <1>14, <2>0, EffectiveSame DEF Enable
  <2>2. QED
    BY <1>14, <2>0, <2>1 DEF Enable
<1>15. ASSUME NEW q \in Request, Revoke(q) PROVE RightsMove
  BY <1>15, QuietRights DEF Revoke
<1>16. ASSUME NEW q \in Request, Refuse(q) PROVE RightsMove
  BY <1>16, QuietRights DEF Refuse
<1>17. ASSUME NEW q \in Request, CreateRole(q) PROVE RightsMove
  <2>1. req[q].on \in Role /\ \A b \in Admin : req[q].on \in roles[b] =>
          standing'[req[q].on] = standing[req[q].on] /\ carries'[req[q].on] = carries[req[q].on]
    BY <1>17 DEF CreateRole, RolesExist, Holders
  <2>2. \A b \in Admin : Effective(b)' = Effective(b)
    BY <1>17, <2>1, EffectiveSame DEF CreateRole
  <2>3. QED
    BY <1>17, <2>2 DEF CreateRole
<1>18. ASSUME NEW q \in Request, DeleteRole(q) PROVE RightsMove
  <2>1. req[q].on \in Role /\ \A b \in Admin : req[q].on \in roles[b] =>
          standing'[req[q].on] = standing[req[q].on] /\ carries'[req[q].on] = carries[req[q].on]
    BY <1>18 DEF DeleteRole, RolesExist, Holders
  <2>2. \A b \in Admin : Effective(b)' = Effective(b)
    BY <1>18, <2>1, EffectiveSame DEF DeleteRole
  <2>3. QED
    BY <1>18, <2>2 DEF DeleteRole
<1>19. ASSUME NEW q \in Request, LockRole(q) PROVE RightsMove
  BY <1>19, QuietRights DEF LockRole
<1>20. ASSUME NEW q \in Request, ReadHolders(q) PROVE RightsMove
  BY <1>20, QuietRights DEF ReadHolders
<1>21. ASSUME NEW q \in Request, CommitRole(q) PROVE RightsMove
  <2> DEFINE r == req[q].on
  <2>1. r \in Role /\ Altering(q, req[q])
    BY <1>21 DEF CommitRole, AllSound, Sound
  <2>2. ASSUME NEW b \in Admin, authz'[b] = authz[b] PROVE Effective(b)' = Effective(b)
    <3>1. b \notin req[q].holders
      BY <1>21, <2>2 DEF CommitRole
    <3>2. r \in roles[b] => standing'[r] = standing[r] /\ carries'[r] = carries[r]
      BY <1>21, <2>1, <3>1 DEF CommitRole, Altering, Holders
    <3>3. \A x \in Role \ {r} : standing'[x] = standing[x] /\ carries'[x] = carries[x]
      BY <1>21, <2>1 DEF CommitRole
    <3>4. QED
      BY <1>21, <3>2, <3>3, EffectiveSame DEF CommitRole
  <2>3. QED
    BY <1>21, <2>2 DEF CommitRole
<1>22. ASSUME NEW q \in Request, Abandon(q) PROVE RightsMove
  BY <1>22, QuietRights DEF Abandon
<1>23. ASSUME NEW q \in Request, NEW a \in Admin, Arrive(q, a) PROVE RightsMove
  BY <1>23, QuietRights DEF Arrive
<1>24. ASSUME NEW q \in Request, NEW o \in AccountOp, NEW a \in Admin, NEW w \in (SUBSET AnyRole) \cup (SUBSET Permission),
            Decide(q, o, a, w) PROVE RightsMove
  BY <1>24, QuietRights DEF Decide
<1>25. ASSUME NEW q \in Request, NEW o \in RoleOp, NEW r \in Role, NEW w \in SUBSET Permission,
            DecideRole(q, o, r, w) PROVE RightsMove
  BY <1>25, QuietRights DEF DecideRole
<1>26. CASE UNCHANGED vars
  BY <1>26, QuietRights DEF vars
<1> HIDE DEF TypeOK, Shapes, RolesExist, AllSound, RightsMove
<1> QED
  BY <1>1, <1>2, <1>3, <1>4, <1>5, <1>6, <1>7, <1>8, <1>9, <1>10, <1>11, <1>12, <1>13, <1>14, <1>15,
     <1>16, <1>17, <1>18, <1>19, <1>20, <1>21, <1>22, <1>23, <1>24, <1>25, <1>26
  DEF Next, Resolve, ChangeAccount, ChangeRole

LEMMA AccountsStep ==
  ASSUME TypeOK, Shapes, RolesExist, AllSound, [Next]_vars
  PROVE  AccountsMove /\ RolesMove /\ RolesExist'
<1> USE DEF TypeOK, Shapes, Shape, RolesExist, AccountsMove, RolesMove, accountVars, roleVars, At, Ready, Bump
<1>1. ASSUME NEW a \in Admin, SignIn(a) PROVE AccountsMove /\ RolesMove /\ RolesExist'
  BY <1>1 DEF SignIn
<1>2. ASSUME NEW a \in Admin, BeginSetup(a) PROVE AccountsMove /\ RolesMove /\ RolesExist'
  BY <1>2 DEF BeginSetup
<1>3. ASSUME NEW a \in Admin, FinishSetup(a) PROVE AccountsMove /\ RolesMove /\ RolesExist'
  BY <1>3 DEF FinishSetup
<1>4. ASSUME NEW q \in Request, Hit(q) PROVE AccountsMove /\ RolesMove /\ RolesExist'
  BY <1>4 DEF Hit
<1>5. ASSUME NEW q \in Request, ReadGrants(q) PROVE AccountsMove /\ RolesMove /\ RolesExist'
  BY <1>5 DEF ReadGrants
<1>6. ASSUME NEW q \in Request, ReadCarried(q) PROVE AccountsMove /\ RolesMove /\ RolesExist'
  BY <1>6 DEF ReadCarried
<1>7. ASSUME NEW q \in Request, Store(q) PROVE AccountsMove /\ RolesMove /\ RolesExist'
  BY <1>7 DEF Store
<1>8. ASSUME NEW q \in Request, LockSuper(q) PROVE AccountsMove /\ RolesMove /\ RolesExist'
  BY <1>8 DEF LockSuper
<1>9. ASSUME NEW q \in Request, Create(q) PROVE AccountsMove /\ RolesMove /\ RolesExist'
  <2>1. req[q].on \in Admin /\ Changing(req[q]) /\ req[q].want \subseteq AnyRole
    BY <1>9 DEF Create, AllSound, Sound
  <2>2. \A r \in req[q].want \cap Role : standing[r] \notin {"absent", "deleted"}
    BY <1>9, <2>1 DEF Create, Changing, Exists
  <2>3. QED
    BY <1>9, <2>1, <2>2 DEF Create
<1>10. ASSUME NEW q \in Request, Update(q) PROVE AccountsMove /\ RolesMove /\ RolesExist'
  <2>1. req[q].on \in Admin /\ Changing(req[q]) /\ req[q].want \subseteq AnyRole
    BY <1>10 DEF Update, AllSound, Sound
  <2>2. \A r \in req[q].want \cap Role : standing[r] \notin {"absent", "deleted"}
    BY <1>10, <2>1 DEF Update, Changing, Exists
  <2>3. QED
    BY <1>10, <2>1, <2>2 DEF Update
<1>11. ASSUME NEW q \in Request, ReplaceRoles(q) PROVE AccountsMove /\ RolesMove /\ RolesExist'
  <2>1. req[q].on \in Admin /\ Changing(req[q]) /\ req[q].want \subseteq AnyRole
    BY <1>11 DEF ReplaceRoles, AllSound, Sound
  <2>2. \A r \in req[q].want \cap Role : standing[r] \notin {"absent", "deleted"}
    BY <1>11, <2>1 DEF ReplaceRoles, Changing, Exists
  <2>3. QED
    BY <1>11, <2>1, <2>2 DEF ReplaceRoles
<1>12. ASSUME NEW q \in Request, ReplaceDirect(q) PROVE AccountsMove /\ RolesMove /\ RolesExist'
  BY <1>12 DEF ReplaceDirect
<1>13. ASSUME NEW q \in Request, Disable(q) PROVE AccountsMove /\ RolesMove /\ RolesExist'
  BY <1>13 DEF Disable
<1>14. ASSUME NEW q \in Request, Enable(q) PROVE AccountsMove /\ RolesMove /\ RolesExist'
  BY <1>14 DEF Enable
<1>15. ASSUME NEW q \in Request, Revoke(q) PROVE AccountsMove /\ RolesMove /\ RolesExist'
  BY <1>15 DEF Revoke
<1>16. ASSUME NEW q \in Request, Refuse(q) PROVE AccountsMove /\ RolesMove /\ RolesExist'
  BY <1>16 DEF Refuse
<1>17. ASSUME NEW q \in Request, CreateRole(q) PROVE AccountsMove /\ RolesMove /\ RolesExist'
  BY <1>17 DEF CreateRole
<1>18. ASSUME NEW q \in Request, DeleteRole(q) PROVE AccountsMove /\ RolesMove /\ RolesExist'
  BY <1>18 DEF DeleteRole, Holders
<1>19. ASSUME NEW q \in Request, LockRole(q) PROVE AccountsMove /\ RolesMove /\ RolesExist'
  BY <1>19 DEF LockRole
<1>20. ASSUME NEW q \in Request, ReadHolders(q) PROVE AccountsMove /\ RolesMove /\ RolesExist'
  BY <1>20 DEF ReadHolders
<1>21. ASSUME NEW q \in Request, CommitRole(q) PROVE AccountsMove /\ RolesMove /\ RolesExist'
  BY <1>21 DEF CommitRole
<1>22. ASSUME NEW q \in Request, Abandon(q) PROVE AccountsMove /\ RolesMove /\ RolesExist'
  BY <1>22 DEF Abandon
<1>23. ASSUME NEW q \in Request, NEW a \in Admin, Arrive(q, a) PROVE AccountsMove /\ RolesMove /\ RolesExist'
  BY <1>23 DEF Arrive
<1>24. ASSUME NEW q \in Request, NEW o \in AccountOp, NEW a \in Admin, NEW w \in (SUBSET AnyRole) \cup (SUBSET Permission),
            Decide(q, o, a, w) PROVE AccountsMove /\ RolesMove /\ RolesExist'
  BY <1>24 DEF Decide
<1>25. ASSUME NEW q \in Request, NEW o \in RoleOp, NEW r \in Role, NEW w \in SUBSET Permission,
            DecideRole(q, o, r, w) PROVE AccountsMove /\ RolesMove /\ RolesExist'
  BY <1>25 DEF DecideRole
<1>26. CASE UNCHANGED vars
  BY <1>26 DEF vars
<1> HIDE DEF TypeOK, Shapes, RolesExist, AllSound, AccountsMove, RolesMove
<1> QED
  BY <1>1, <1>2, <1>3, <1>4, <1>5, <1>6, <1>7, <1>8, <1>9, <1>10, <1>11, <1>12, <1>13, <1>14, <1>15,
     <1>16, <1>17, <1>18, <1>19, <1>20, <1>21, <1>22, <1>23, <1>24, <1>25, <1>26
  DEF Next, Resolve, ChangeAccount, ChangeRole

\* An action of the visitor's side, and an action of one request.
Outside == \E a \in Admin : SignIn(a) \/ BeginSetup(a) \/ FinishSetup(a)
StepOf(q) == Resolve(q) \/ ChangeAccount(q) \/ ChangeRole(q) \/ Abandon(q)

LEMMA LocksProtect ==
  ASSUME TypeOK, Shapes, RolesExist, AllSound
  PROVE  /\ Outside => \A p \in Request : Spares(p)
         /\ \A q \in Request : StepOf(q) => \A p \in Request \ {q} : Spares(p)
<1> USE DEF TypeOK, Shapes, Shape, RolesExist, Spares, IsSuper, Holders, accountVars, roleVars, At, Ready, Release, AnyRole
<1>1. ASSUME NEW a \in Admin, SignIn(a) PROVE \A p \in Request : Spares(p)
  BY <1>1 DEF SignIn
<1>2. ASSUME NEW a \in Admin, BeginSetup(a) PROVE \A p \in Request : Spares(p)
  BY <1>2 DEF BeginSetup
<1>3. ASSUME NEW a \in Admin, FinishSetup(a) PROVE \A p \in Request : Spares(p)
  BY <1>3 DEF FinishSetup
<1>4. ASSUME NEW q \in Request, Hit(q) PROVE \A p \in Request \ {q} : Spares(p)
  BY <1>4 DEF Hit
<1>5. ASSUME NEW q \in Request, ReadGrants(q) PROVE \A p \in Request \ {q} : Spares(p)
  BY <1>5 DEF ReadGrants
<1>6. ASSUME NEW q \in Request, ReadCarried(q) PROVE \A p \in Request \ {q} : Spares(p)
  BY <1>6 DEF ReadCarried
<1>7. ASSUME NEW q \in Request, Store(q) PROVE \A p \in Request \ {q} : Spares(p)
  BY <1>7 DEF Store
<1>8. ASSUME NEW q \in Request, LockSuper(q) PROVE \A p \in Request \ {q} : Spares(p)
  BY <1>8, AccessAssumption DEF LockSuper, Holders
<1>9. ASSUME NEW q \in Request, Create(q) PROVE \A p \in Request \ {q} : Spares(p)
  <2>1. req[q].on \in Admin /\ Nobody \notin Request
    BY <1>9, AccessAssumption DEF Create
  <2>2. \A p \in Request \ {q}, r \in Role : lock[r] = p => Holders(r)' \subseteq Holders(r)
    BY <1>9, <2>1 DEF Create, Refers, Holders
  <2>3. QED
    BY <1>9, <2>1, <2>2 DEF Create
<1>10. ASSUME NEW q \in Request, Update(q) PROVE \A p \in Request \ {q} : Spares(p)
  <2>1. req[q].on \in Admin /\ req[q].op \in AccountOp /\ Changing(req[q]) /\ Guarding(q, req[q]) /\ Nobody \notin Request
    BY <1>10, AccessAssumption DEF Update, AllSound, Sound
  <2> SUFFICES ASSUME NEW p \in Request \ {q} PROVE Spares(p)
    OBVIOUS
  <2>2. \A r \in AnyRole : lock[r] = p => lock'[r] = p
    BY <1>10 DEF Update
  <2>3. \A r \in Role : lock[r] = p => standing'[r] = standing[r] /\ Holders(r)' \subseteq Holders(r)
    BY <1>10, <2>1 DEF Update, Refers, Holders
  <2>4. ASSUME lock[Super] = p, NEW b \in Admin, IsSuper(b) PROVE IsSuper(b)'
    <3>1. ~req[q].loses
      BY <1>10, <2>1, <2>4 DEF Update, Guarding
    <3>2. CASE b = req[q].on
      BY <1>10, <2>1, <2>4, <3>1, <3>2 DEF Update, Current, Changing, IsSuper
    <3>3. CASE b # req[q].on
      BY <1>10, <2>4, <3>3 DEF Update, IsSuper
    <3>4. QED
      BY <3>2, <3>3
  <2>5. QED
    BY <2>2, <2>3, <2>4 DEF Spares
<1>11. ASSUME NEW q \in Request, ReplaceRoles(q) PROVE \A p \in Request \ {q} : Spares(p)
  <2>1. req[q].on \in Admin /\ req[q].op \in AccountOp /\ Changing(req[q]) /\ Guarding(q, req[q]) /\ Nobody \notin Request
    BY <1>11, AccessAssumption DEF ReplaceRoles, AllSound, Sound
  <2> SUFFICES ASSUME NEW p \in Request \ {q} PROVE Spares(p)
    OBVIOUS
  <2>2. \A r \in AnyRole : lock[r] = p => lock'[r] = p
    BY <1>11 DEF ReplaceRoles
  <2>3. \A r \in Role : lock[r] = p => standing'[r] = standing[r] /\ Holders(r)' \subseteq Holders(r)
    BY <1>11, <2>1 DEF ReplaceRoles, Refers, Holders
  <2>4. ASSUME lock[Super] = p, NEW b \in Admin, IsSuper(b) PROVE IsSuper(b)'
    <3>1. ~req[q].loses
      BY <1>11, <2>1, <2>4 DEF ReplaceRoles, Guarding
    <3>2. CASE b = req[q].on
      BY <1>11, <2>1, <2>4, <3>1, <3>2 DEF ReplaceRoles, Current, Changing, IsSuper
    <3>3. CASE b # req[q].on
      BY <1>11, <2>4, <3>3 DEF ReplaceRoles, IsSuper
    <3>4. QED
      BY <3>2, <3>3
  <2>5. QED
    BY <2>2, <2>3, <2>4 DEF Spares
<1>12. ASSUME NEW q \in Request, ReplaceDirect(q) PROVE \A p \in Request \ {q} : Spares(p)
  BY <1>12 DEF ReplaceDirect
<1>13. ASSUME NEW q \in Request, Disable(q) PROVE \A p \in Request \ {q} : Spares(p)
  <2>1. req[q].on \in Admin /\ req[q].op \in AccountOp /\ Changing(req[q]) /\ Guarding(q, req[q]) /\ Nobody \notin Request
    BY <1>13, AccessAssumption DEF Disable, AllSound, Sound
  <2> SUFFICES ASSUME NEW p \in Request \ {q} PROVE Spares(p)
    OBVIOUS
  <2>2. \A r \in AnyRole : lock[r] = p => lock'[r] = p
    BY <1>13 DEF Disable
  <2>3. \A r \in Role : lock[r] = p => standing'[r] = standing[r] /\ Holders(r)' \subseteq Holders(r)
    BY <1>13, <2>1 DEF Disable, Refers, Holders
  <2>4. ASSUME lock[Super] = p, NEW b \in Admin, IsSuper(b) PROVE IsSuper(b)'
    <3>1. ~req[q].loses
      BY <1>13, <2>1, <2>4 DEF Disable, Guarding
    <3>2. CASE b = req[q].on
      BY <1>13, <2>1, <2>4, <3>1, <3>2 DEF Disable, Current, Changing, IsSuper
    <3>3. CASE b # req[q].on
      BY <1>13, <2>4, <3>3 DEF Disable, IsSuper
    <3>4. QED
      BY <3>2, <3>3
  <2>5. QED
    BY <2>2, <2>3, <2>4 DEF Spares
<1>14. ASSUME NEW q \in Request, Enable(q) PROVE \A p \in Request \ {q} : Spares(p)
  BY <1>14 DEF Enable
<1>15. ASSUME NEW q \in Request, Revoke(q) PROVE \A p \in Request \ {q} : Spares(p)
  BY <1>15 DEF Revoke
<1>16. ASSUME NEW q \in Request, Refuse(q) PROVE \A p \in Request \ {q} : Spares(p)
  BY <1>16 DEF Refuse
<1>17. ASSUME NEW q \in Request, CreateRole(q) PROVE \A p \in Request \ {q} : Spares(p)
  BY <1>17 DEF CreateRole
<1>18. ASSUME NEW q \in Request, DeleteRole(q) PROVE \A p \in Request \ {q} : Spares(p)
  BY <1>18, AccessAssumption DEF DeleteRole, Holders
<1>19. ASSUME NEW q \in Request, LockRole(q) PROVE \A p \in Request \ {q} : Spares(p)
  BY <1>19, AccessAssumption DEF LockRole, Holders
<1>20. ASSUME NEW q \in Request, ReadHolders(q) PROVE \A p \in Request \ {q} : Spares(p)
  BY <1>20 DEF ReadHolders
<1>21. ASSUME NEW q \in Request, CommitRole(q) PROVE \A p \in Request \ {q} : Spares(p)
  <2>1. req[q].on \in Role /\ lock[req[q].on] = q
    BY <1>21 DEF CommitRole, AllSound, Sound, Altering
  <2>2. QED
    BY <1>21, <2>1 DEF CommitRole
<1>22. ASSUME NEW q \in Request, Abandon(q) PROVE \A p \in Request \ {q} : Spares(p)
  BY <1>22 DEF Abandon
<1>23. ASSUME NEW q \in Request, NEW a \in Admin, Arrive(q, a) PROVE \A p \in Request \ {q} : Spares(p)
  BY <1>23 DEF Arrive
<1>24. ASSUME NEW q \in Request, NEW o \in AccountOp, NEW a \in Admin, NEW w \in (SUBSET AnyRole) \cup (SUBSET Permission),
            Decide(q, o, a, w) PROVE \A p \in Request \ {q} : Spares(p)
  BY <1>24 DEF Decide
<1>25. ASSUME NEW q \in Request, NEW o \in RoleOp, NEW r \in Role, NEW w \in SUBSET Permission,
            DecideRole(q, o, r, w) PROVE \A p \in Request \ {q} : Spares(p)
  BY <1>25 DEF DecideRole
<1> HIDE DEF TypeOK, Shapes, RolesExist, AllSound, Spares
<1> QED
  BY <1>1, <1>2, <1>3, <1>4, <1>5, <1>6, <1>7, <1>8, <1>9, <1>10, <1>11, <1>12, <1>13, <1>14, <1>15,
     <1>16, <1>17, <1>18, <1>19, <1>20, <1>21, <1>22, <1>23, <1>24, <1>25
  DEF Outside, StepOf, Resolve, ChangeAccount, ChangeRole

LEMMA OthersSound ==
  ASSUME TypeOK, Shapes, RightsMove, AccountsMove, RolesMove, NEW p \in Request, Spares(p), req'[p] = req[p],
         Sound(p, req[p])
  PROVE  Sound(p, req[p])'
<1> DEFINE x == req[p]
<1>1. x \in Req /\ Shape(x)
  BY DEF TypeOK, Shapes
<1>2. x.seen \in Nat /\ x.stamp \in Nat
  BY <1>1 DEF Req
<1>3. Changing(x) => Changing(x)'
  BY <1>1, <1>2 DEF Changing, AccountsMove, RolesMove, Shape, TypeOK
<1>4. Guarding(p, x) => Guarding(p, x)'
  BY <1>1 DEF Guarding, Spares, AnyRole
<1>5. Altering(p, x) => Altering(p, x)'
  <2>1. CASE x.step \in {"roleDecided", "writing", "counted"}
    <3>1. x.on \in Role
      BY <1>1, <2>1 DEF Shape
    <3>2. QED
      BY <1>1, <2>1, <3>1 DEF Altering, Spares, RolesMove, AnyRole, Shape
  <2>2. CASE x.step \notin {"roleDecided", "writing", "counted"}
    BY <2>2 DEF Altering
  <2>3. QED
    BY <2>1, <2>2
<1>6. Resolving(x) => Resolving(x)'
  <2>1. CASE x.step \in {"stamped", "reading", "loaded", "answered"}
    <3>1. x.caller \in Admin
      BY <1>1, <2>1 DEF Shape
    <3>2. QED
      BY <1>2, <2>1, <3>1 DEF Resolving, RightsMove, TypeOK
  <2>2. CASE x.step \notin {"stamped", "reading", "loaded", "answered"}
    BY <2>2 DEF Resolving
  <2>3. QED
    BY <2>1, <2>2
<1>7. QED
  BY <1>3, <1>4, <1>5, <1>6 DEF Sound

LEMMA QuietEffective ==
  ASSUME TypeOK, UNCHANGED <<accountVars, roleVars>>, NEW a \in Admin PROVE Effective(a)' = Effective(a)
  BY EffectiveSame DEF accountVars, roleVars

LEMMA IdleSound == ASSUME TypeOK, NEW q \in Request, End(q) PROVE Sound(q, req[q])'
<1>1. req'[q] = Idle
  BY Turned DEF TypeOK, End
<1>2. Idle.step = "idle"
  BY IdleIsReq
<1>3. QED
  BY <1>1, <1>2 DEF Sound, Changing, Guarding, Altering, Resolving

LEMMA ActorSound ==
  ASSUME TypeOK, Shapes, AllSound, EntriesSound, NEW q \in Request, StepOf(q)
  PROVE  Sound(q, req[q])'
<1>1. CASE Hit(q)
  <2>1. PICK e \in cache : e.admin = req[q].caller /\ e.version = req[q].stamp
                  /\ Turn(q, [req[q] EXCEPT !.step = "answered", !.rights = e.rights])
    BY <1>1 DEF Hit
  <2> DEFINE x == [req[q] EXCEPT !.step = "answered", !.rights = e.rights]
  <2>2. req[q].step = "stamped" /\ req[q] \in Req /\ Shape(req[q]) /\ Resolving(req[q]) /\ EntrySound(e)
    BY <1>1 DEF Hit, At, AllSound, Sound, EntriesSound, TypeOK, Shapes
  <2>3. req'[q] = x
    BY <2>1, Turned DEF TypeOK
  <2>4. x.step = "answered" /\ x.caller = req[q].caller /\ x.stamp = req[q].stamp /\ x.rights = e.rights
    BY <2>2 DEF Req
  <2>5. UNCHANGED <<status, authz, roles, direct>> /\ x.caller \in Admin /\ \A b \in Admin : Effective(b)' = Effective(b)
    BY <1>1, <2>2, <2>4, QuietEffective DEF Hit, Shape, accountVars
  <2>6. Resolving(req[q])'
    BY <2>3, <2>1, <2>2, <2>4, <2>5 DEF Resolving, EntrySound
  <2>7. QED
    BY <2>3, <2>4, <2>6 DEF Sound, Changing, Guarding, Altering
<1>2. CASE ReadGrants(q)
  <2> DEFINE a == req[q].caller
             y == [req[q] EXCEPT !.step = "reading", !.held = roles[a], !.rights = direct[a]]
             z == [req[q] EXCEPT !.step = "loaded"]
             x == IF status[a] = "active" THEN y ELSE z
  <2>1. req[q].step = "stamped" /\ req[q] \in Req /\ Shape(req[q]) /\ Resolving(req[q])
    BY <1>2 DEF ReadGrants, At, AllSound, Sound, TypeOK, Shapes
  <2>2. req'[q] = x
    BY <1>2, Turned DEF ReadGrants, TypeOK
  <2>3. /\ y.step = "reading" /\ y.caller = a /\ y.stamp = req[q].stamp /\ y.held = roles[a] /\ y.rights = direct[a]
        /\ z.step = "loaded" /\ z.caller = a /\ z.stamp = req[q].stamp
    BY <2>1 DEF Req
  <2>4. UNCHANGED <<status, authz, roles, direct>>
    BY <1>2 DEF ReadGrants, accountVars
  <2>5. Resolving(req[q])'
    BY <2>2, <2>1, <2>3, <2>4 DEF Resolving
  <2>6. QED
    BY <2>2, <2>3, <2>5 DEF Sound, Changing, Guarding, Altering
<1>3. CASE ReadCarried(q)
  <2> DEFINE a == req[q].caller
             x == [req[q] EXCEPT !.step = "loaded", !.held = {}, !.rights = req[q].rights \cup Inherited(req[q].held)]
  <2>1. req[q].step = "reading" /\ req[q] \in Req /\ Shape(req[q]) /\ Resolving(req[q])
    BY <1>3 DEF ReadCarried, At, AllSound, Sound, TypeOK, Shapes
  <2>2. req'[q] = x
    BY <1>3, Turned DEF ReadCarried, TypeOK
  <2>3. x.step = "loaded" /\ x.caller = a /\ x.stamp = req[q].stamp /\ x.rights = req[q].rights \cup Inherited(req[q].held)
    BY <2>1 DEF Req
  <2>4. UNCHANGED <<status, authz, roles, direct>> /\ a \in Admin /\ \A b \in Admin : Effective(b)' = Effective(b)
    BY <1>3, <2>1, QuietEffective DEF ReadCarried, Shape, accountVars
  <2>5. x.stamp = authz[a] => x.rights = Effective(a)
    BY <2>1, <2>3 DEF Resolving, Effective
  <2>6. Resolving(req[q])'
    BY <2>2, <2>1, <2>3, <2>4, <2>5 DEF Resolving
  <2>7. QED
    BY <2>2, <2>3, <2>6 DEF Sound, Changing, Guarding, Altering
<1>4. CASE Store(q)
  <2> DEFINE x == [req[q] EXCEPT !.step = "answered"]
  <2>1. req[q].step = "loaded" /\ req[q] \in Req /\ Shape(req[q]) /\ Resolving(req[q])
    BY <1>4 DEF Store, At, AllSound, Sound, TypeOK, Shapes
  <2>2. req'[q] = x
    BY <1>4, Turned DEF Store, TypeOK
  <2>3. x.step = "answered" /\ x.caller = req[q].caller /\ x.stamp = req[q].stamp /\ x.rights = req[q].rights
    BY <2>1 DEF Req
  <2>4. UNCHANGED <<status, authz, roles, direct>> /\ x.caller \in Admin /\ \A b \in Admin : Effective(b)' = Effective(b)
    BY <1>4, <2>1, <2>3, QuietEffective DEF Store, Shape, accountVars
  <2>5. Resolving(req[q])'
    BY <2>2, <2>1, <2>3, <2>4 DEF Resolving
  <2>6. QED
    BY <2>2, <2>3, <2>5 DEF Sound, Changing, Guarding, Altering
<1>5. CASE LockSuper(q)
  <2> DEFINE x == [req[q] EXCEPT !.step = "locked"]
  <2>1. req[q].step = "decided" /\ req[q] \in Req /\ Changing(req[q])
    BY <1>5 DEF LockSuper, At, AllSound, Sound, TypeOK
  <2>2. CASE End(q)
    BY <2>2, IdleSound
  <2>3. ASSUME Turn(q, x), lock' = [lock EXCEPT ![Super] = q], \E b \in Admin \ {req[q].on} : IsSuper(b)
        PROVE  Sound(q, req[q])'
    <3>1. req'[q] = x
      BY <2>3, Turned DEF TypeOK
    <3>2. /\ x.step = "locked" /\ x.on = req[q].on /\ x.op = req[q].op /\ x.want = req[q].want
          /\ x.seen = req[q].seen /\ x.loses = req[q].loses
      BY <2>1 DEF Req
    <3>3. UNCHANGED <<status, version, roles, standing>> /\ lock'[Super] = q
      BY <1>5, <2>3 DEF LockSuper, accountVars, roleVars, TypeOK, AnyRole
    <3>4. Changing(req[q])'
      BY <3>1, <2>1, <3>2, <3>3 DEF Changing
    <3>5. Guarding(q, req[q])'
      BY <3>1, <2>3, <3>2, <3>3 DEF Guarding, IsSuper
    <3>6. QED
      BY <3>1, <3>2, <3>4, <3>5 DEF Sound, Altering, Resolving
  <2>4. QED
    BY <1>5, <2>2, <2>3 DEF LockSuper
<1>6. CASE Create(q)
  BY <1>6, IdleSound DEF Create
<1>7. CASE Update(q)
  <2> DEFINE x == [Idle EXCEPT !.step = "revoking", !.on = req[q].on]
  <2>1. req'[q] = x
    BY <1>7, Turned DEF Update, TypeOK
  <2>2. x.step = "revoking"
    BY DEF Idle
  <2>3. QED
    BY <2>1, <2>2 DEF Sound, Changing, Guarding, Altering, Resolving
<1>8. CASE ReplaceRoles(q)
  BY <1>8, IdleSound DEF ReplaceRoles
<1>9. CASE ReplaceDirect(q)
  BY <1>9, IdleSound DEF ReplaceDirect
<1>10. CASE Disable(q)
  <2> DEFINE x == [Idle EXCEPT !.step = "revoking", !.on = req[q].on]
  <2>1. req'[q] = x
    BY <1>10, Turned DEF Disable, TypeOK
  <2>2. x.step = "revoking"
    BY DEF Idle
  <2>3. QED
    BY <2>1, <2>2 DEF Sound, Changing, Guarding, Altering, Resolving
<1>11. CASE Enable(q)
  BY <1>11, IdleSound DEF Enable
<1>12. CASE Revoke(q)
  BY <1>12, IdleSound DEF Revoke
<1>13. CASE Refuse(q)
  BY <1>13, IdleSound DEF Refuse
<1>14. CASE CreateRole(q)
  BY <1>14, IdleSound DEF CreateRole
<1>15. CASE DeleteRole(q)
  BY <1>15, IdleSound DEF DeleteRole
<1>16. CASE LockRole(q)
  <2> DEFINE x == [req[q] EXCEPT !.step = "writing"]
  <2>1. req[q].step = "roleDecided" /\ req[q] \in Req /\ Shape(req[q]) /\ Altering(q, req[q])
    BY <1>16 DEF LockRole, At, AllSound, Sound, TypeOK, Shapes
  <2>2. CASE End(q)
    BY <2>2, IdleSound
  <2>3. ASSUME Turn(q, x), lock' = [lock EXCEPT ![req[q].on] = q] PROVE Sound(q, req[q])'
    <3>1. req'[q] = x
      BY <2>3, Turned DEF TypeOK
    <3>2. x.step = "writing" /\ x.on = req[q].on /\ x.op = req[q].op
      BY <2>1 DEF Req
    <3>3. standing' = standing /\ lock'[x.on] = q
      BY <1>16, <2>1, <2>3, <3>2 DEF LockRole, roleVars, TypeOK, AnyRole, Shape
    <3>4. Altering(q, req[q])'
      BY <3>1, <2>1, <3>2, <3>3 DEF Altering
    <3>5. QED
      BY <3>1, <3>2, <3>4 DEF Sound, Changing, Guarding, Resolving
  <2>4. QED
    BY <1>16, <2>2, <2>3 DEF LockRole
<1>17. CASE ReadHolders(q)
  <2> DEFINE r == req[q].on
             h == IF req[q].op # "carry" /\ standing[r] = (IF req[q].op = "activate" THEN "active" ELSE "inactive") THEN {} ELSE Holders(r)
             x == [req[q] EXCEPT !.step = "counted", !.holders = h]
  <2>1. req[q].step = "writing" /\ req[q] \in Req /\ Altering(q, req[q])
    BY <1>17 DEF ReadHolders, At, AllSound, Sound, TypeOK
  <2>2. req'[q] = x
    BY <1>17, Turned DEF ReadHolders, TypeOK
  <2>3. x.step = "counted" /\ x.on = r /\ x.op = req[q].op /\ x.holders = h
    BY <2>1 DEF Req
  <2>4. UNCHANGED <<standing, lock, roles>>
    BY <1>17 DEF ReadHolders, accountVars, roleVars
  <2>5. Altering(q, req[q])'
    BY <2>2, <2>1, <2>3, <2>4 DEF Altering, Holders
  <2>6. QED
    BY <2>2, <2>3, <2>5 DEF Sound, Changing, Guarding, Resolving
<1>18. CASE CommitRole(q)
  BY <1>18, IdleSound DEF CommitRole
<1>19. CASE Abandon(q)
  BY <1>19, IdleSound DEF Abandon
<1>20. ASSUME NEW a \in Admin, Arrive(q, a) PROVE Sound(q, req[q])'
  <2> DEFINE x == [Idle EXCEPT !.step = "stamped", !.caller = a, !.stamp = authz[a]]
  <2>1. x.step = "stamped" /\ x.caller = a /\ x.stamp = authz[a]
    BY DEF Idle
  <2>2. UNCHANGED <<status, authz>> /\ authz[a] \in Nat
    BY <1>20 DEF Arrive, accountVars, TypeOK
  <2>3. CASE status[a] = "active"
    <3>1. req'[q] = x
      BY <1>20, <2>3, Turned DEF Arrive, TypeOK
    <3>2. Resolving(req[q])'
      BY <3>1, <2>1, <2>2, <2>3 DEF Resolving
    <3>3. QED
      BY <2>1, <3>1, <3>2 DEF Sound, Changing, Guarding, Altering
  <2>4. CASE status[a] # "active"
    BY <1>20, <2>4 DEF Arrive, At, Sound, Changing, Guarding, Altering, Resolving
  <2>5. QED
    BY <2>3, <2>4
<1>21. ASSUME NEW o \in AccountOp, NEW a \in Admin, NEW w \in (SUBSET AnyRole) \cup (SUBSET Permission),
            Decide(q, o, a, w) PROVE Sound(q, req[q])'
  <2> DEFINE l == Super \in roles[a] /\ (o = "disable" \/ (o \in {"update", "roles"} /\ Super \notin w))
             x == [Idle EXCEPT !.step = "decided", !.op = o, !.on = a, !.want = w, !.seen = version[a], !.loses = l]
  <2>1. x.step = "decided" /\ x.op = o /\ x.on = a /\ x.want = w /\ x.seen = version[a] /\ x.loses = l
    BY DEF Idle
  <2>2. UNCHANGED <<status, version, roles, standing>> /\ version[a] \in Nat
    BY <1>21 DEF Decide, accountVars, roleVars, TypeOK
  <2>3. /\ o # "create" => status[a] # "absent"
        /\ o \in {"create", "update", "roles"} => \A r \in w \cap Role : standing[r] = "active"
    BY <1>21 DEF Decide, Assignable, AccountOp
  <2>4. req'[q] = x
    BY <1>21, Turned DEF Decide, TypeOK
  <2>5. ~l /\ Super \in roles[a] => o # "disable" /\ (o \in {"update", "roles"} => Super \in w)
    OBVIOUS
  <2> HIDE DEF l
  <2>6. /\ req'[q].step = "decided" /\ req'[q].op = o /\ req'[q].on = a /\ req'[q].want = w
        /\ req'[q].seen = version[a] /\ req'[q].loses = l
    BY <2>1, <2>4
  <2> HIDE DEF x
  <2>7. Changing(req[q])'
    BY <2>2, <2>3, <2>5, <2>6 DEF Changing
  <2>8. QED
    BY <2>6, <2>7 DEF Sound, Guarding, Altering, Resolving
<1>22. ASSUME NEW o \in RoleOp, NEW r \in Role, NEW w \in SUBSET Permission,
            DecideRole(q, o, r, w) PROVE Sound(q, req[q])'
  <2> DEFINE x == [Idle EXCEPT !.step = "roleDecided", !.op = o, !.on = r, !.want = w, !.seen = roleVersion[r]]
  <2>1. x.step = "roleDecided" /\ x.op = o /\ x.on = r
    BY DEF Idle
  <2>2. standing' = standing /\ (o # "createRole" => standing[r] # "absent")
    BY <1>22 DEF DecideRole, roleVars, RoleOp
  <2>3. req'[q] = x
    BY <1>22, Turned DEF DecideRole, TypeOK
  <2>4. QED
    BY <2>1, <2>2, <2>3 DEF Sound, Changing, Guarding, Altering, Resolving
<1> QED
  BY <1>1, <1>2, <1>3, <1>4, <1>5, <1>6, <1>7, <1>8, <1>9, <1>10, <1>11, <1>12, <1>13, <1>14, <1>15,
     <1>16, <1>17, <1>18, <1>19, <1>20, <1>21, <1>22
  DEF StepOf, Resolve, ChangeAccount, ChangeRole

LEMMA OnlyStoreFills == ASSUME [Next]_vars PROVE cache' = cache \/ \E q \in Request : Store(q)
<1>1. ASSUME NEW a \in Admin, SignIn(a) PROVE cache' = cache \/ \E p \in Request : Store(p)
  BY <1>1 DEF SignIn
<1>2. ASSUME NEW a \in Admin, BeginSetup(a) PROVE cache' = cache \/ \E p \in Request : Store(p)
  BY <1>2 DEF BeginSetup
<1>3. ASSUME NEW a \in Admin, FinishSetup(a) PROVE cache' = cache \/ \E p \in Request : Store(p)
  BY <1>3 DEF FinishSetup
<1>4. ASSUME NEW q \in Request, Hit(q) PROVE cache' = cache \/ \E p \in Request : Store(p)
  BY <1>4 DEF Hit
<1>5. ASSUME NEW q \in Request, ReadGrants(q) PROVE cache' = cache \/ \E p \in Request : Store(p)
  BY <1>5 DEF ReadGrants
<1>6. ASSUME NEW q \in Request, ReadCarried(q) PROVE cache' = cache \/ \E p \in Request : Store(p)
  BY <1>6 DEF ReadCarried
<1>7. ASSUME NEW q \in Request, Store(q) PROVE cache' = cache \/ \E p \in Request : Store(p)
  BY <1>7
<1>8. ASSUME NEW q \in Request, LockSuper(q) PROVE cache' = cache \/ \E p \in Request : Store(p)
  BY <1>8 DEF LockSuper
<1>9. ASSUME NEW q \in Request, Create(q) PROVE cache' = cache \/ \E p \in Request : Store(p)
  BY <1>9 DEF Create
<1>10. ASSUME NEW q \in Request, Update(q) PROVE cache' = cache \/ \E p \in Request : Store(p)
  BY <1>10 DEF Update
<1>11. ASSUME NEW q \in Request, ReplaceRoles(q) PROVE cache' = cache \/ \E p \in Request : Store(p)
  BY <1>11 DEF ReplaceRoles
<1>12. ASSUME NEW q \in Request, ReplaceDirect(q) PROVE cache' = cache \/ \E p \in Request : Store(p)
  BY <1>12 DEF ReplaceDirect
<1>13. ASSUME NEW q \in Request, Disable(q) PROVE cache' = cache \/ \E p \in Request : Store(p)
  BY <1>13 DEF Disable
<1>14. ASSUME NEW q \in Request, Enable(q) PROVE cache' = cache \/ \E p \in Request : Store(p)
  BY <1>14 DEF Enable
<1>15. ASSUME NEW q \in Request, Revoke(q) PROVE cache' = cache \/ \E p \in Request : Store(p)
  BY <1>15 DEF Revoke
<1>16. ASSUME NEW q \in Request, Refuse(q) PROVE cache' = cache \/ \E p \in Request : Store(p)
  BY <1>16 DEF Refuse
<1>17. ASSUME NEW q \in Request, CreateRole(q) PROVE cache' = cache \/ \E p \in Request : Store(p)
  BY <1>17 DEF CreateRole
<1>18. ASSUME NEW q \in Request, DeleteRole(q) PROVE cache' = cache \/ \E p \in Request : Store(p)
  BY <1>18 DEF DeleteRole
<1>19. ASSUME NEW q \in Request, LockRole(q) PROVE cache' = cache \/ \E p \in Request : Store(p)
  BY <1>19 DEF LockRole
<1>20. ASSUME NEW q \in Request, ReadHolders(q) PROVE cache' = cache \/ \E p \in Request : Store(p)
  BY <1>20 DEF ReadHolders
<1>21. ASSUME NEW q \in Request, CommitRole(q) PROVE cache' = cache \/ \E p \in Request : Store(p)
  BY <1>21 DEF CommitRole
<1>22. ASSUME NEW q \in Request, Abandon(q) PROVE cache' = cache \/ \E p \in Request : Store(p)
  BY <1>22 DEF Abandon
<1>23. ASSUME NEW q \in Request, NEW a \in Admin, Arrive(q, a) PROVE cache' = cache \/ \E p \in Request : Store(p)
  BY <1>23 DEF Arrive
<1>24. ASSUME NEW q \in Request, NEW o \in AccountOp, NEW a \in Admin, NEW w \in (SUBSET AnyRole) \cup (SUBSET Permission),
            Decide(q, o, a, w) PROVE cache' = cache \/ \E p \in Request : Store(p)
  BY <1>24 DEF Decide
<1>25. ASSUME NEW q \in Request, NEW o \in RoleOp, NEW r \in Role, NEW w \in SUBSET Permission,
            DecideRole(q, o, r, w) PROVE cache' = cache \/ \E p \in Request : Store(p)
  BY <1>25 DEF DecideRole
<1>26. CASE UNCHANGED vars
  BY <1>26 DEF vars
<1> QED
  BY <1>1, <1>2, <1>3, <1>4, <1>5, <1>6, <1>7, <1>8, <1>9, <1>10, <1>11, <1>12, <1>13, <1>14, <1>15,
     <1>16, <1>17, <1>18, <1>19, <1>20, <1>21, <1>22, <1>23, <1>24, <1>25, <1>26
  DEF Next, Resolve, ChangeAccount, ChangeRole

LEMMA EntriesStep ==
  ASSUME TypeOK, Shapes, AllSound, EntriesSound, RightsMove, [Next]_vars PROVE EntriesSound'
<1>1. ASSUME NEW e \in cache PROVE EntrySound(e)'
  <2>1. e.admin \in Admin /\ e.version \in Nat
    BY DEF TypeOK, Entry
  <2>2. QED
    BY <1>1, <2>1 DEF EntriesSound, EntrySound, RightsMove, TypeOK
<1>2. CASE cache' = cache
  BY <1>1, <1>2 DEF EntriesSound
<1>3. ASSUME NEW q \in Request, Store(q) PROVE EntriesSound'
  <2> DEFINE n == [admin |-> req[q].caller, version |-> req[q].stamp, rights |-> req[q].rights]
  <2>1. Resolving(req[q]) /\ req[q].caller \in Admin /\ req[q].step = "loaded"
    BY <1>3 DEF Store, At, AllSound, Sound, Shapes, Shape
  <2>2. UNCHANGED <<status, authz>> /\ Effective(req[q].caller)' = Effective(req[q].caller)
    <3>1. UNCHANGED <<accountVars, authz, roleVars>> /\ req'[q].caller = req[q].caller
      BY <1>3, Turned DEF Store, TypeOK, Req
    <3>2. QED
      BY <2>1, <3>1, QuietEffective DEF accountVars
  <2>3. PICK c : c = n
    OBVIOUS
  <2>4. c.admin = req[q].caller /\ c.version = req[q].stamp /\ c.rights = req[q].rights
    BY <2>3
  <2>5. EntrySound(c)'
    <3>1. \A b \in Admin : Effective(b)' = Effective(b)
      BY <1>3, QuietEffective DEF Store
    <3>2. QED
      BY <2>1, <2>2, <2>4, <3>1 DEF EntrySound, Resolving
  <2>6. \A e \in cache' : e \in cache \/ e = c
    BY <1>3, <2>3 DEF Store
  <2>7. QED
    BY <1>1, <2>5, <2>6 DEF EntriesSound
<1>4. QED
  BY <1>2, <1>3, OnlyStoreFills

LEMMA SuperStep == ASSUME TypeOK, Shapes, AllSound, SuperAdminRemains, [Next]_vars PROVE SuperAdminRemains'
<1> USE DEF TypeOK, Shapes, Shape, SuperAdminRemains, IsSuper, accountVars, roleVars, At, Ready, AnyRole
<1>1. ASSUME NEW a \in Admin, SignIn(a) PROVE SuperAdminRemains'
  BY <1>1 DEF SignIn
<1>2. ASSUME NEW a \in Admin, BeginSetup(a) PROVE SuperAdminRemains'
  BY <1>2 DEF BeginSetup
<1>3. ASSUME NEW a \in Admin, FinishSetup(a) PROVE SuperAdminRemains'
  BY <1>3 DEF FinishSetup
<1>4. ASSUME NEW q \in Request, Hit(q) PROVE SuperAdminRemains'
  BY <1>4 DEF Hit
<1>5. ASSUME NEW q \in Request, ReadGrants(q) PROVE SuperAdminRemains'
  BY <1>5 DEF ReadGrants
<1>6. ASSUME NEW q \in Request, ReadCarried(q) PROVE SuperAdminRemains'
  BY <1>6 DEF ReadCarried
<1>7. ASSUME NEW q \in Request, Store(q) PROVE SuperAdminRemains'
  BY <1>7 DEF Store
<1>8. ASSUME NEW q \in Request, LockSuper(q) PROVE SuperAdminRemains'
  BY <1>8 DEF LockSuper
<1>9. ASSUME NEW q \in Request, Create(q) PROVE SuperAdminRemains'
  BY <1>9 DEF Create
<1>10. ASSUME NEW q \in Request, Update(q) PROVE SuperAdminRemains'
  <2>1. req[q].on \in Admin /\ req[q].op \in AccountOp /\ Changing(req[q]) /\ Guarding(q, req[q])
    BY <1>10 DEF Update, AllSound, Sound
  <2>2. CASE req[q].loses
    BY <1>10, <2>1, <2>2 DEF Update, Guarding
  <2>3. CASE ~req[q].loses
    BY <1>10, <2>1, <2>3 DEF Update, Changing, Current
  <2>4. QED
    BY <2>2, <2>3
<1>11. ASSUME NEW q \in Request, ReplaceRoles(q) PROVE SuperAdminRemains'
  <2>1. req[q].on \in Admin /\ req[q].op \in AccountOp /\ Changing(req[q]) /\ Guarding(q, req[q])
    BY <1>11 DEF ReplaceRoles, AllSound, Sound
  <2>2. CASE req[q].loses
    BY <1>11, <2>1, <2>2 DEF ReplaceRoles, Guarding
  <2>3. CASE ~req[q].loses
    BY <1>11, <2>1, <2>3 DEF ReplaceRoles, Changing, Current
  <2>4. QED
    BY <2>2, <2>3
<1>12. ASSUME NEW q \in Request, ReplaceDirect(q) PROVE SuperAdminRemains'
  BY <1>12 DEF ReplaceDirect
<1>13. ASSUME NEW q \in Request, Disable(q) PROVE SuperAdminRemains'
  <2>1. req[q].on \in Admin /\ req[q].op \in AccountOp /\ Changing(req[q]) /\ Guarding(q, req[q])
    BY <1>13 DEF Disable, AllSound, Sound
  <2>2. CASE req[q].loses
    BY <1>13, <2>1, <2>2 DEF Disable, Guarding
  <2>3. CASE ~req[q].loses
    BY <1>13, <2>1, <2>3 DEF Disable, Changing, Current
  <2>4. QED
    BY <2>2, <2>3
<1>14. ASSUME NEW q \in Request, Enable(q) PROVE SuperAdminRemains'
  BY <1>14 DEF Enable
<1>15. ASSUME NEW q \in Request, Revoke(q) PROVE SuperAdminRemains'
  BY <1>15 DEF Revoke
<1>16. ASSUME NEW q \in Request, Refuse(q) PROVE SuperAdminRemains'
  BY <1>16 DEF Refuse
<1>17. ASSUME NEW q \in Request, CreateRole(q) PROVE SuperAdminRemains'
  BY <1>17 DEF CreateRole
<1>18. ASSUME NEW q \in Request, DeleteRole(q) PROVE SuperAdminRemains'
  BY <1>18 DEF DeleteRole
<1>19. ASSUME NEW q \in Request, LockRole(q) PROVE SuperAdminRemains'
  BY <1>19 DEF LockRole
<1>20. ASSUME NEW q \in Request, ReadHolders(q) PROVE SuperAdminRemains'
  BY <1>20 DEF ReadHolders
<1>21. ASSUME NEW q \in Request, CommitRole(q) PROVE SuperAdminRemains'
  BY <1>21 DEF CommitRole
<1>22. ASSUME NEW q \in Request, Abandon(q) PROVE SuperAdminRemains'
  BY <1>22 DEF Abandon
<1>23. ASSUME NEW q \in Request, NEW a \in Admin, Arrive(q, a) PROVE SuperAdminRemains'
  BY <1>23 DEF Arrive
<1>24. ASSUME NEW q \in Request, NEW o \in AccountOp, NEW a \in Admin, NEW w \in (SUBSET AnyRole) \cup (SUBSET Permission),
            Decide(q, o, a, w) PROVE SuperAdminRemains'
  BY <1>24 DEF Decide
<1>25. ASSUME NEW q \in Request, NEW o \in RoleOp, NEW r \in Role, NEW w \in SUBSET Permission,
            DecideRole(q, o, r, w) PROVE SuperAdminRemains'
  BY <1>25 DEF DecideRole
<1>26. CASE UNCHANGED vars
  BY <1>26 DEF vars
<1> HIDE DEF TypeOK, Shapes, AllSound, SuperAdminRemains
<1> QED
  BY <1>1, <1>2, <1>3, <1>4, <1>5, <1>6, <1>7, <1>8, <1>9, <1>10, <1>11, <1>12, <1>13, <1>14, <1>15,
     <1>16, <1>17, <1>18, <1>19, <1>20, <1>21, <1>22, <1>23, <1>24, <1>25, <1>26
  DEF Next, Resolve, ChangeAccount, ChangeRole

LEMMA OneSteps ==
  ASSUME TypeOK, NEW q \in Request, StepOf(q) PROVE \A p \in Request \ {q} : req'[p] = req[p]
<1> USE DEF TypeOK
<1>1. CASE Hit(q)
  BY <1>1 DEF Hit, Turn, End
<1>2. CASE ReadGrants(q)
  BY <1>2 DEF ReadGrants, Turn, End
<1>3. CASE ReadCarried(q)
  BY <1>3 DEF ReadCarried, Turn, End
<1>4. CASE Store(q)
  BY <1>4 DEF Store, Turn, End
<1>5. CASE LockSuper(q)
  BY <1>5 DEF LockSuper, Turn, End
<1>6. CASE Create(q)
  BY <1>6 DEF Create, Turn, End
<1>7. CASE Update(q)
  BY <1>7 DEF Update, Turn, End
<1>8. CASE ReplaceRoles(q)
  BY <1>8 DEF ReplaceRoles, Turn, End
<1>9. CASE ReplaceDirect(q)
  BY <1>9 DEF ReplaceDirect, Turn, End
<1>10. CASE Disable(q)
  BY <1>10 DEF Disable, Turn, End
<1>11. CASE Enable(q)
  BY <1>11 DEF Enable, Turn, End
<1>12. CASE Revoke(q)
  BY <1>12 DEF Revoke, Turn, End
<1>13. CASE Refuse(q)
  BY <1>13 DEF Refuse, Turn, End
<1>14. CASE CreateRole(q)
  BY <1>14 DEF CreateRole, Turn, End
<1>15. CASE DeleteRole(q)
  BY <1>15 DEF DeleteRole, Turn, End
<1>16. CASE LockRole(q)
  BY <1>16 DEF LockRole, Turn, End
<1>17. CASE ReadHolders(q)
  BY <1>17 DEF ReadHolders, Turn, End
<1>18. CASE CommitRole(q)
  BY <1>18 DEF CommitRole, Turn, End
<1>19. CASE Abandon(q)
  BY <1>19 DEF Abandon, Turn, End
<1>20. ASSUME NEW a \in Admin, Arrive(q, a) PROVE \A p \in Request \ {q} : req'[p] = req[p]
  BY <1>20 DEF Arrive, Turn
<1>21. ASSUME NEW o \in AccountOp, NEW a \in Admin, NEW w \in (SUBSET AnyRole) \cup (SUBSET Permission),
            Decide(q, o, a, w) PROVE \A p \in Request \ {q} : req'[p] = req[p]
  BY <1>21 DEF Decide, Turn
<1>22. ASSUME NEW o \in RoleOp, NEW r \in Role, NEW w \in SUBSET Permission,
            DecideRole(q, o, r, w) PROVE \A p \in Request \ {q} : req'[p] = req[p]
  BY <1>22 DEF DecideRole, Turn
<1> QED
  BY <1>1, <1>2, <1>3, <1>4, <1>5, <1>6, <1>7, <1>8, <1>9, <1>10, <1>11, <1>12, <1>13, <1>14, <1>15,
     <1>16, <1>17, <1>18, <1>19, <1>20, <1>21, <1>22
  DEF StepOf, Resolve, ChangeAccount, ChangeRole

LEMMA WhoAnswers ==
  ASSUME TypeOK, Next, NEW q \in Request, ~At(q, "answered"), At(q, "answered")' PROVE Hit(q) \/ Store(q)
<1> USE DEF TypeOK
<1>1. ASSUME ReadGrants(q) PROVE req'[q].step # "answered"
  <2>1. req'[q] = IF status[req[q].caller] = "active"
             THEN [req[q] EXCEPT !.step = "reading", !.held = roles[req[q].caller], !.rights = direct[req[q].caller]]
             ELSE [req[q] EXCEPT !.step = "loaded"]
    BY <1>1, Turned DEF ReadGrants
  <2>2. req[q] \in Req
    OBVIOUS
  <2>3. QED
    BY <2>1, <2>2 DEF Req, Idle
<1>2. ASSUME ReadCarried(q) PROVE req'[q].step # "answered"
  <2>1. req'[q] = [req[q] EXCEPT !.step = "loaded", !.held = {}, !.rights = req[q].rights \cup Inherited(req[q].held)]
    BY <1>2, Turned DEF ReadCarried
  <2>2. req[q] \in Req
    OBVIOUS
  <2>3. QED
    BY <2>1, <2>2 DEF Req, Idle
<1>3. ASSUME LockSuper(q) PROVE req'[q].step # "answered"
  BY <1>3, Turned, IdleIsReq DEF LockSuper, End, Req
<1>4. ASSUME Create(q) PROVE req'[q].step # "answered"
  BY <1>4, Turned, IdleIsReq DEF Create, End
<1>5. ASSUME Update(q) PROVE req'[q].step # "answered"
  <2>1. req'[q] = [Idle EXCEPT !.step = "revoking", !.on = req[q].on]
    BY <1>5, Turned DEF Update
  <2>2. req[q] \in Req
    OBVIOUS
  <2>3. QED
    BY <2>1, <2>2 DEF Req, Idle
<1>6. ASSUME ReplaceRoles(q) PROVE req'[q].step # "answered"
  BY <1>6, Turned, IdleIsReq DEF ReplaceRoles, End
<1>7. ASSUME ReplaceDirect(q) PROVE req'[q].step # "answered"
  BY <1>7, Turned, IdleIsReq DEF ReplaceDirect, End
<1>8. ASSUME Disable(q) PROVE req'[q].step # "answered"
  <2>1. req'[q] = [Idle EXCEPT !.step = "revoking", !.on = req[q].on]
    BY <1>8, Turned DEF Disable
  <2>2. req[q] \in Req
    OBVIOUS
  <2>3. QED
    BY <2>1, <2>2 DEF Req, Idle
<1>9. ASSUME Enable(q) PROVE req'[q].step # "answered"
  BY <1>9, Turned, IdleIsReq DEF Enable, End
<1>10. ASSUME Revoke(q) PROVE req'[q].step # "answered"
  BY <1>10, Turned, IdleIsReq DEF Revoke, End
<1>11. ASSUME Refuse(q) PROVE req'[q].step # "answered"
  BY <1>11, Turned, IdleIsReq DEF Refuse, End
<1>12. ASSUME CreateRole(q) PROVE req'[q].step # "answered"
  BY <1>12, Turned, IdleIsReq DEF CreateRole, End
<1>13. ASSUME DeleteRole(q) PROVE req'[q].step # "answered"
  BY <1>13, Turned, IdleIsReq DEF DeleteRole, End
<1>14. ASSUME LockRole(q) PROVE req'[q].step # "answered"
  BY <1>14, Turned, IdleIsReq DEF LockRole, End, Req
<1>15. ASSUME ReadHolders(q) PROVE req'[q].step # "answered"
  <2>1. PICK h : Turn(q, [req[q] EXCEPT !.step = "counted", !.holders = h])
    BY <1>15 DEF ReadHolders
  <2>2. req'[q] = [req[q] EXCEPT !.step = "counted", !.holders = h] /\ req[q] \in Req
    BY <2>1, Turned
  <2>3. QED
    BY <2>2 DEF Req
<1>16. ASSUME CommitRole(q) PROVE req'[q].step # "answered"
  BY <1>16, Turned, IdleIsReq DEF CommitRole, End
<1>17. ASSUME Abandon(q) PROVE req'[q].step # "answered"
  BY <1>17, Turned, IdleIsReq DEF Abandon, End
<1>18. ASSUME NEW a \in Admin, Arrive(q, a) PROVE req'[q].step # "answered"
  <2> DEFINE x == [Idle EXCEPT !.step = "stamped", !.caller = a, !.stamp = authz[a]]
  <2>1. req'[q] = x \/ req' = req
    BY <1>18, Turned DEF Arrive
  <2>2. x.step = "stamped"
    BY DEF Idle
  <2>3. QED
    BY <1>18, <2>1, <2>2 DEF Arrive, At
<1>19. ASSUME NEW o \in AccountOp, NEW a \in Admin, NEW w \in (SUBSET AnyRole) \cup (SUBSET Permission),
            Decide(q, o, a, w) PROVE req'[q].step # "answered"
  BY <1>19, Turned DEF Decide, Idle
<1>20. ASSUME NEW o \in RoleOp, NEW r \in Role, NEW w \in SUBSET Permission,
            DecideRole(q, o, r, w) PROVE req'[q].step # "answered"
  BY <1>20, Turned DEF DecideRole, Idle
<1> HIDE DEF TypeOK
<1>21. \A p \in Request : StepOf(p) => p = q
  BY OneSteps DEF At
<1>22. ~Outside
  BY DEF Outside, SignIn, BeginSetup, FinishSetup, At
<1>23. req'[q].step = "answered"
  BY DEF At
<1> QED
  BY <1>1, <1>2, <1>3, <1>4, <1>5, <1>6, <1>7, <1>8, <1>9, <1>10, <1>11, <1>12, <1>13, <1>14, <1>15,
     <1>16, <1>17, <1>18, <1>19, <1>20, <1>21, <1>22, <1>23
  DEF Next, Outside, StepOf, Resolve, ChangeAccount, ChangeRole

LEMMA InvStep == ASSUME IInv, [Next]_vars PROVE IInv'
<1> USE DEF IInv
<1>1. TypeOK' /\ Shapes'
  BY SharedStep, RequestStep DEF SharedOK, TypeOK
<1>2. RightsMove /\ AccountsMove /\ RolesMove /\ RolesExist'
  BY RightsStep, AccountsStep
<1>3. AllSound'
  <2>1. CASE Outside
    <3>1. \A p \in Request : Spares(p) /\ req'[p] = req[p]
      BY <2>1, LocksProtect DEF Outside, SignIn, BeginSetup, FinishSetup
    <3>2. QED
      BY <1>2, <3>1, OthersSound DEF AllSound
  <2>2. ASSUME NEW q \in Request, StepOf(q) PROVE AllSound'
    <3>1. \A p \in Request \ {q} : Spares(p)
      BY <2>2, LocksProtect
    <3>2. \A p \in Request \ {q} : req'[p] = req[p]
      BY <2>2, OneSteps
    <3>3. Sound(q, req[q])'
      BY <2>2, ActorSound
    <3>4. QED
      BY <1>2, <3>1, <3>2, <3>3, OthersSound DEF AllSound
  <2>3. CASE UNCHANGED vars
    <3>1. \A p \in Request : Spares(p) /\ req'[p] = req[p]
      BY <2>3 DEF vars, accountVars, roleVars, Spares, IsSuper, Holders
    <3>2. QED
      BY <1>2, <3>1, OthersSound DEF AllSound
  <2>4. QED
    BY <2>1, <2>2, <2>3 DEF Next, Outside, StepOf
<1>4. EntriesSound'
  BY <1>2, EntriesStep
<1>5. SuperAdminRemains'
  BY SuperStep
<1>6. QED
  BY <1>1, <1>2, <1>3, <1>4, <1>5

LEMMA Invariance == Spec => []IInv
<1>1. Init => IInv
  <2>1. ASSUME Init PROVE AllSound
    BY <2>1, IdleIsReq DEF Init, AllSound, Sound, Changing, Guarding, Altering, Resolving
  <2>2. QED
    BY <2>1, IdleIsReq DEF Init, IInv, TypeOK, Shapes, RolesExist, EntriesSound, SuperAdminRemains
<1>2. IInv /\ [Next]_vars => IInv'
  BY InvStep
<1>3. QED
  BY <1>1, <1>2, PTL DEF Spec

\* An active super administrator remains, however many administrators take
\* the role from each other or disable each other at once, by either service:
\* who takes it away has locked its row before it counts the others, and the
\* version of the account tells whether what it read before is still so.
THEOREM OneSuperAdminAlways == Spec => []SuperAdminRemains
  BY Invariance, PTL DEF IInv

\* What Redis holds under the present version of an administrator is what the
\* database grants now: no write changes the rights of an active account
\* without moving its version, since who is given a role while it is changed
\* waits for its row.
THEOREM CacheNeverLies == Spec => []CacheIsCurrent
<1>1. IInv => CacheIsCurrent
  BY DEF IInv, EntriesSound, EntrySound, CacheIsCurrent
<1>2. QED
  BY <1>1, Invariance, PTL

\* A request is answered with the rights the caller has at that moment, unless
\* they changed after it began.
THEOREM EveryChangeIsSeen == Spec => ChangeIsSeen
<1> DEFINE Seen == \A q \in Request :
             ~At(q, "answered") /\ At(q, "answered")' =>
               LET a == req[q].caller IN req'[q].rights = Effective(a) \/ authz[a] # req[q].stamp
<1>1. ASSUME IInv, Next PROVE Seen
  <2> SUFFICES ASSUME NEW q \in Request, ~At(q, "answered"), At(q, "answered")'
               PROVE  req'[q].rights = Effective(req[q].caller) \/ authz[req[q].caller] # req[q].stamp
    OBVIOUS
  <2>1. req \in [Request -> Req] /\ req[q] \in Req /\ Sound(q, req[q])
    BY <1>1 DEF IInv, TypeOK, AllSound
  <2>2. Hit(q) \/ Store(q)
    BY <1>1, WhoAnswers DEF IInv
  <2>3. CASE Hit(q)
    <3>1. PICK e \in cache : e.admin = req[q].caller /\ e.version = req[q].stamp
                    /\ Turn(q, [req[q] EXCEPT !.step = "answered", !.rights = e.rights])
      BY <2>3 DEF Hit
    <3>2. req'[q] = [req[q] EXCEPT !.step = "answered", !.rights = e.rights]
      BY <2>1, <3>1, Turned
    <3>3. req'[q].rights = e.rights
      BY <2>1, <3>2 DEF Req
    <3>4. QED
      BY <1>1, <3>1, <3>3 DEF IInv, EntriesSound, EntrySound
  <2>4. CASE Store(q)
    <3>1. req'[q].rights = req[q].rights /\ req[q].step = "loaded"
      BY <2>1, <2>4, Turned DEF Store, At, Req
    <3>2. QED
      BY <2>1, <3>1 DEF Sound, Resolving
  <2>5. QED
    BY <2>2, <2>3, <2>4
<1>2. IInv /\ [Next]_vars => [Seen]_vars
  BY <1>1
<1>3. QED
  BY <1>2, Invariance, PTL DEF Spec, ChangeIsSeen

=============================================================================
