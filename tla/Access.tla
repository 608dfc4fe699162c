------------------------------- MODULE Access -------------------------------
(***************************************************************************)
(* Who may do what: the accounts, roles and grants that AdminsService and  *)
(* AuthorizationService change, and the effective permissions that every   *)
(* request of an administrator resolves through a cache in Redis.          *)
(*                                                                         *)
(* A request is resolved in steps (version, cache, grants, permissions of  *)
(* the roles), then decides on what it reads, then writes in a             *)
(* transaction.  Transactions with a lock or a read of their own in the    *)
(* middle are several steps under the row lock; the others are one.        *)
(*                                                                         *)
(* One permission stands for all that the routes of these two services     *)
(* require, and the open sessions of an administrator are kept as whether  *)
(* there is one.                                                           *)
(***************************************************************************)
EXTENDS Naturals, FiniteSets, Functions

CONSTANTS
  Admin,
  Role,         \* roles other than the protected one
  Super,        \* SUPER_ADMIN_ROLE
  Permission,
  Manage,       \* what the routes of this module require
  Request,      \* requests under way at once
  MaxChanges,   \* bound on the changes there were when another is begun
  Nobody

ASSUME AccessAssumption ==
  /\ Manage \in Permission
  /\ Super \notin Role \cup Permission
  /\ Nobody \notin Admin \cup Role \cup Request

VARIABLES
  status, version, authz,             \* columns of admin_users
  roles, direct,                      \* admin_roles, admin_permissions
  standing, roleVersion, carries,     \* roles, role_permissions
  lock,                               \* who has the row of a role locked
  accepting,                          \* accounts whose setup form is being answered
  signedIn,                           \* administrators with an open session
  cache,                              \* authz:admin:<id>:v<version> in Redis
  req                                 \* requests

accountVars == <<status, version, roles, direct>>
roleVars    == <<standing, roleVersion, carries>>
vars == <<accountVars, authz, roleVars, lock, accepting, signedIn, cache, req>>

AnyRole == Role \cup {Super}

\* What a request resolves to: permissions, and whether the caller is a super
\* administrator (roles of the EffectiveAccess).
Right == Permission \cup {Super}

AccountOp == {"create", "update", "roles", "direct", "disable", "enable"}
RoleOp    == {"carry", "activate", "deactivate", "createRole", "deleteRole"}

Step == {"idle",
         "stamped", "reading", "loaded", "answered",   \* resolving the caller
         "decided", "locked", "revoking",              \* an account
         "roleDecided", "writing", "counted"}          \* a role

Req == [step : Step, caller : Admin \cup {Nobody}, stamp : Nat,
        held : SUBSET AnyRole, rights : SUBSET Right,
        op : AccountOp \cup RoleOp \cup {"none"}, on : Admin \cup Role \cup {Nobody},
        want : SUBSET (AnyRole \cup Permission), seen : Nat, loses : BOOLEAN,
        holders : SUBSET Admin]

Idle == [step |-> "idle", caller |-> Nobody, stamp |-> 0, held |-> {}, rights |-> {},
         op |-> "none", on |-> Nobody, want |-> {}, seen |-> 0, loses |-> FALSE, holders |-> {}]

Entry == [admin : Admin, version : Nat, rights : SUBSET Right]

TypeOK ==
  /\ status \in [Admin -> {"absent", "invited", "active", "disabled"}]
  /\ version \in [Admin -> Nat] /\ authz \in [Admin -> Nat]
  /\ roles \in [Admin -> SUBSET AnyRole] /\ direct \in [Admin -> SUBSET Permission]
  /\ standing \in [Role -> {"absent", "active", "inactive", "deleted"}]
  /\ roleVersion \in [Role -> Nat] /\ carries \in [Role -> SUBSET Permission]
  /\ lock \in [AnyRole -> Request \cup {Nobody}]
  /\ accepting \subseteq Admin /\ signedIn \subseteq Admin
  /\ cache \subseteq Entry
  /\ req \in [Request -> Req]

-----------------------------------------------------------------------------
\* Rights.

\* What the roles of an account contribute now; only active roles do.
Inherited(rs) ==
  IF Super \in rs THEN Right
  ELSE UNION {carries[r] : r \in {x \in rs \cap Role : standing[x] = "active"}}

\* The union of roles and direct grants; nothing unless the account is active.
Effective(a) ==
  IF status[a] = "active" THEN Inherited(roles[a]) \cup direct[a] ELSE {}

IsSuper(a) == status[a] = "active" /\ Super \in roles[a]

Holders(r) == {a \in Admin : r \in roles[a]}

At(q, s) == req[q].step = s

Changes == SumFunction(version) + SumFunction(roleVersion)

\* A request goes on as x, or ends: its transaction, if one is open, is over.
Turn(q, x) == req' = [req EXCEPT ![q] = x]
End(q) == Turn(q, Idle)
Release(q) == lock' = [r \in AnyRole |-> IF lock[r] = q THEN Nobody ELSE lock[r]]

-----------------------------------------------------------------------------
\* Sessions and accounts on the visitor's side.

\* Sessions that end by themselves only take requests away and are left out.
SignIn(a) ==
  /\ status[a] = "active" /\ a \notin signedIn
  /\ signedIn' = signedIn \cup {a}
  /\ UNCHANGED <<accountVars, authz, roleVars, lock, accepting, cache, req>>

\* The setup form is submitted: its token and the account are looked at ...
BeginSetup(a) ==
  /\ status[a] = "invited" /\ a \notin accepting /\ Changes < MaxChanges
  /\ accepting' = accepting \cup {a}
  /\ UNCHANGED <<accountVars, authz, roleVars, lock, signedIn, cache, req>>

\* ... and, once the password is hashed, the account is made active, whatever
\* has become of it meanwhile and without a new authorization version.
FinishSetup(a) ==
  /\ a \in accepting
  /\ accepting' = accepting \ {a}
  /\ status' = [status EXCEPT ![a] = "active"]
  /\ version' = [version EXCEPT ![a] = @ + 1]
  /\ UNCHANGED <<authz, roles, direct, roleVars, lock, signedIn, cache, req>>

-----------------------------------------------------------------------------
\* Resolving the caller of a request.

\* The guard validates the session and reads the account: a caller who is not
\* active is refused and the session revoked.
Arrive(q, a) ==
  /\ At(q, "idle") /\ a \in signedIn
  /\ IF status[a] = "active"
     THEN /\ Turn(q, [Idle EXCEPT !.step = "stamped", !.caller = a, !.stamp = authz[a]])
          /\ UNCHANGED signedIn
     ELSE signedIn' = signedIn \ {a} /\ UNCHANGED req
  /\ UNCHANGED <<accountVars, authz, roleVars, lock, accepting, cache>>

\* The entry of the version that was read is there: no further query.
Hit(q) ==
  /\ At(q, "stamped")
  /\ \E e \in cache :
       /\ e.admin = req[q].caller /\ e.version = req[q].stamp
       /\ Turn(q, [req[q] EXCEPT !.step = "answered", !.rights = e.rights])
  /\ UNCHANGED <<accountVars, authz, roleVars, lock, accepting, signedIn, cache>>

\* No entry, or no Redis: the account with its roles and direct grants is read,
\* and then, in a query of its own, what the roles carry.
ReadGrants(q) ==
  /\ At(q, "stamped")
  /\ LET a == req[q].caller IN
       Turn(q, IF status[a] = "active"
               THEN [req[q] EXCEPT !.step = "reading", !.held = roles[a], !.rights = direct[a]]
               ELSE [req[q] EXCEPT !.step = "loaded"])
  /\ UNCHANGED <<accountVars, authz, roleVars, lock, accepting, signedIn, cache>>

ReadCarried(q) ==
  /\ At(q, "reading")
  /\ Turn(q, [req[q] EXCEPT !.step = "loaded", !.held = {}, !.rights = req[q].rights \cup Inherited(req[q].held)])
  /\ UNCHANGED <<accountVars, authz, roleVars, lock, accepting, signedIn, cache>>

\* The value is stored under the version read at the start.  That Redis fails,
\* or that an entry expires, is the same as its not being read.
Store(q) ==
  /\ At(q, "loaded")
  /\ LET a == req[q].caller
         v == req[q].stamp IN
       cache' = {e \in cache : ~(e.admin = a /\ e.version = v)}
                  \cup {[admin |-> a, version |-> v, rights |-> req[q].rights]}
  /\ Turn(q, [req[q] EXCEPT !.step = "answered"])
  /\ UNCHANGED <<accountVars, authz, roleVars, lock, accepting, signedIn>>

-----------------------------------------------------------------------------
\* Deciding on a change of an account.  What the administrator saw is the row
\* as it is loaded: a change written against an older one is refused here or by
\* the conditional write.

\* assertMayAssignRoles: active roles, within what the caller holds.
Assignable(q, rs) ==
  /\ rs \subseteq AnyRole
  /\ \A r \in rs \cap Role : standing[r] = "active" /\ carries[r] \subseteq req[q].rights
  /\ Super \in rs => Super \in req[q].rights /\ Permission \subseteq req[q].rights

Decide(q, o, a, w) ==
  /\ At(q, "answered") /\ Manage \in req[q].rights
  /\ Changes < MaxChanges
  /\ CASE o = "create"             -> status[a] = "absent" /\ Assignable(q, w)
       [] o \in {"update", "roles"} -> status[a] # "absent" /\ a # req[q].caller /\ Assignable(q, w)
       [] o = "direct"             -> status[a] # "absent" /\ a # req[q].caller /\ w \subseteq req[q].rights \cap Permission
       [] o = "disable"            -> status[a] \in {"invited", "active"} /\ a # req[q].caller /\ w = {}
       [] o = "enable"             -> status[a] = "disabled" /\ w = {}
  /\ Turn(q, [Idle EXCEPT !.step = "decided", !.op = o, !.on = a, !.want = w, !.seen = version[a],
       !.loses = Super \in roles[a] /\ (o = "disable" \/ (o \in {"update", "roles"} /\ Super \notin w))])
  /\ UNCHANGED <<accountVars, authz, roleVars, lock, accepting, signedIn, cache>>

\* Mutant of LockSuper: the others are counted without locking the role.
CountSuper(q) ==
  /\ At(q, "decided") /\ req[q].loses
  /\ IF \E b \in Admin \ {req[q].on} : IsSuper(b)
     THEN Turn(q, [req[q] EXCEPT !.step = "locked"])
     ELSE End(q)
  /\ UNCHANGED <<accountVars, authz, roleVars, lock, accepting, signedIn, cache>>

\* assertNotLastSuperAdminTx: the row of the protected role is locked until the
\* transaction ends, and the other active super administrators are counted.
LockSuper(q) ==
  /\ At(q, "decided") /\ req[q].loses
  /\ lock[Super] = Nobody
  /\ IF \E b \in Admin \ {req[q].on} : IsSuper(b)
     THEN /\ lock' = [lock EXCEPT ![Super] = q]
          /\ Turn(q, [req[q] EXCEPT !.step = "locked"])
     ELSE End(q) /\ UNCHANGED lock
  /\ UNCHANGED <<accountVars, authz, roleVars, accepting, signedIn, cache>>

-----------------------------------------------------------------------------
\* Writing the change of an account.

Ready(q, ops) ==
  /\ IF req[q].loses THEN At(q, "locked") ELSE At(q, "decided")
  /\ req[q].op \in ops

\* WHERE id = ? AND version = ?
Current(q) == version[req[q].on] = req[q].seen

\* A row of admin_roles refers to its role: the insert waits for the lock of
\* another transaction, and fails when the role is gone.
Refers(q) == \A r \in req[q].want : lock[r] \in {Nobody, q}
Exists(q) == \A r \in req[q].want \cap Role : standing[r] # "deleted"

Bump(f, a) == [f EXCEPT ![a] = @ + 1]

Create(q) ==
  /\ Ready(q, {"create"}) /\ Refers(q) /\ Exists(q)
  /\ LET a == req[q].on IN
       /\ status[a] = "absent"
       /\ status' = [status EXCEPT ![a] = "invited"]
       /\ roles' = [roles EXCEPT ![a] = req[q].want]
  /\ End(q)
  /\ UNCHANGED <<version, authz, direct, roleVars, lock, accepting, signedIn, cache>>

\* AdminsService.update: the sessions are revoked after the transaction.
Update(q) ==
  /\ Ready(q, {"update"}) /\ Current(q) /\ Refers(q) /\ Exists(q)
  /\ LET a == req[q].on IN
       /\ roles' = [roles EXCEPT ![a] = req[q].want]
       /\ version' = Bump(version, a) /\ authz' = Bump(authz, a)
  /\ Release(q)
  /\ Turn(q, [Idle EXCEPT !.step = "revoking", !.on = req[q].on])
  /\ UNCHANGED <<status, direct, roleVars, accepting, signedIn, cache>>

\* replaceAdminRoles: everything in one transaction.
ReplaceRoles(q) ==
  /\ Ready(q, {"roles"}) /\ Current(q) /\ Refers(q) /\ Exists(q)
  /\ LET a == req[q].on IN
       /\ roles' = [roles EXCEPT ![a] = req[q].want]
       /\ version' = Bump(version, a) /\ authz' = Bump(authz, a)
       /\ signedIn' = signedIn \ {a}
  /\ Release(q) /\ End(q)
  /\ UNCHANGED <<status, direct, roleVars, accepting, cache>>

\* Mutant of ReplaceDirect: the cached permissions are not retired.
ReplaceDirectKept(q) ==
  /\ Ready(q, {"direct"}) /\ Current(q)
  /\ LET a == req[q].on IN
       /\ direct' = [direct EXCEPT ![a] = req[q].want]
       /\ version' = Bump(version, a)
       /\ signedIn' = signedIn \ {a}
  /\ End(q)
  /\ UNCHANGED <<status, authz, roles, roleVars, lock, accepting, cache>>

\* replaceAdminPermissions.
ReplaceDirect(q) ==
  /\ Ready(q, {"direct"}) /\ Current(q)
  /\ LET a == req[q].on IN
       /\ direct' = [direct EXCEPT ![a] = req[q].want]
       /\ version' = Bump(version, a) /\ authz' = Bump(authz, a)
       /\ signedIn' = signedIn \ {a}
  /\ End(q)
  /\ UNCHANGED <<status, roles, roleVars, lock, accepting, cache>>

Disable(q) ==
  /\ Ready(q, {"disable"}) /\ Current(q)
  /\ LET a == req[q].on IN
       /\ status' = [status EXCEPT ![a] = "disabled"]
       /\ version' = Bump(version, a) /\ authz' = Bump(authz, a)
  /\ Release(q)
  /\ Turn(q, [Idle EXCEPT !.step = "revoking", !.on = req[q].on])
  /\ UNCHANGED <<roles, direct, roleVars, accepting, signedIn, cache>>

\* Mutant of Enable: the account becomes what it was before it was invited.
EnableUnset(q) ==
  /\ Ready(q, {"enable"}) /\ Current(q)
  /\ LET a == req[q].on IN
       /\ status' = [status EXCEPT ![a] = "enabled"]
       /\ version' = Bump(version, a) /\ authz' = Bump(authz, a)
  /\ End(q)
  /\ UNCHANGED <<roles, direct, roleVars, lock, accepting, signedIn, cache>>

Enable(q) ==
  /\ Ready(q, {"enable"}) /\ Current(q)
  /\ LET a == req[q].on IN
       /\ status' = [status EXCEPT ![a] = "active"]
       /\ version' = Bump(version, a) /\ authz' = Bump(authz, a)
  /\ End(q)
  /\ UNCHANGED <<roles, direct, roleVars, lock, accepting, signedIn, cache>>

\* revokeAllForAdmin, a statement of its own after update and disable.
Revoke(q) ==
  /\ At(q, "revoking")
  /\ signedIn' = signedIn \ {req[q].on}
  /\ End(q)
  /\ UNCHANGED <<accountVars, authz, roleVars, lock, accepting, cache>>

\* The row has moved on, or a role is gone: the transaction rolls back.
Refuse(q) ==
  /\ Ready(q, AccountOp)
  /\ \/ ~Exists(q)
     \/ req[q].op = "create" /\ status[req[q].on] # "absent"
     \/ req[q].op # "create" /\ ~Current(q)
  /\ Release(q) /\ End(q)
  /\ UNCHANGED <<accountVars, authz, roleVars, accepting, signedIn, cache>>

-----------------------------------------------------------------------------
\* Changing a role.

DecideRole(q, o, r, w) ==
  /\ At(q, "answered") /\ Manage \in req[q].rights
  /\ Changes < MaxChanges
  /\ CASE o = "createRole"                 -> standing[r] = "absent" /\ w \subseteq req[q].rights \cap Permission
       [] o = "carry"                      -> standing[r] \in {"active", "inactive"} /\ w \subseteq req[q].rights \cap Permission
       [] o \in {"activate", "deactivate"} -> standing[r] \in {"active", "inactive"} /\ w = {}
       [] o = "deleteRole"                 -> standing[r] \in {"active", "inactive"} /\ w = {} /\ Holders(r) = {}
  /\ Turn(q, [Idle EXCEPT !.step = "roleDecided", !.op = o, !.on = r, !.want = w, !.seen = roleVersion[r]])
  /\ UNCHANGED <<accountVars, authz, roleVars, lock, accepting, signedIn, cache>>

CreateRole(q) ==
  /\ At(q, "roleDecided") /\ req[q].op = "createRole"
  /\ LET r == req[q].on IN
       IF standing[r] = "absent"
       THEN /\ standing' = [standing EXCEPT ![r] = "active"]
            /\ carries' = [carries EXCEPT ![r] = req[q].want]
       ELSE UNCHANGED <<standing, carries>>
  /\ End(q)
  /\ UNCHANGED <<accountVars, authz, roleVersion, lock, accepting, signedIn, cache>>

\* Nobody held the role when it was looked at; who has been given it since
\* makes the database refuse.
DeleteRole(q) ==
  /\ At(q, "roleDecided") /\ req[q].op = "deleteRole"
  /\ LET r == req[q].on IN
       /\ lock[r] = Nobody
       /\ standing' = IF Holders(r) = {} THEN [standing EXCEPT ![r] = "deleted"] ELSE standing
  /\ End(q)
  /\ UNCHANGED <<accountVars, authz, roleVersion, carries, lock, accepting, signedIn, cache>>

\* The conditional write of the version takes the row of the role ...
LockRole(q) ==
  /\ At(q, "roleDecided") /\ req[q].op \in {"carry", "activate", "deactivate"}
  /\ LET r == req[q].on IN
       /\ lock[r] = Nobody
       /\ IF roleVersion[r] = req[q].seen /\ standing[r] # "deleted"
          THEN /\ lock' = [lock EXCEPT ![r] = q]
               /\ Turn(q, [req[q] EXCEPT !.step = "writing"])
          ELSE End(q) /\ UNCHANGED lock
  /\ UNCHANGED <<accountVars, authz, roleVars, accepting, signedIn, cache>>

\* ... then who holds it is read, on another connection ...
ReadHolders(q) ==
  /\ At(q, "writing")
  /\ LET r == req[q].on
         becomes == IF req[q].op = "activate" THEN "active" ELSE "inactive" IN
       Turn(q, [req[q] EXCEPT !.step = "counted",
                  !.holders = IF req[q].op # "carry" /\ standing[r] = becomes THEN {} ELSE Holders(r)])
  /\ UNCHANGED <<accountVars, authz, roleVars, lock, accepting, signedIn, cache>>

\* Mutant of CommitRole: only new permissions retire what is cached.
CommitRoleQuietly(q) ==
  /\ At(q, "counted")
  /\ LET r == req[q].on IN
       /\ roleVersion' = Bump(roleVersion, r)
       /\ IF req[q].op = "carry"
          THEN /\ carries' = [carries EXCEPT ![r] = req[q].want]
               /\ signedIn' = signedIn \ req[q].holders
               /\ authz' = [a \in Admin |-> IF a \in req[q].holders THEN authz[a] + 1 ELSE authz[a]]
               /\ UNCHANGED standing
          ELSE /\ standing' = [standing EXCEPT ![r] = IF req[q].op = "activate" THEN "active" ELSE "inactive"]
               /\ UNCHANGED <<authz, carries, signedIn>>
  /\ Release(q) /\ End(q)
  /\ UNCHANGED <<accountVars, accepting, cache>>

\* ... and the change, the retirement of what is cached for them and, for new
\* permissions, the end of their sessions commit together.
CommitRole(q) ==
  /\ At(q, "counted")
  /\ LET r == req[q].on IN
       /\ roleVersion' = Bump(roleVersion, r)
       /\ IF req[q].op = "carry"
          THEN /\ carries' = [carries EXCEPT ![r] = req[q].want]
               /\ signedIn' = signedIn \ req[q].holders
               /\ UNCHANGED standing
          ELSE /\ standing' = [standing EXCEPT ![r] = IF req[q].op = "activate" THEN "active" ELSE "inactive"]
               /\ UNCHANGED <<carries, signedIn>>
  /\ authz' = [a \in Admin |-> IF a \in req[q].holders THEN authz[a] + 1 ELSE authz[a]]
  /\ Release(q) /\ End(q)
  /\ UNCHANGED <<accountVars, accepting, cache>>

\* The handler has answered or refused; or the process or the connection dies:
\* an open transaction rolls back, what was to follow a committed one does not
\* happen.
Abandon(q) ==
  /\ ~At(q, "idle")
  /\ Release(q) /\ End(q)
  /\ UNCHANGED <<accountVars, authz, roleVars, accepting, signedIn, cache>>

-----------------------------------------------------------------------------
Init ==
  /\ status \in [Admin -> {"absent", "invited", "active", "disabled"}]
  /\ roles \in [Admin -> SUBSET AnyRole] /\ direct \in [Admin -> SUBSET Permission]
  /\ standing \in [Role -> {"absent", "active", "inactive"}]
  /\ carries \in [Role -> SUBSET Permission]
  /\ \A a \in Admin, r \in Role : r \in roles[a] => standing[r] # "absent"
  /\ \E a \in Admin : IsSuper(a)
  /\ version = [a \in Admin |-> 0] /\ authz = [a \in Admin |-> 0]
  /\ roleVersion = [r \in Role |-> 0]
  /\ lock = [r \in AnyRole |-> Nobody]
  /\ accepting = {} /\ signedIn = {} /\ cache = {}
  /\ req = [q \in Request |-> Idle]

Resolve(q) ==
  \/ Hit(q) \/ ReadGrants(q) \/ ReadCarried(q) \/ Store(q)
  \/ \E a \in Admin : Arrive(q, a)

ChangeAccount(q) ==
  \/ \E o \in AccountOp, a \in Admin, w \in (SUBSET AnyRole) \cup (SUBSET Permission) : Decide(q, o, a, w)
  \/ LockSuper(q) \/ Create(q) \/ Update(q) \/ ReplaceRoles(q) \/ ReplaceDirect(q)
  \/ Disable(q) \/ Enable(q) \/ Revoke(q) \/ Refuse(q)

ChangeRole(q) ==
  \/ \E o \in RoleOp, r \in Role, w \in SUBSET Permission : DecideRole(q, o, r, w)
  \/ CreateRole(q) \/ DeleteRole(q) \/ LockRole(q) \/ ReadHolders(q) \/ CommitRole(q)

Next ==
  \/ \E a \in Admin : SignIn(a) \/ BeginSetup(a) \/ FinishSetup(a)
  \/ \E q \in Request : Resolve(q) \/ ChangeAccount(q) \/ ChangeRole(q) \/ Abandon(q)

Spec == Init /\ [][Next]_vars

-----------------------------------------------------------------------------
\* Properties.

\* RBAC 011: whatever two administrators do to each other at once, by either of
\* the two services, an active super administrator remains; whether one is
\* being taken away is read before the transaction that counts the others.
SuperAdminRemains == \E a \in Admin : IsSuper(a)

\* RBAC 009: what Redis holds under the present version of an administrator is
\* what the database grants now, although a value is stored under the version
\* read before the grants were, the grants are read in two queries, and the
\* holders of a role are listed outside the transaction that changes it.
CacheIsCurrent ==
  \A e \in cache : e.version = authz[e.admin] => e.rights = Effective(e.admin)

\* A request acts on rights that are out of date only if they changed while it
\* was being resolved: the next request sees every change that was committed.
ChangeIsSeen ==
  [][\A q \in Request :
       ~At(q, "answered") /\ At(q, "answered")' =>
         LET a == req[q].caller IN req'[q].rights = Effective(a) \/ authz[a] # req[q].stamp]_vars

=============================================================================
