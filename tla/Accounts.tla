-------------------------------- MODULE Accounts -------------------------------
(***************************************************************************)
(* Users, roles and permissions (app/modules/auth).  A request resolves    *)
(* its bearer's account, is refused without the permission its route       *)
(* requires, decides on the committed rows and keeps what it will write    *)
(* until it commits; the database then enforces the unique names and the   *)
(* foreign keys, and a request it refuses is rolled back.                  *)
(***************************************************************************)
EXTENDS Naturals, FiniteSets, FiniteSetsExt

CONSTANTS
  User,            \* the ids of the accounts
  Role,            \* the ids of the roles
  Name,            \* usernames, and codes of roles
  Permission,      \* the permissions the enabled modules declare
  Session,         \* requests that may be running at the same time
  FirstName,       \* [User -> Name \cup {None}]: the accounts there are at first
  FirstAdmin,      \* the administrator the seeding job creates
  None,
  MayOverlap,      \* bound: FALSE runs the requests that disable or demote one by one
  PermissionSets   \* bound: the sets of permissions requests give to a role

ASSUME AccountsAssumption ==
  /\ None \notin Name \cup BOOLEAN
  /\ User \cap Role = {}
  /\ FirstName \in [User -> Name \cup {None}]
  /\ MayOverlap \in BOOLEAN
  /\ \A u, v \in User : u # v /\ FirstName[u] # None => FirstName[u] # FirstName[v]
  /\ FirstAdmin \in User /\ FirstName[FirstAdmin] # None
  /\ {"auth.manage_users", "auth.manage_roles"} \subseteq Permission

VARIABLES
  name,            \* [User \cup Role -> Name \cup {None}]: None while there is no row
  active,          \* the accounts that are not disabled
  admins,          \* the accounts with is_superuser set
  held,            \* auth_user_roles: pairs <<user, role>>
  granted,         \* auth_role_permissions: pairs <<role, permission>>
  permissions,     \* the permissions that have a row
  tx               \* [Session -> the write set of its request, or None]

vars == <<name, active, admins, held, granted, permissions, tx>>

--------------------------------------------------------------------------------
(* Transactions.                                                           *)

Nothing == [on |-> {}, off |-> {}]
NoWrites ==
  [actor |-> None, name |-> [x \in {} |-> None], active |-> Nothing, admins |-> Nothing,
   held |-> Nothing, granted |-> Nothing, permissions |-> {}, added |-> {}, dropped |-> {}]

(* The unit of work writes what differs from what the request read.        *)
Becomes(old, new) == [on |-> new \ old, off |-> old \ new]
Switch(set, x, value) ==
  IF value = None THEN Nothing
  ELSE Becomes(set, IF value THEN set \cup {x} ELSE set \ {x})
Apply(set, w) == (set \cup w.on) \ w.off
Replaced(rel, x, ys) ==
  Becomes(rel, {p \in rel : p[1] # x} \cup {<<x, y>> : y \in ys})

(* MUTANT of NameClash: usernames are no longer unique.                    *)
NameClashOnRoles(x, n) ==
  n # None /\ x \in Role /\ \E y \in Role : y # x /\ name[y] = n

(* The unique indexes on auth_users.username and auth_roles.code.          *)
NameClash(x, n) ==
  n # None /\ \E y \in IF x \in User THEN User ELSE Role : y # x /\ name[y] = n

(* A row to update that is gone, a row of an association that is there     *)
(* already, is gone already, or whose role is gone: the statement fails.   *)
(* (An id is new once: of two requests that chose one, the second fails.)  *)
Refused(w) ==
  \/ \E x \in DOMAIN w.name : NameClash(x, w.name[x]) \/ (x \in w.added) # (name[x] = None)
  \/ w.held.on \cap held # {} \/ ~(w.held.off \subseteq held)
  \/ w.granted.on \cap granted # {} \/ ~(w.granted.off \subseteq granted)
  \/ \E p \in w.held.on : name[p[2]] = None
  \/ \E p \in w.granted.on : name[p[1]] = None /\ p[1] \notin w.added
  \/ w.permissions \cap permissions # {}
  \/ \E r \in w.dropped : name[r] = None

(* MUTANT of Cascade: the association has no ON DELETE CASCADE.            *)
NoCascade(pairs, dropped) == pairs

(* ON DELETE CASCADE of auth_user_roles.role_id.                           *)
Cascade(pairs, dropped) == {p \in pairs : p[2] \notin dropped}

Commit(s) ==
  LET w == tx[s] IN
  /\ w # None
  /\ ~Refused(w)
  /\ name' = [x \in DOMAIN name |->
                IF x \in w.dropped THEN None
                ELSE IF x \in DOMAIN w.name THEN w.name[x] ELSE name[x]]
  /\ active' = Apply(active, w.active)
  /\ admins' = Apply(admins, w.admins)
  /\ held' = Cascade(Apply(held, w.held), w.dropped)
  /\ granted' = {p \in Apply(granted, w.granted) : p[1] \notin w.dropped}
  /\ permissions' = permissions \cup w.permissions
  /\ tx' = [tx EXCEPT ![s] = None]

Rollback(s) ==
  /\ tx[s] # None
  /\ Refused(tx[s])
  /\ tx' = [tx EXCEPT ![s] = None]
  /\ UNCHANGED <<name, active, admins, held, granted, permissions>>

--------------------------------------------------------------------------------
(* Who may do what.                                                        *)

Accounts == {u \in User : name[u] # None}
Roles == {r \in Role : name[r] # None}

PermissionCodes(u) ==
  {q \in permissions : \E r \in Role : <<u, r>> \in held /\ <<r, q>> \in granted}

(* resolve_user reads the account on every request: a disabled one is      *)
(* refused however fresh its token; then require(code) looks at its rights. *)
May(u, code) == u \in Accounts \cap active /\ (u \in admins \/ code \in PermissionCodes(u))

(* A request that disables or demotes somebody.                            *)
TakesRights(w) == w.active.off \cup w.admins.off # {}

Request(s, u, writes) ==
  /\ \/ MayOverlap \/ ~TakesRights(writes)
     \/ \A o \in Session : tx[o] # None => ~TakesRights(tx[o])
  /\ tx' = [tx EXCEPT ![s] = [writes EXCEPT !.actor = u]]
  /\ UNCHANGED <<name, active, admins, held, granted, permissions>>

One(x, n) == [y \in {x} |-> n]
Renamed(x, n) == IF n \in {None, name[x]} THEN NoWrites.name ELSE One(x, n)

(* _active_superuser_count                                                 *)
ActiveSuperusers == Accounts \cap admins \cap active

--------------------------------------------------------------------------------
(* Users.                                                                  *)

CreateUser(s, actor, u, n, super, roles) ==
  /\ u \notin Accounts
  /\ ~NameClash(u, n)
  /\ Request(s, actor,
       [NoWrites EXCEPT !.added = {u}, !.name = One(u, n), !.active = [on |-> {u}, off |-> {}],
                        !.admins = Switch(admins, u, super),
                        !.held = Replaced(held, u, roles)])

(* A None leaves its attribute as it is.  Only the administrator's own     *)
(* rights are guarded against the actor, not the actor's own account.      *)
UpdateUser(s, actor, u, n, super, act, roles) ==
  LET losingSuper == super = FALSE /\ u \in admins
      goingInactive == act = FALSE /\ u \in active
  IN  /\ u \in Accounts
      /\ n # name[u] => ~NameClash(u, n)
      /\ ~(losingSuper /\ u = actor)
      /\ (losingSuper \/ goingInactive) /\ u \in admins \cap active
           => Cardinality(ActiveSuperusers) > 1
      /\ Request(s, actor,
           [NoWrites EXCEPT !.name = Renamed(u, n),
                            !.active = Switch(active, u, act),
                            !.admins = Switch(admins, u, super),
                            !.held = IF roles = None THEN Nothing ELSE Replaced(held, u, roles)])

(* MUTANT of DeactivateUser: only one's own account is looked at.          *)
DeactivateOther(s, actor, u) ==
  /\ u \in Accounts \cap active
  /\ u # actor
  /\ Request(s, actor, [NoWrites EXCEPT !.active = Switch(active, u, FALSE)])

(* An account that is disabled already is left alone.                      *)
DeactivateUser(s, actor, u) ==
  /\ u \in Accounts \cap active
  /\ u # actor
  /\ u \in admins => Cardinality(ActiveSuperusers) > 1
  /\ Request(s, actor, [NoWrites EXCEPT !.active = Switch(active, u, FALSE)])

--------------------------------------------------------------------------------
(* Roles.                                                                  *)

CreateRole(s, actor, r, n, perms) ==
  /\ r \notin Roles
  /\ ~NameClash(r, n)
  /\ Request(s, actor,
       [NoWrites EXCEPT !.added = {r}, !.name = One(r, n), !.granted = Replaced(granted, r, perms)])

UpdateRole(s, actor, r, n, perms) ==
  /\ r \in Roles
  /\ n # name[r] => ~NameClash(r, n)
  /\ Request(s, actor,
       [NoWrites EXCEPT
          !.name = Renamed(r, n),
          !.granted = IF perms = None THEN Nothing ELSE Replaced(granted, r, perms)])

(* Holders are counted without a lock on the role.                         *)
DeleteRole(s, actor, r) ==
  /\ r \in Roles
  /\ \A u \in User : <<u, r>> \notin held
  /\ Request(s, actor, [NoWrites EXCEPT !.dropped = {r}])

(* The job adds the permissions that are missing and removes none.         *)
SyncPermissions(s) ==
  /\ tx[s] = None
  /\ permissions # Permission
  /\ tx' = [tx EXCEPT ![s] = [NoWrites EXCEPT !.permissions = Permission \ permissions]]
  /\ UNCHANGED <<name, active, admins, held, granted, permissions>>

--------------------------------------------------------------------------------
Init ==
  /\ name = [x \in User \cup Role |-> IF x \in User THEN FirstName[x] ELSE None]
  /\ active = {u \in User : FirstName[u] # None}
  /\ admins = {FirstAdmin}
  /\ held = {}
  /\ granted = {}
  /\ permissions = {}
  /\ tx = [s \in Session |-> None]

Optional(set) == set \cup {None}

ManageUsers(s, actor) ==
  /\ tx[s] = None
  /\ May(actor, "auth.manage_users")
  /\ \E u \in User :
       \/ DeactivateUser(s, actor, u)
       \/ \E n \in Name, super \in BOOLEAN, roles \in SUBSET Roles :
            CreateUser(s, actor, u, n, super, roles)
       \/ \E n \in Optional(Name), super, act \in Optional(BOOLEAN),
             roles \in Optional(SUBSET Roles) : UpdateUser(s, actor, u, n, super, act, roles)

ManageRoles(s, actor) ==
  /\ tx[s] = None
  /\ May(actor, "auth.manage_roles")
  /\ \E r \in Role :
       \/ DeleteRole(s, actor, r)
       \/ \E n \in Name, perms \in PermissionSets \cap SUBSET permissions :
            CreateRole(s, actor, r, n, perms)
       \/ \E n \in Optional(Name), perms \in Optional(PermissionSets \cap SUBSET permissions) :
            UpdateRole(s, actor, r, n, perms)

Next ==
  \E s \in Session :
    \/ Commit(s)
    \/ Rollback(s)
    \/ SyncPermissions(s)
    \/ \E actor \in User : ManageUsers(s, actor) \/ ManageRoles(s, actor)

Spec == Init /\ [][Next]_vars

--------------------------------------------------------------------------------
(* Properties.                                                             *)

(* However accounts are disabled, enabled, promoted and demoted, by        *)
(* administrators and by managers of users, one active administrator       *)
(* remains ("Cannot remove the last active administrator") while no two    *)
(* requests that disable or demote overlap.                                *)
AdministratorRemains == ActiveSuperusers # {}

(* No two accounts have one username and no two roles one code, although   *)
(* each request looked for the clash before the other wrote.               *)
NamesUnique ==
  \A x, y \in User \cup Role :
    x # y /\ (x \in User <=> y \in User) /\ name[x] # None => name[x] # name[y]

(* Every association row points at an account and a role that exist,       *)
(* although a role may be deleted while a request assigns it.              *)
HeldRolesExist == \A p \in held : name[p[1]] # None /\ name[p[2]] # None

(* A role is deleted only while nobody holds it ("Role is assigned to ...  *)
(* user(s)", delete_role).                                                 *)
DeletedRoleUnheld ==
  [][\A r \in Role : name[r] # None /\ name'[r] = None => \A u \in User : <<u, r>> \notin held]_vars

(* Nobody disables the account they act with ("You cannot deactivate your  *)
(* own account", deactivate_user).                                         *)
OwnAccountStaysActive ==
  [][\A s \in Session : tx[s] # None /\ tx'[s] = None =>
       (tx[s].actor \in active => tx[s].actor \in active')]_vars

================================================================================
