----------------------------- MODULE Accounts_proofs ---------------------------
(***************************************************************************)
(* Proofs about administration.  Users and roles, for any number of        *)
(* accounts, roles and overlapping requests: what the database enforces at *)
(* a commit, unique names and foreign keys, holds however requests         *)
(* overlap; that an administrator remains is decided on rows nobody has    *)
(* locked, and holds while the requests that disable or demote run one     *)
(* after another.  And rate plans, for any plans, prices and days.         *)
(***************************************************************************)
EXTENDS MCAdministration, Sums

(* A write set names one row at most, gives it a name, drops roles only,   *)
(* and gives roles to accounts that are there or that it adds.             *)
WritesOK(w) ==
  /\ \A x, y \in DOMAIN w.name : x = y
  /\ \A x \in DOMAIN w.name : w.name[x] # None
  /\ w.dropped \subseteq Role
  /\ w.held.on \subseteq User \X Role
  /\ \A p \in w.held.on : p[1] \in Accounts \cup DOMAIN w.name

RowsInvariant ==
  /\ DOMAIN name = User \cup Role
  /\ tx = [s \in Session |-> tx[s]]
  /\ held \subseteq User \X Role
  /\ NamesUnique
  /\ HeldRolesExist
  /\ \A s \in Session : tx[s] # None => WritesOK(tx[s])

(* Somebody who is an active administrator stays one when w is committed.  *)
Spares(w) ==
  TakesRights(w) => \E u \in ActiveSuperusers : u \notin w.active.off \cup w.admins.off

AdministratorInvariant ==
  /\ AdministratorRemains
  /\ \A s \in Session : tx[s] # None => Spares(tx[s])
  /\ \A s, o \in Session :
       tx[s] # None /\ tx[o] # None /\ TakesRights(tx[s]) /\ TakesRights(tx[o]) => s = o

(* What every request decides to write.                                    *)
Decided(s, a) ==
  \E w : /\ Request(s, a, w)
         /\ DOMAIN w = DOMAIN NoWrites
         /\ WritesOK(w)
         /\ AdministratorRemains => Spares(w)

--------------------------------------------------------------------------------
(* Write sets.                                                             *)

LEMMA NoWritesFields ==
  /\ NoWrites.name = [x \in {} |-> None] /\ DOMAIN NoWrites.name = {}
  /\ NoWrites.dropped = {} /\ NoWrites.held.on = {}
  /\ NoWrites.active.off = {} /\ NoWrites.admins.off = {}
BY DEF NoWrites, Nothing

LEMMA RenamedOne ==
  ASSUME NEW x, NEW n
  PROVE  \A y \in DOMAIN Renamed(x, n) : y = x /\ Renamed(x, n)[y] # None
BY NoWritesFields DEF Renamed, One

LEMMA ReplacedOn ==
  ASSUME NEW rel, NEW x, NEW ys
  PROVE  Replaced(rel, x, ys).on \subseteq {<<x, y>> : y \in ys}
BY DEF Replaced, Becomes

(* A flag is taken from the account a request is about, if it was set.     *)
LEMMA SwitchOff ==
  ASSUME NEW S, NEW x, NEW v
  PROVE  Switch(S, x, v).off \subseteq {x} \cap S
<1>1. CASE v = None
  BY <1>1 DEF Switch, Nothing
<1>2. CASE v # None
  BY <1>2 DEF Switch, Becomes
<1> QED
  BY <1>1, <1>2

LEMMA SwitchedOff ==
  ASSUME NEW S, NEW x, NEW v \in Optional(BOOLEAN), Switch(S, x, v).off # {}
  PROVE  v = FALSE
<1>1. CASE v = None
  BY <1>1 DEF Switch, Nothing
<1>2. CASE v = TRUE
  <2>1. v # None
    BY <1>2, AccountsAssumption
  <2>2. Switch(S, x, v).off = S \ (S \cup {x})
    BY <1>2, <2>1 DEF Switch, Becomes
  <2> QED
    BY <2>2
<1> QED
  BY <1>1, <1>2 DEF Optional

(* A request that takes rights from u alone, and only while another        *)
(* administrator is active, spares one.                                    *)
LEMMA AnotherAdministrator ==
  ASSUME AdministratorRemains, NEW u, NEW w,
         w.active.off \cup w.admins.off \subseteq {u},
         TakesRights(w) /\ u \in ActiveSuperusers => Cardinality(ActiveSuperusers) > 1
  PROVE  Spares(w)
<1>1. SUFFICES ASSUME TakesRights(w) PROVE \E v \in ActiveSuperusers : v # u
  BY DEF Spares
<1>2. CASE u \in ActiveSuperusers
  <2>1. ActiveSuperusers # {u}
    BY <1>1, <1>2, FS_Singleton
  <2> QED
    BY <1>2, <2>1
<1>3. CASE u \notin ActiveSuperusers
  BY <1>3 DEF AdministratorRemains
<1> QED
  BY <1>2, <1>3

--------------------------------------------------------------------------------
(* Each request.                                                           *)

LEMMA CreateUserDecided ==
  ASSUME NEW s, NEW a, NEW u \in User, NEW n \in Name,
         NEW super \in BOOLEAN, NEW roles \in SUBSET Roles, CreateUser(s, a, u, n, super, roles)
  PROVE  Decided(s, a)
<1> DEFINE w == [NoWrites EXCEPT !.added = {u}, !.name = One(u, n),
                                 !.active = [on |-> {u}, off |-> {}],
                                 !.admins = Switch(admins, u, super),
                                 !.held = Replaced(held, u, roles)]
<1>1. /\ DOMAIN w = DOMAIN NoWrites
      /\ w.name = One(u, n) /\ w.active.off = {} /\ w.admins = Switch(admins, u, super)
      /\ w.held = Replaced(held, u, roles) /\ w.dropped = {}
  BY DEF NoWrites
<1>2. Request(s, a, w) /\ u \notin Accounts
  BY DEF CreateUser
<1> HIDE DEF w
<1>3. WritesOK(w)
  <2>1. w.held.on \subseteq {<<u, r>> : r \in roles} /\ roles \subseteq Role
    BY <1>1, ReplacedOn DEF Roles
  <2> QED
    BY <1>1, <2>1, AccountsAssumption DEF WritesOK, One
<1>4. ASSUME AdministratorRemains PROVE Spares(w)
  <2>1. w.admins.off \subseteq {u} \cap admins
    BY <1>1, SwitchOff, Zenon
  <2>2. w.active.off \cup w.admins.off \subseteq {u}
    BY <1>1, <2>1
  <2> QED
    BY <1>2, <1>4, <2>2, AnotherAdministrator DEF ActiveSuperusers
<1> QED
  BY <1>1, <1>2, <1>3, <1>4 DEF Decided

LEMMA UpdateUserDecided ==
  ASSUME NEW s, NEW a, NEW u \in User, NEW n, NEW super \in Optional(BOOLEAN),
         NEW act \in Optional(BOOLEAN), NEW roles \in Optional(SUBSET Roles),
         UpdateUser(s, a, u, n, super, act, roles)
  PROVE  Decided(s, a)
<1> DEFINE w == [NoWrites EXCEPT !.name = Renamed(u, n),
                                 !.active = Switch(active, u, act),
                                 !.admins = Switch(admins, u, super),
                                 !.held = IF roles = None THEN Nothing
                                          ELSE Replaced(held, u, roles)]
<1>1. /\ DOMAIN w = DOMAIN NoWrites
      /\ w.name = Renamed(u, n) /\ w.dropped = {}
      /\ w.active = Switch(active, u, act) /\ w.admins = Switch(admins, u, super)
      /\ w.held = IF roles = None THEN Nothing ELSE Replaced(held, u, roles)
  BY DEF NoWrites
<1>2. Request(s, a, w) /\ u \in Accounts
  BY DEF UpdateUser
<1>3. (super = FALSE /\ u \in admins) \/ (act = FALSE /\ u \in active)
      => (u \in admins \cap active => Cardinality(ActiveSuperusers) > 1)
  BY DEF UpdateUser
<1> HIDE DEF w
<1>4. WritesOK(w)
  <2>1. w.held.on \subseteq {u} \X Role
    <3>1. CASE roles = None
      BY <1>1, <3>1 DEF Nothing
    <3>2. CASE roles # None
      <4>1. roles \subseteq Role
        BY <3>2 DEF Optional, Roles
      <4> QED
        BY <1>1, <3>2, <4>1, ReplacedOn
    <3> QED
      BY <3>1, <3>2
  <2> QED
    BY <1>1, <1>2, <2>1, RenamedOne DEF WritesOK
<1>5. ASSUME AdministratorRemains PROVE Spares(w)
  <2>1. w.active.off \subseteq {u} \cap active /\ w.admins.off \subseteq {u} \cap admins
    <3>1. Switch(active, u, act).off \subseteq {u} \cap active
      BY SwitchOff, Zenon
    <3>2. Switch(admins, u, super).off \subseteq {u} \cap admins
      BY SwitchOff, Zenon
    <3> QED BY <1>1, <3>1, <3>2
  <2>2. w.active.off # {} => act = FALSE
    BY <1>1, SwitchedOff, Zenon
  <2>3. w.admins.off # {} => super = FALSE
    BY <1>1, SwitchedOff, Zenon
  <2>4. TakesRights(w) => (super = FALSE /\ u \in admins) \/ (act = FALSE /\ u \in active)
    BY <2>1, <2>2, <2>3, Zenon DEF TakesRights
  <2> QED
    BY <1>3, <1>5, <2>1, <2>4, AnotherAdministrator DEF ActiveSuperusers
<1> QED
  BY <1>1, <1>2, <1>4, <1>5 DEF Decided

LEMMA DeactivateUserDecided ==
  ASSUME NEW s, NEW a, NEW u \in User, DeactivateUser(s, a, u)
  PROVE  Decided(s, a)
<1> DEFINE w == [NoWrites EXCEPT !.active = Switch(active, u, FALSE)]
<1>1. /\ DOMAIN w = DOMAIN NoWrites
      /\ w.name = NoWrites.name /\ w.dropped = NoWrites.dropped /\ w.held = NoWrites.held
      /\ w.active = Switch(active, u, FALSE) /\ w.admins = NoWrites.admins
  BY DEF NoWrites
<1>2. Request(s, a, w) /\ (u \in admins => Cardinality(ActiveSuperusers) > 1)
  BY DEF DeactivateUser
<1> HIDE DEF w
<1>3. WritesOK(w)
  BY <1>1, NoWritesFields DEF WritesOK
<1>4. ASSUME AdministratorRemains PROVE Spares(w)
  <2>1. w.active.off \cup w.admins.off \subseteq {u}
    <3>1. w.active.off \subseteq {u} \cap active
      BY <1>1, SwitchOff, Zenon
    <3> QED
      BY <1>1, <3>1, NoWritesFields
  <2> QED
    BY <1>2, <1>4, <2>1, AnotherAdministrator DEF ActiveSuperusers
<1> QED
  BY <1>1, <1>2, <1>3, <1>4 DEF Decided

(* A request that leaves the accounts alone.                               *)
LEMMA NoAccountsWritten ==
  ASSUME NEW w, w.active = NoWrites.active, w.admins = NoWrites.admins
  PROVE  Spares(w)
BY NoWritesFields DEF Spares, TakesRights

LEMMA CreateRoleDecided ==
  ASSUME NEW s, NEW a, NEW r \in Role, NEW n \in Name, NEW perms, CreateRole(s, a, r, n, perms)
  PROVE  Decided(s, a)
<1> DEFINE w == [NoWrites EXCEPT !.added = {r}, !.name = One(r, n),
                                 !.granted = Replaced(granted, r, perms)]
<1>1. /\ DOMAIN w = DOMAIN NoWrites
      /\ w.name = One(r, n) /\ w.dropped = NoWrites.dropped /\ w.held = NoWrites.held
      /\ w.active = NoWrites.active /\ w.admins = NoWrites.admins
  BY DEF NoWrites
<1>2. Request(s, a, w)
  BY DEF CreateRole
<1> HIDE DEF w
<1>3. WritesOK(w)
  BY <1>1, NoWritesFields, AccountsAssumption DEF WritesOK, One
<1> QED
  BY <1>1, <1>2, <1>3, NoAccountsWritten DEF Decided

LEMMA UpdateRoleDecided ==
  ASSUME NEW s, NEW a, NEW r \in Role, NEW n, NEW perms, UpdateRole(s, a, r, n, perms)
  PROVE  Decided(s, a)
<1> DEFINE w == [NoWrites EXCEPT
                   !.name = Renamed(r, n),
                   !.granted = IF perms = None THEN Nothing ELSE Replaced(granted, r, perms)]
<1>1. /\ DOMAIN w = DOMAIN NoWrites
      /\ w.name = Renamed(r, n) /\ w.dropped = NoWrites.dropped /\ w.held = NoWrites.held
      /\ w.active = NoWrites.active /\ w.admins = NoWrites.admins
  BY DEF NoWrites
<1>2. Request(s, a, w)
  BY DEF UpdateRole
<1> HIDE DEF w
<1>3. WritesOK(w)
  BY <1>1, NoWritesFields, RenamedOne DEF WritesOK
<1> QED
  BY <1>1, <1>2, <1>3, NoAccountsWritten DEF Decided

LEMMA DeleteRoleDecided ==
  ASSUME NEW s, NEW a, NEW r \in Role, DeleteRole(s, a, r)
  PROVE  Decided(s, a)
<1> DEFINE w == [NoWrites EXCEPT !.dropped = {r}]
<1>1. /\ DOMAIN w = DOMAIN NoWrites
      /\ w.name = NoWrites.name /\ w.dropped = {r} /\ w.held = NoWrites.held
      /\ w.active = NoWrites.active /\ w.admins = NoWrites.admins
  BY DEF NoWrites
<1>2. Request(s, a, w)
  BY DEF DeleteRole
<1> HIDE DEF w
<1>3. WritesOK(w)
  BY <1>1, NoWritesFields DEF WritesOK
<1> QED
  BY <1>1, <1>2, <1>3, NoAccountsWritten DEF Decided

LEMMA ManageDecided ==
  ASSUME NEW s, NEW a, ManageUsers(s, a) \/ ManageRoles(s, a)
  PROVE  Decided(s, a)
<1>1. CASE ManageUsers(s, a)
  BY <1>1, CreateUserDecided, UpdateUserDecided, DeactivateUserDecided DEF ManageUsers
<1>2. CASE ManageRoles(s, a)
  BY <1>2, CreateRoleDecided, UpdateRoleDecided, DeleteRoleDecided DEF ManageRoles
<1> QED
  BY <1>1, <1>2

--------------------------------------------------------------------------------
(* The rows.                                                               *)

LEMMA DecidedKeepsRows ==
  ASSUME RowsInvariant, NEW s \in Session, NEW a, Decided(s, a)
  PROVE  RowsInvariant'
<1>1. PICK w : Request(s, a, w) /\ DOMAIN w = DOMAIN NoWrites /\ WritesOK(w)
  BY DEF Decided
<1> DEFINE q == [w EXCEPT !.actor = a]
<1>2. tx' = [tx EXCEPT ![s] = q] /\ UNCHANGED <<name, held>>
  BY <1>1 DEF Request
<1>3. q.name = w.name /\ q.dropped = w.dropped /\ q.held = w.held
  BY <1>1 DEF NoWrites
<1> HIDE DEF q
<1>4. WritesOK(q)
  BY <1>1, <1>3 DEF WritesOK
<1>5. \A o \in Session : tx'[o] = IF o = s THEN q ELSE tx[o]
  BY <1>2 DEF RowsInvariant
<1>6. tx' = [o \in Session |-> tx'[o]]
  BY <1>2 DEF RowsInvariant
<1>7. \A v : WritesOK(v) => WritesOK(v)'
  BY <1>2 DEF WritesOK, Accounts
<1> QED
  BY <1>2, <1>4, <1>5, <1>6, <1>7 DEF RowsInvariant, NamesUnique, HeldRolesExist

(* A commit gives the row its write set names another name, and drops      *)
(* roles; nobody's account goes.                                           *)
LEMMA CommittedNames ==
  ASSUME RowsInvariant, NEW s \in Session, Commit(s)
  PROVE  /\ WritesOK(tx[s])
         /\ DOMAIN name' = User \cup Role
         /\ \A x \in User \cup Role :
              name'[x] = IF x \in tx[s].dropped THEN None
                         ELSE IF x \in DOMAIN tx[s].name THEN tx[s].name[x] ELSE name[x]
         /\ Accounts \subseteq Accounts'
<1>1. WritesOK(tx[s])
  BY DEF RowsInvariant, Commit
<1>2. /\ DOMAIN name' = User \cup Role
      /\ \A x \in User \cup Role :
           name'[x] = IF x \in tx[s].dropped THEN None
                      ELSE IF x \in DOMAIN tx[s].name THEN tx[s].name[x] ELSE name[x]
  BY DEF RowsInvariant, Commit
<1>3. Accounts \subseteq Accounts'
  BY <1>1, <1>2, AccountsAssumption DEF Accounts, WritesOK
<1> QED
  BY <1>1, <1>2, <1>3

LEMMA CommitKeepsNames ==
  ASSUME RowsInvariant, NEW s \in Session, Commit(s)
  PROVE  NamesUnique'
<1> DEFINE w == tx[s]
<1>1. /\ WritesOK(w)
      /\ \A x \in User \cup Role :
           name'[x] = IF x \in w.dropped THEN None
                      ELSE IF x \in DOMAIN w.name THEN w.name[x] ELSE name[x]
  BY CommittedNames
<1>2. \A x \in DOMAIN w.name : ~NameClash(x, w.name[x])
  BY DEF Commit, Refused
<1> HIDE DEF w
<1> SUFFICES ASSUME NEW x \in User \cup Role, NEW y \in User \cup Role, x # y,
                    x \in User <=> y \in User, name'[x] # None
             PROVE  name'[x] # name'[y]
  BY DEF NamesUnique
<1>3. name[x] # None => name[x] # name[y]
  BY DEF RowsInvariant, NamesUnique
<1>4. x \in DOMAIN w.name => w.name[x] # name[y]
  BY <1>1, <1>2 DEF NameClash, WritesOK
<1>5. y \in DOMAIN w.name => w.name[y] # name[x]
  BY <1>1, <1>2 DEF NameClash, WritesOK
<1> QED
  BY <1>1, <1>3, <1>4, <1>5 DEF WritesOK

LEMMA CommitKeepsHeld ==
  ASSUME RowsInvariant, NEW s \in Session, Commit(s)
  PROVE  HeldRolesExist' /\ held' \subseteq User \X Role
<1> DEFINE w == tx[s]
<1>1. /\ WritesOK(w)
      /\ \A x \in User \cup Role :
           name'[x] = IF x \in w.dropped THEN None
                      ELSE IF x \in DOMAIN w.name THEN w.name[x] ELSE name[x]
  BY CommittedNames
<1>2. held' \subseteq {p \in held \cup w.held.on : p[2] \notin w.dropped}
  BY DEF Commit, Cascade, Apply
<1>3. \A p \in w.held.on : name[p[2]] # None
  BY DEF Commit, Refused
<1> HIDE DEF w
<1>4. held' \subseteq User \X Role
  BY <1>1, <1>2 DEF WritesOK, RowsInvariant
<1> SUFFICES ASSUME NEW p \in held' PROVE name'[p[1]] # None /\ name'[p[2]] # None
  BY <1>4 DEF HeldRolesExist
<1>5. p[1] \in User /\ p[2] \in Role /\ p[1] \notin Role
  BY <1>4, AccountsAssumption
<1>6. p[1] \in DOMAIN w.name \/ name[p[1]] # None
  BY <1>1, <1>2 DEF WritesOK, Accounts, RowsInvariant, HeldRolesExist
<1>7. name[p[2]] # None
  BY <1>2, <1>3 DEF RowsInvariant, HeldRolesExist
<1> QED
  BY <1>1, <1>2, <1>5, <1>6, <1>7 DEF WritesOK

LEMMA CommitKeepsRows ==
  ASSUME RowsInvariant, NEW s \in Session, Commit(s)
  PROVE  RowsInvariant'
<1>1. DOMAIN name' = User \cup Role /\ Accounts \subseteq Accounts'
  BY CommittedNames
<1>2. tx' = [o \in Session |-> tx'[o]] /\ \A o \in Session : tx'[o] = IF o = s THEN None ELSE tx[o]
  BY DEF Commit, RowsInvariant
<1>3. \A v : WritesOK(v) => WritesOK(v)'
  BY <1>1 DEF WritesOK
<1> QED
  BY <1>1, <1>2, <1>3, CommitKeepsNames, CommitKeepsHeld DEF RowsInvariant

(* A rollback, and the job that adds permissions, leave the names and the  *)
(* associations alone.                                                     *)
LEMMA OthersKeepRows ==
  ASSUME RowsInvariant, NEW s \in Session, Rollback(s) \/ SyncPermissions(s)
  PROVE  RowsInvariant'
<1> DEFINE q == IF Rollback(s) THEN None
                ELSE [NoWrites EXCEPT !.permissions = Permission \ permissions]
<1>1. tx' = [tx EXCEPT ![s] = q] /\ UNCHANGED <<name, held>>
  BY DEF Rollback, SyncPermissions
<1>2. q # None => q.name = NoWrites.name /\ q.dropped = NoWrites.dropped /\ q.held = NoWrites.held
  BY DEF NoWrites
<1> HIDE DEF q
<1>3. q # None => WritesOK(q)
  BY <1>2, NoWritesFields DEF WritesOK
<1>4. tx' = [o \in Session |-> tx'[o]] /\ \A o \in Session : tx'[o] = IF o = s THEN q ELSE tx[o]
  BY <1>1 DEF RowsInvariant
<1>5. \A v : WritesOK(v) => WritesOK(v)'
  BY <1>1 DEF WritesOK, Accounts
<1> QED
  BY <1>1, <1>3, <1>4, <1>5 DEF RowsInvariant, NamesUnique, HeldRolesExist

--------------------------------------------------------------------------------
(* The administrators.                                                     *)

LEMMA DecidedKeepsAdministrator ==
  ASSUME ~MayOverlap, RowsInvariant, AdministratorInvariant, NEW s \in Session, NEW a, Decided(s, a)
  PROVE  AdministratorInvariant'
<1>1. PICK w : Request(s, a, w) /\ DOMAIN w = DOMAIN NoWrites /\ Spares(w)
  BY DEF Decided, AdministratorInvariant
<1> DEFINE q == [w EXCEPT !.actor = a]
<1>2. tx' = [tx EXCEPT ![s] = q] /\ UNCHANGED <<name, active, admins>>
  BY <1>1 DEF Request
<1>3. q.active = w.active /\ q.admins = w.admins
  BY <1>1 DEF NoWrites
<1> HIDE DEF q
<1>4. Spares(q) /\ (TakesRights(q) => TakesRights(w))
  BY <1>1, <1>3 DEF Spares, TakesRights
<1>5. TakesRights(q) => \A o \in Session : tx[o] # None => ~TakesRights(tx[o])
  BY <1>1, <1>4 DEF Request
<1>6. \A o \in Session : tx'[o] = IF o = s THEN q ELSE tx[o]
  BY <1>2 DEF RowsInvariant
<1>7. ActiveSuperusers' = ActiveSuperusers
  BY <1>2 DEF ActiveSuperusers, Accounts
<1>8. \A v : Spares(v) => Spares(v)'
  BY <1>7 DEF TakesRights, Spares
<1> QED
  BY <1>4, <1>5, <1>6, <1>7, <1>8 DEF AdministratorInvariant, AdministratorRemains, TakesRights

LEMMA CommitKeepsAdministrator ==
  ASSUME RowsInvariant, AdministratorInvariant, NEW s \in Session, Commit(s)
  PROVE  AdministratorInvariant'
<1> DEFINE w == tx[s]
<1>1. /\ active' = (active \cup w.active.on) \ w.active.off
      /\ admins' = (admins \cup w.admins.on) \ w.admins.off
      /\ w # None
  BY DEF Commit, Apply
<1>2. \A o \in Session : tx'[o] = IF o = s THEN None ELSE tx[o]
  BY DEF Commit, RowsInvariant
<1>3. Accounts \subseteq Accounts'
  BY CommittedNames
<1> HIDE DEF w
<1>4. \A u \in ActiveSuperusers : u \notin w.active.off \cup w.admins.off => u \in ActiveSuperusers'
  BY <1>1, <1>3 DEF ActiveSuperusers
<1>5. Spares(w)
  BY <1>1 DEF AdministratorInvariant, w
<1>6. ActiveSuperusers' # {}
  <2>1. CASE TakesRights(w)
    BY <1>4, <1>5, <2>1 DEF Spares
  <2>2. CASE ~TakesRights(w)
    BY <1>1, <1>4, <2>2 DEF TakesRights, AdministratorInvariant, AdministratorRemains
  <2> QED
    BY <2>1, <2>2
<1>7. ASSUME NEW o \in Session, tx'[o] # None PROVE Spares(tx[o])'
  <2>1. o # s /\ tx'[o] = tx[o] /\ Spares(tx[o])
    BY <1>2, <1>7 DEF AdministratorInvariant
  <2>2. CASE TakesRights(tx[o])
    <3>1. ~TakesRights(w)
      BY <1>1, <1>2, <1>7, <2>1, <2>2 DEF AdministratorInvariant, w
    <3>2. ActiveSuperusers \subseteq ActiveSuperusers'
      BY <1>1, <1>4, <3>1 DEF TakesRights
    <3> QED
      BY <2>1, <3>2 DEF Spares, TakesRights
  <2>3. CASE ~TakesRights(tx[o])
    BY <2>1, <2>3 DEF Spares, TakesRights
  <2> QED
    BY <2>2, <2>3
<1>8. (\A o, p \in Session :
         tx[o] # None /\ tx[p] # None /\ TakesRights(tx[o]) /\ TakesRights(tx[p]) => o = p)'
  BY <1>2 DEF AdministratorInvariant, TakesRights
<1> QED
  BY <1>6, <1>7, <1>8 DEF AdministratorInvariant, AdministratorRemains

LEMMA OthersKeepAdministrator ==
  ASSUME RowsInvariant, AdministratorInvariant, NEW s \in Session, Rollback(s) \/ SyncPermissions(s)
  PROVE  AdministratorInvariant'
<1> DEFINE q == IF Rollback(s) THEN None
                ELSE [NoWrites EXCEPT !.permissions = Permission \ permissions]
<1>1. tx' = [tx EXCEPT ![s] = q] /\ UNCHANGED <<name, active, admins>>
  BY DEF Rollback, SyncPermissions
<1>2. q # None => q.active = NoWrites.active /\ q.admins = NoWrites.admins
  BY DEF NoWrites
<1> HIDE DEF q
<1>3. q # None => ~TakesRights(q)
  BY <1>2, NoWritesFields DEF TakesRights
<1>4. \A o \in Session : tx'[o] = IF o = s THEN q ELSE tx[o]
  BY <1>1 DEF RowsInvariant
<1>5. ActiveSuperusers' = ActiveSuperusers
  BY <1>1 DEF ActiveSuperusers, Accounts
<1>6. \A v : Spares(v) => Spares(v)'
  BY <1>5 DEF TakesRights, Spares
<1> QED
  BY <1>3, <1>4, <1>5, <1>6 DEF AdministratorInvariant, AdministratorRemains, Spares, TakesRights

--------------------------------------------------------------------------------
LEMMA InitRows == Init => RowsInvariant
<1> SUFFICES ASSUME Init PROVE RowsInvariant
  OBVIOUS
<1>1. DOMAIN name = User \cup Role /\ held = {}
  BY DEF Init
<1>2. tx = [s \in Session |-> tx[s]] /\ \A s \in Session : tx[s] = None
  BY DEF Init
<1>3. \A x \in User \cup Role : name[x] # None => x \in User /\ name[x] = FirstName[x]
  BY DEF Init
<1>4. NamesUnique
  BY <1>3, AccountsAssumption DEF NamesUnique
<1> QED
  BY <1>1, <1>2, <1>4 DEF RowsInvariant, HeldRolesExist

LEMMA InitAdministrator == Init => AdministratorInvariant
<1> SUFFICES ASSUME Init PROVE AdministratorInvariant
  OBVIOUS
<1>1. FirstAdmin \in ActiveSuperusers
  BY AccountsAssumption DEF Init, ActiveSuperusers, Accounts
<1>2. \A s \in Session : tx[s] = None
  BY DEF Init
<1> QED
  BY <1>1, <1>2 DEF AdministratorInvariant, AdministratorRemains

--------------------------------------------------------------------------------
(* Every step keeps them; nothing changes when a step stutters.            *)

LEMMA NextKeepsRows == RowsInvariant /\ [Next]_vars => RowsInvariant'
<1> SUFFICES ASSUME RowsInvariant, [Next]_vars PROVE RowsInvariant'
  OBVIOUS
<1>1. CASE UNCHANGED vars
  BY <1>1 DEF vars, RowsInvariant, NamesUnique, HeldRolesExist, WritesOK, Accounts
<1>2. CASE Next
  <2>1. PICK s \in Session :
          \/ Commit(s)
          \/ Rollback(s) \/ SyncPermissions(s)
          \/ \E a \in User : ManageUsers(s, a) \/ ManageRoles(s, a)
    BY <1>2 DEF Next
  <2> QED
    BY <2>1, CommitKeepsRows, OthersKeepRows, ManageDecided, DecidedKeepsRows
<1> QED
  BY <1>1, <1>2

LEMMA NextKeepsAdministrator ==
  ~MayOverlap => (RowsInvariant /\ AdministratorInvariant /\ [Next]_vars => AdministratorInvariant')
<1> SUFFICES ASSUME ~MayOverlap, RowsInvariant, AdministratorInvariant, [Next]_vars
             PROVE  AdministratorInvariant'
  OBVIOUS
<1>1. CASE UNCHANGED vars
  BY <1>1 DEF vars, AdministratorInvariant, AdministratorRemains, Spares, TakesRights,
              ActiveSuperusers, Accounts
<1>2. CASE Next
  <2>1. PICK s \in Session :
          \/ Commit(s)
          \/ Rollback(s) \/ SyncPermissions(s)
          \/ \E a \in User : ManageUsers(s, a) \/ ManageRoles(s, a)
    BY <1>2 DEF Next
  <2> QED
    BY <2>1, CommitKeepsAdministrator, OthersKeepAdministrator, ManageDecided,
       DecidedKeepsAdministrator
<1> QED
  BY <1>1, <1>2

LEMMA RowsAlways == Spec => []RowsInvariant
BY InitRows, NextKeepsRows, PTL DEF Spec

(* No two accounts have one username and no two roles one code, however    *)
(* many requests look for the clash before the others write (auth/service  *)
(* create_user, update_user, create_role, update_role).                    *)
THEOREM NamesStayUnique == Spec => []NamesUnique
<1>1. RowsInvariant => NamesUnique
  BY DEF RowsInvariant
<1> QED
  BY <1>1, RowsAlways, PTL

(* Nobody holds a role that does not exist, and no account that does not   *)
(* exist holds one, although roles are deleted and assigned at once        *)
(* (auth/service delete_role, _resolve_roles; auth/models auth_user_roles). *)
THEOREM HeldRolesStay == Spec => []HeldRolesExist
<1>1. RowsInvariant => HeldRolesExist
  BY DEF RowsInvariant
<1> QED
  BY <1>1, RowsAlways, PTL

(* While the requests that disable or demote run one after another, some   *)
(* active administrator is left by any sequence of them, in any mix with   *)
(* other requests that do overlap (auth/service update_user,               *)
(* deactivate_user, _active_superuser_count).                              *)
THEOREM AnAdministratorRemains == ~MayOverlap => (Spec => []AdministratorRemains)
<1> SUFFICES ASSUME ~MayOverlap PROVE Spec => []AdministratorRemains
  OBVIOUS
<1>1. Init => AdministratorInvariant
  BY InitAdministrator
<1>2. RowsInvariant /\ AdministratorInvariant /\ [Next]_vars => AdministratorInvariant'
  BY NextKeepsAdministrator
<1>3. AdministratorInvariant => AdministratorRemains
  BY DEF AdministratorInvariant
<1> QED
  BY <1>1, <1>2, <1>3, RowsAlways, PTL DEF Spec


--------------------------------------------------------------------------------
(* The rate plans.  For any plans, room types and days: prices are refused *)
(* for long derivations only, and a search offers what a booking is quoted.*)

(* No day is left out, prices are naturals, a derivation adds or takes an  *)
(* amount or a percentage, and the depth allowed is a number.              *)
RatesGiven ==
  /\ None \notin Plan \cup Adjustment
  /\ Day \subseteq Int /\ \A a, b \in Day : a..b \subseteq Day
  /\ Amount \subseteq Nat
  /\ Adjustment \subseteq [mode : {"amount", "percent"}, value : Int]
  /\ MAX_DERIVE_DEPTH \in Nat

(* A plan on offer exists, and so does the plan a plan derives from.       *)
PlansInvariant ==
  /\ plans \subseteq Plan /\ offered \subseteq plans
  /\ parent \in [Plan -> Plan \cup {None}]
  /\ \A p \in plans : parent[p] \in plans \cup {None}
  /\ adjustment \in [Plan -> Adjustment \cup {None}]
  /\ calendar \in [Plan -> [RoomType -> [Day -> Amount \cup {Plans!Unpriced}]]]

LEMMA InitPlans == Plans!Init => PlansInvariant
BY DEF Plans!Init, PlansInvariant

LEMMA SetRatesKeepsPlans ==
  ASSUME PlansInvariant, NEW p \in Plan, NEW t \in RoomType, NEW start, NEW end,
         NEW amount \in Amount, Plans!SetRates(p, t, start, end, amount)
  PROVE  PlansInvariant'
<1> DEFINE nights == Plans!Nights(start, end)
           row == [d \in Day |-> IF d \in nights THEN amount ELSE calendar[p][t][d]]
<1>1. calendar' = [calendar EXCEPT ![p] = [calendar[p] EXCEPT ![t] = row]]
  BY DEF Plans!SetRates
<1>2. row \in [Day -> Amount \cup {Plans!Unpriced}]
  <2> HIDE DEF nights
  <2> QED BY DEF PlansInvariant
<1> HIDE DEF row
<1>3. calendar' \in [Plan -> [RoomType -> [Day -> Amount \cup {Plans!Unpriced}]]]
  <2> DEFINE Prices == [Day -> Amount \cup {Plans!Unpriced}]
  <2>1. calendar \in [Plan -> [RoomType -> Prices]] /\ row \in Prices
    BY <1>2 DEF PlansInvariant
  <2> HIDE DEF Prices
  <2>2. calendar' \in [Plan -> [RoomType -> Prices]]
    BY <1>1, <2>1
  <2> QED BY <2>2 DEF Prices
<1>4. Plans!Unpriced' = Plans!Unpriced
  BY DEF Plans!Unpriced
<1> QED BY <1>3, <1>4 DEF Plans!SetRates, PlansInvariant

LEMMA NextKeepsPlans == PlansInvariant /\ [Plans!Next]_Plans!vars => PlansInvariant'
<1> SUFFICES ASSUME PlansInvariant, [Plans!Next]_Plans!vars PROVE PlansInvariant'
  OBVIOUS
<1> USE DEF Plans!Unpriced
<1>1. ASSUME NEW p \in Plan, NEW up \in Plan \cup {None}, NEW adjust \in Adjustment \cup {None},
             NEW types, Plans!CreatePlan(p, up, adjust, types)
      PROVE  PlansInvariant'
  BY <1>1 DEF Plans!CreatePlan, PlansInvariant
<1>2. ASSUME NEW p \in Plan, NEW up \in Plan \cup {None}, NEW adjust \in Adjustment \cup {None},
             NEW act, NEW types, Plans!UpdatePlan(p, up, adjust, act, types)
      PROVE  PlansInvariant'
  BY <1>2 DEF Plans!UpdatePlan, PlansInvariant
<1>3. ASSUME NEW p \in Plan, NEW t \in RoomType, NEW start, NEW end, NEW amount \in Amount,
             Plans!SetRates(p, t, start, end, amount)
      PROVE  PlansInvariant'
  BY <1>3, SetRatesKeepsPlans
<1>4. ASSUME NEW p, NEW t, NEW start, NEW end, NEW edit,
             Plans!SetRestrictions(p, t, start, end, edit)
      PROVE  PlansInvariant'
  BY <1>4 DEF Plans!SetRestrictions, PlansInvariant
<1>5. CASE UNCHANGED Plans!vars
  BY <1>5 DEF Plans!vars, PlansInvariant
<1> QED BY <1>1, <1>2, <1>3, <1>4, <1>5 DEF Plans!Next, Plans!Ask

(* g[k][q] is the price of plan q when k derivations may be followed.      *)
Priced(g, t, d, m) ==
  g = [k \in 0..m |->
         [q \in Plan |->
            IF ~Plans!is_derived(q) THEN calendar[q][t][d]
            ELSE IF k = 0 THEN Plans!TooDeep
            ELSE LET base == g[k - 1][parent[q]]
                 IN  IF base < 0 THEN base ELSE Plans!Derive(base, adjustment[q])]]

LEMMA PricesFollow ==
  ASSUME RatesGiven, NEW t, NEW d, NEW p
  PROVE  \E g : Priced(g, t, d, MAX_DERIVE_DEPTH) /\ Plans!Price(p, t, d) = g[MAX_DERIVE_DEPTH][p]
<1> DEFINE n == MAX_DERIVE_DEPTH
           Bad == {m \in 0..n : ~\E g : Priced(g, t, d, m)}
<1>1. n \in Nat
  BY DEF RatesGiven
<1>2. Bad = {}
  <2> SUFFICES ASSUME Bad # {} PROVE FALSE
    OBVIOUS
  <2>1. PICK m \in Bad : \A k \in Bad : m <= k
    <3>1. Bad \in SUBSET Nat
      BY <1>1
    <3> HIDE DEF Bad
    <3> QED BY <3>1, NatLeast
  <2> DEFINE At(k, below) ==
               [q \in Plan |->
                  IF ~Plans!is_derived(q) THEN calendar[q][t][d]
                  ELSE IF k = 0 THEN Plans!TooDeep
                  ELSE LET base == below[parent[q]]
                       IN  IF base < 0 THEN base ELSE Plans!Derive(base, adjustment[q])]
  <2>2. \A g, k : Priced(g, t, d, k) <=> g = [i \in 0..k |-> At(i, g[i - 1])]
    BY DEF Priced
  <2>3. \A b, c : At(0, b) = At(0, c)
    OBVIOUS
  <2> HIDE DEF At
  <2>4. m # 0
    <3> DEFINE first == [k \in 0..0 |-> At(0, 0)]
    <3>1. \A k \in 0..0 : k = 0
      OBVIOUS
    <3>2. \A k \in 0..0 : first[k] = At(k, first[k - 1])
      BY <2>3, <3>1
    <3>3. first = [k \in 0..0 |-> At(k, first[k - 1])]
      BY <3>2
    <3> HIDE DEF first
    <3>4. Priced(first, t, d, 0)
      BY <2>2, <3>3
    <3> QED BY <2>1, <3>4
  <2>5. m \in 0..n /\ m - 1 \in 0..n /\ m - 1 \notin Bad
    BY <1>1, <2>1, <2>4
  <2>6. PICK g : Priced(g, t, d, m - 1)
    BY <2>5
  <2> DEFINE h == [k \in 0..m |-> IF k = m THEN At(m, g[m - 1]) ELSE g[k]]
  <2>7. \A k \in 0..m : h[k] = At(k, h[k - 1])
    <3> SUFFICES ASSUME NEW k \in 0..m PROVE h[k] = At(k, h[k - 1])
      OBVIOUS
    <3>1. CASE k = m
      BY <2>4, <2>5, <3>1
    <3>2. CASE k = 0
      BY <2>2, <2>3, <2>4, <2>5, <2>6, <3>2
    <3>3. CASE k # m /\ k # 0
      <4>1. k \in 0..(m - 1) /\ k - 1 \in 0..m /\ k - 1 # m
        BY <2>5, <3>3
      <4>2. h[k] = g[k] /\ h[k - 1] = g[k - 1]
        BY <3>3, <4>1
      <4>3. g = [i \in 0..(m - 1) |-> At(i, g[i - 1])]
        BY <2>2, <2>6
      <4>4. g[k] = At(k, g[k - 1])
        BY <4>1, <4>3
      <4> QED BY <4>2, <4>4
    <3> QED BY <3>1, <3>2, <3>3
  <2>8. h = [k \in 0..m |-> At(k, h[k - 1])]
    BY <2>7
  <2>9. Priced(h, t, d, m)
    <3> HIDE DEF h
    <3> QED BY <2>2, <2>8
  <2> QED BY <2>1, <2>9
<1>3. \E g : Priced(g, t, d, n)
  <2>1. n \in 0..n
    BY <1>1
  <2>2. n \notin Bad
    <3> HIDE DEF Bad
    <3> QED BY <1>2
  <2> QED BY <2>1, <2>2
<1>4. n - 0 = n
  BY <1>1
<1> QED BY <1>3, <1>4 DEF Plans!Price, Plans!PriceAt, Priced, n

(* A derived price is a price.                                             *)
LEMMA DeriveType ==
  ASSUME RatesGiven, NEW base \in Nat, NEW adjust \in Adjustment \cup {None}
  PROVE  Plans!Derive(base, adjust) \in Nat
<1>1. CASE adjust = None
  BY <1>1 DEF Plans!Derive
<1>2. CASE adjust # None
  <2>1. adjust.value \in Int /\ adjust.mode \in {"amount", "percent"}
    BY <1>2 DEF RatesGiven
  <2>2. base + adjust.value \in Int
    BY <2>1
  <2>3. (2 * base * (100 + adjust.value) + 100) \div 200 \in Int
    BY <2>1
  <2>4. \A a \in Int : Plans!Max2(a, 0) \in Nat
    BY DEF Plans!Max2
  <2> QED BY <1>2, <2>1, <2>2, <2>3, <2>4 DEF Plans!Derive
<1> QED BY <1>1, <1>2

(* g[i] is the plan i derivations up from p.                               *)
Ancestry(g, p, k) ==
  g = [i \in 0..k |-> IF i = 0 THEN p ELSE IF g[i - 1] = None THEN None ELSE parent[g[i - 1]]]

LEMMA AncestorsFollow ==
  ASSUME NEW p, NEW k \in Nat
  PROVE  \E g : Ancestry(g, p, k) /\ Plans!Ancestor(p, k) = g[k]
<1> DEFINE Bad == {m \in 0..k : ~\E g : Ancestry(g, p, m)}
<1>1. Bad = {}
  <2> SUFFICES ASSUME Bad # {} PROVE FALSE
    OBVIOUS
  <2>1. PICK m \in Bad : \A n \in Bad : m <= n
    <3>1. Bad \in SUBSET Nat
      OBVIOUS
    <3> HIDE DEF Bad
    <3> QED BY <3>1, NatLeast
  <2>2. m # 0
    <3>1. Ancestry([i \in 0..0 |-> p], p, 0)
      BY DEF Ancestry
    <3> QED BY <2>1, <3>1
  <2>3. m \in 0..k /\ m - 1 \in 0..k /\ m - 1 \notin Bad
    BY <2>1, <2>2
  <2>4. PICK g : Ancestry(g, p, m - 1)
    BY <2>3
  <2> DEFINE h == [i \in 0..m |->
                     IF i = m THEN IF g[m - 1] = None THEN None ELSE parent[g[m - 1]] ELSE g[i]]
  <2>5. ASSUME NEW i \in 0..m
        PROVE  h[i] = IF i = 0 THEN p ELSE IF h[i - 1] = None THEN None ELSE parent[h[i - 1]]
    <3>1. g = [j \in 0..(m - 1) |->
                 IF j = 0 THEN p ELSE IF g[j - 1] = None THEN None ELSE parent[g[j - 1]]]
      BY <2>4 DEF Ancestry
    <3>2. CASE i = m
      <4>1. h[i] = IF g[m - 1] = None THEN None ELSE parent[g[m - 1]]
        BY <3>2
      <4>2. h[i - 1] = g[m - 1] /\ i # 0
        BY <2>2, <2>3, <3>2
      <4> QED BY <3>2, <4>1, <4>2
    <3>3. CASE i # m
      <4>1. i \in 0..(m - 1) /\ h[i] = g[i] /\ (i # 0 => h[i - 1] = g[i - 1])
        BY <2>3, <3>3
      <4> HIDE DEF h
      <4>2. g[i] = IF i = 0 THEN p ELSE IF g[i - 1] = None THEN None ELSE parent[g[i - 1]]
        BY <3>1, <4>1
      <4> QED BY <4>1, <4>2
    <3> QED BY <3>2, <3>3
  <2>6. Ancestry(h, p, m)
    <3>1. h = [i \in 0..m |-> h[i]]
      OBVIOUS
    <3> HIDE DEF h
    <3> QED BY <2>5, <3>1 DEF Ancestry
  <2> QED BY <2>1, <2>6
<1>2. \E g : Ancestry(g, p, k)
  <2>1. k \in 0..k
    OBVIOUS
  <2>2. k \notin Bad
    <3> HIDE DEF Bad
    <3> QED BY <1>1
  <2> QED BY <2>1, <2>2
<1> QED BY <1>2 DEF Plans!Ancestor, Ancestry

(* The ancestors of a plan are those of its parent, one derivation later.  *)
LEMMA AncestorShift ==
  ASSUME RatesGiven, PlansInvariant, NEW q \in plans, NEW k \in Nat
  PROVE  /\ parent[q] = None => Plans!Ancestor(q, k + 1) = None
         /\ parent[q] # None => Plans!Ancestor(q, k + 1) = Plans!Ancestor(parent[q], k)
<1>1. PICK g : Ancestry(g, q, k + 1) /\ Plans!Ancestor(q, k + 1) = g[k + 1]
  BY AncestorsFollow
<1>2. PICK h : Ancestry(h, parent[q], k) /\ Plans!Ancestor(parent[q], k) = h[k]
  BY AncestorsFollow
<1>3. /\ g[0] = q
      /\ \A i \in 1..(k + 1) : g[i] = IF g[i - 1] = None THEN None ELSE parent[g[i - 1]]
  BY <1>1 DEF Ancestry
<1>4. /\ h[0] = parent[q]
      /\ \A i \in 1..k : h[i] = IF h[i - 1] = None THEN None ELSE parent[h[i - 1]]
  BY <1>2 DEF Ancestry
<1>5. q # None
  BY DEF RatesGiven, PlansInvariant
<1> DEFINE Bad == {i \in 0..k : g[i + 1] # IF parent[q] = None THEN None ELSE h[i]}
<1>6. Bad = {}
  <2> SUFFICES ASSUME Bad # {} PROVE FALSE
    OBVIOUS
  <2>1. PICK m \in Bad : \A n \in Bad : m <= n
    <3>1. Bad \in SUBSET Nat
      OBVIOUS
    <3> HIDE DEF Bad
    <3> QED BY <3>1, NatLeast
  <2>2. g[1] = parent[q]
    BY <1>3, <1>5
  <2>3. m # 0
    BY <1>4, <2>1, <2>2
  <2>4. m \in 1..k /\ m - 1 \in 0..k /\ m - 1 \notin Bad /\ m + 1 \in 1..(k + 1)
    BY <2>1, <2>3
  <2>5. g[m] = IF parent[q] = None THEN None ELSE h[m - 1]
    BY <2>4
  <2>6. g[m + 1] = IF g[m] = None THEN None ELSE parent[g[m]]
    BY <1>3, <2>4
  <2>7. h[m] = IF h[m - 1] = None THEN None ELSE parent[h[m - 1]]
    BY <1>4, <2>4
  <2> QED BY <2>1, <2>5, <2>6, <2>7
<1>7. k \in 0..k /\ k \notin Bad
  <2> HIDE DEF Bad
  <2> QED BY <1>6
<1> QED BY <1>1, <1>2, <1>7

(* A plan has a price, has none, or is refused as too deep, which it is    *)
(* just when it has more ancestors than may be followed.                   *)
LEMMA PricesOfPlans ==
  ASSUME RatesGiven, PlansInvariant, NEW t \in RoomType, NEW d \in Day, NEW p \in plans
  PROVE  /\ Plans!Price(p, t, d) \in Nat \cup {Plans!Unpriced, Plans!TooDeep}
         /\ Plans!Price(p, t, d) = Plans!TooDeep
              <=> Plans!Ancestor(p, MAX_DERIVE_DEPTH + 1) # None
<1> DEFINE n == MAX_DERIVE_DEPTH
           Priceable == Nat \cup {Plans!Unpriced, Plans!TooDeep}
<1>1. PICK g : Priced(g, t, d, n) /\ Plans!Price(p, t, d) = g[n][p]
  BY PricesFollow
<1>2. n \in Nat
  BY DEF RatesGiven
<1> DEFINE Right(k) ==
      \A q \in plans : g[k][q] \in Priceable
                       /\ (g[k][q] = Plans!TooDeep <=> Plans!Ancestor(q, k + 1) # None)
           Bad == {k \in 0..n : ~Right(k)}
<1>3. Bad = {}
  <2> SUFFICES ASSUME Bad # {} PROVE FALSE
    OBVIOUS
  <2>1. PICK m \in Bad : \A k \in Bad : m <= k
    <3>1. Bad \in SUBSET Nat
      BY <1>2
    <3> HIDE DEF Bad
    <3> QED BY <3>1, NatLeast
  <2>2. m \in 0..n /\ m \in Nat
    BY <1>2
  <2>3. PICK q \in plans :
          ~(/\ g[m][q] \in Priceable
            /\ g[m][q] = Plans!TooDeep <=> Plans!Ancestor(q, m + 1) # None)
    BY <2>1
  <2>4. q \in Plan /\ parent[q] \in plans \cup {None} /\ q # None
    BY DEF PlansInvariant, RatesGiven
  <2>5. g[m][q] = IF parent[q] = None THEN calendar[q][t][d]
                  ELSE IF m = 0 THEN Plans!TooDeep
                  ELSE LET base == g[m - 1][parent[q]]
                       IN  IF base < 0 THEN base ELSE Plans!Derive(base, adjustment[q])
    <3> HIDE DEF Bad
    <3>1. g[m] = [x \in Plan |->
                    IF ~Plans!is_derived(x) THEN calendar[x][t][d]
                    ELSE IF m = 0 THEN Plans!TooDeep
                    ELSE LET base == g[m - 1][parent[x]]
                         IN  IF base < 0 THEN base ELSE Plans!Derive(base, adjustment[x])]
      BY <1>1, <2>2 DEF Priced
    <3>2. g[m][q] = IF ~Plans!is_derived(q) THEN calendar[q][t][d]
                    ELSE IF m = 0 THEN Plans!TooDeep
                    ELSE LET base == g[m - 1][parent[q]]
                         IN  IF base < 0 THEN base ELSE Plans!Derive(base, adjustment[q])
      BY <2>4, <3>1
    <3> QED BY <3>2 DEF Plans!is_derived
  <2>6. calendar[q][t][d] \in Nat \cup {Plans!Unpriced}
    <3> HIDE DEF Bad
    <3>1. calendar[q] \in [RoomType -> [Day -> Amount \cup {Plans!Unpriced}]]
      BY <2>4 DEF PlansInvariant
    <3>2. calendar[q][t][d] \in Amount \cup {Plans!Unpriced}
      BY <3>1
    <3> QED BY <3>2 DEF RatesGiven
  <2>7. /\ parent[q] = None => Plans!Ancestor(q, m + 1) = None
        /\ parent[q] # None => Plans!Ancestor(q, m + 1) = Plans!Ancestor(parent[q], m)
    BY <2>2, AncestorShift
  <2>8. CASE parent[q] = None
    BY <2>3, <2>5, <2>6, <2>7, <2>8 DEF Plans!Unpriced, Plans!TooDeep
  <2>9. CASE parent[q] # None /\ m = 0
    <3>1. Plans!Ancestor(parent[q], 0) = parent[q]
      <4>1. PICK h : Ancestry(h, parent[q], 0) /\ Plans!Ancestor(parent[q], 0) = h[0]
        BY AncestorsFollow
      <4> QED BY <4>1 DEF Ancestry
    <3> QED BY <2>3, <2>5, <2>7, <2>9, <3>1
  <2>10. CASE parent[q] # None /\ m # 0
    <3> DEFINE base == g[m - 1][parent[q]]
    <3>1. m - 1 \in 0..n /\ m - 1 \notin Bad /\ (m - 1) + 1 = m
      <4> HIDE DEF Bad
      <4> QED BY <1>2, <2>1, <2>2, <2>10
    <3>2. base \in Priceable /\ (base = Plans!TooDeep <=> Plans!Ancestor(parent[q], m) # None)
      BY <2>4, <2>10, <3>1
    <3>3. g[m][q] = IF base < 0 THEN base ELSE Plans!Derive(base, adjustment[q])
      BY <2>5, <2>10
    <3>4. adjustment[q] \in Adjustment \cup {None}
      BY <2>4 DEF PlansInvariant
    <3> HIDE DEF base
    <3>5. CASE base < 0
      BY <2>3, <2>7, <2>10, <3>2, <3>3, <3>5
    <3>6. CASE ~(base < 0)
      <4>1. base \in Nat
        BY <3>2, <3>6 DEF Plans!Unpriced, Plans!TooDeep
      <4>2. Plans!Derive(base, adjustment[q]) \in Nat
        BY <3>4, <4>1, DeriveType
      <4> QED BY <2>3, <2>7, <2>10, <3>2, <3>3, <3>6, <4>1, <4>2 DEF Plans!TooDeep
    <3> QED BY <3>5, <3>6
  <2> QED BY <2>8, <2>9, <2>10
<1>4. n \in 0..n /\ n \notin Bad
  <2> HIDE DEF Bad
  <2> QED BY <1>2, <1>3
<1>5. Right(n)
  BY <1>4
<1> QED BY <1>1, <1>5

LEMMA PlansAlways == RatesGiven => (Plans!Spec => []PlansInvariant)
BY InitPlans, NextKeepsPlans, PTL DEF Plans!Spec

(* However plans are made to derive from each other, and whatever prices   *)
(* are set, a price is refused as too deep for the plans with more than    *)
(* MAX_DERIVE_DEPTH derivations above them, those of a cycle among them,   *)
(* and for no other (nightly_amount).                                      *)
THEOREM OnlyLongChainsRefused == RatesGiven => (Plans!Spec => []OnlyDeepPlansRefused)
<1> SUFFICES ASSUME RatesGiven PROVE Plans!Spec => []OnlyDeepPlansRefused
  OBVIOUS
<1>1. PlansInvariant => OnlyDeepPlansRefused
  BY PricesOfPlans DEF OnlyDeepPlansRefused, Plans!OnlyDeepPlansRefused
<1> QED BY <1>1, PlansAlways, PTL

(* Whatever the plans, prices and restrictions, a search offers without a  *)
(* restriction what can be booked at the total it shows, and with one what *)
(* cannot (_rate_plan_offers, quote).                                      *)
THEOREM OffersCanBeBooked == RatesGiven => (Plans!Spec => []OffersAreQuoted)
<1> SUFFICES ASSUME RatesGiven PROVE Plans!Spec => []OffersAreQuoted
  OBVIOUS
<1>1. PlansInvariant => OffersAreQuoted
  <2> SUFFICES ASSUME PlansInvariant, NEW t \in RoomType, NEW s \in Plans!Stays,
                      ~Plans!SearchFails(t, s[1], s[2]),
                      NEW o \in Plans!Offers(t, s[1], s[2])
               PROVE  Plans!Quote(o.plan, t, s[1], s[2]) =
                        IF o.restrictions = {} THEN o.total ELSE None
    BY DEF OffersAreQuoted, Plans!OffersAreQuoted
  <2>1. PICK p \in Plans!Selling(t) :
          /\ Plans!Unpriced \notin Plans!Prices(p, t, s[1], s[2])
          /\ o = [plan |-> p, total |-> Plans!Total(p, t, s[1], s[2]),
                  restrictions |-> Plans!Reasons(p, t, s[1], s[2])]
    BY DEF Plans!Offers
  <2>2. p \in plans /\ <<p, t>> \in sells
    BY DEF Plans!Selling, PlansInvariant
  <2>3. Plans!TooDeep \notin Plans!Prices(p, t, s[1], s[2])
    BY <2>1 DEF Plans!SearchFails
  <2>4. \A a \in Plans!Prices(p, t, s[1], s[2]) : a >= 0
    <3> SUFFICES ASSUME NEW d \in Plans!Nights(s[1], s[2]) PROVE Plans!Price(p, t, d) >= 0
      BY DEF Plans!Prices
    <3>1. d \in Day
      <4> DEFINE a == s[1]
                 b == s[2]
      <4>1. a \in Day /\ b \in Day /\ Day \subseteq Int
        BY DEF Plans!Stays, RatesGiven
      <4>2. d \in a..(b - 1)
        BY DEF Plans!Nights
      <4> HIDE DEF a, b
      <4>3. d \in a..b
        BY <4>1, <4>2
      <4> QED BY <4>1, <4>3 DEF RatesGiven
    <3>2. Plans!Price(p, t, d) \in Nat \cup {Plans!Unpriced, Plans!TooDeep}
      BY <2>2, <3>1, PricesOfPlans
    <3>3. Plans!Price(p, t, d) \in Plans!Prices(p, t, s[1], s[2])
      BY DEF Plans!Prices
    <3> QED BY <2>1, <2>3, <3>2, <3>3
  <2> QED BY <2>1, <2>2, <2>4 DEF Plans!Quote
<1> QED BY <1>1, PlansAlways, PTL

--------------------------------------------------------------------------------
(* The price of an upgrade.                                                *)

(* What the nights of a stay come to, in either type, and the price of the *)
(* upgrade, are such sums.                                                 *)
LEMMA TotalIsSum ==
  ASSUME NEW p, NEW t, NEW a, NEW b
  PROVE  Plans!Total(p, t, a, b) = Total([d \in Plans!Nights(a, b) |-> Plans!Price(p, t, d)])
<1> DEFINE N == Plans!Nights(a, b)
           A == [d \in N |-> Plans!Price(p, t, d)]
           Here(g) == [s \in SUBSET N |->
                         IF s = {} THEN 0 ELSE Plans!Price(p, t, Pick(s)) + g[s \ {Pick(s)}]]
           There(g) == [s \in SUBSET N |-> IF s = {} THEN 0 ELSE A[Pick(s)] + g[s \ {Pick(s)}]]
<1>1. Plans!Total(p, t, a, b) = (CHOOSE g : g = Here(g))[N]
  BY DEF Plans!Total, Plans!MapThenSumSet, Plans!MapThenFoldSet, Pick
<1>2. DOMAIN A = N
  OBVIOUS
<1>3. Total(A) = (CHOOSE g : g = There(g))[N]
  <2> HIDE DEF A, N
  <2> QED BY <1>2 DEF Total, MapThenSumSet, MapThenFoldSet, Pick
<1>4. ASSUME NEW g PROVE Here(g) = There(g)
  <2>1. ASSUME NEW s \in SUBSET N, s # {} PROVE Plans!Price(p, t, Pick(s)) = A[Pick(s)]
    <3>1. Pick(s) \in N
      BY <2>1 DEF Pick
    <3> QED BY <3>1
  <2> HIDE DEF A, N
  <2> QED BY <2>1
<1> HIDE DEF Here, There
<1>5. (CHOOSE g : g = Here(g)) = (CHOOSE g : g = There(g))
  BY <1>4, Zenon
<1> QED BY <1>1, <1>3, <1>5

Rise(p, from, to, d) ==
  Plans!Max2(Plans!Known(Plans!Price(p, to, d)) - Plans!Known(Plans!Price(p, from, d)), 0)

LEMMA DeltaIsSum ==
  ASSUME NEW p, NEW from, NEW to, NEW a, NEW b
  PROVE  Plans!UpgradeDelta(p, from, to, a, b) =
           Total([d \in Plans!Nights(a, b) |-> Rise(p, from, to, d)])
<1> DEFINE N == Plans!Nights(a, b)
           A == [d \in N |-> Rise(p, from, to, d)]
           Here(g) == [s \in SUBSET N |->
                         IF s = {} THEN 0 ELSE Rise(p, from, to, Pick(s)) + g[s \ {Pick(s)}]]
           There(g) == [s \in SUBSET N |-> IF s = {} THEN 0 ELSE A[Pick(s)] + g[s \ {Pick(s)}]]
<1>1. Plans!UpgradeDelta(p, from, to, a, b) = (CHOOSE g : g = Here(g))[N]
  BY DEF Plans!UpgradeDelta, Plans!MapThenSumSet, Plans!MapThenFoldSet, Pick, Rise
<1>2. DOMAIN A = N
  OBVIOUS
<1>3. Total(A) = (CHOOSE g : g = There(g))[N]
  <2> HIDE DEF A, N
  <2> QED BY <1>2 DEF Total, MapThenSumSet, MapThenFoldSet, Pick
<1>4. ASSUME NEW g PROVE Here(g) = There(g)
  <2>1. ASSUME NEW s \in SUBSET N, s # {} PROVE Rise(p, from, to, Pick(s)) = A[Pick(s)]
    <3>1. Pick(s) \in N
      BY <2>1 DEF Pick
    <3> QED BY <3>1
  <2> HIDE DEF A, N
  <2> QED BY <2>1
<1> HIDE DEF Here, There
<1>5. (CHOOSE g : g = Here(g)) = (CHOOSE g : g = There(g))
  BY <1>4, Zenon
<1> QED BY <1>1, <1>3, <1>5

(* Whatever the prices do from night to night, the charge suggested for an *)
(* upgrade is at least what the stay would have cost more in the other     *)
(* type (price_upgrade).                                                   *)
THEOREM UpgradeIsCovered == RatesGiven => (Plans!Spec => []UpgradeCoversTheRise)
<1> SUFFICES ASSUME RatesGiven PROVE Plans!Spec => []UpgradeCoversTheRise
  OBVIOUS
<1>1. PlansInvariant => UpgradeCoversTheRise
  <2> SUFFICES ASSUME PlansInvariant, NEW p \in plans, NEW from \in RoomType, NEW to \in RoomType,
                      NEW s \in Plans!Stays,
                      \A d \in Plans!Nights(s[1], s[2]) :
                        Plans!Price(p, from, d) >= 0 /\ Plans!Price(p, to, d) >= 0
               PROVE  Plans!UpgradeDelta(p, from, to, s[1], s[2])
                        >= Plans!Total(p, to, s[1], s[2]) - Plans!Total(p, from, s[1], s[2])
    BY DEF UpgradeCoversTheRise, Plans!UpgradeCoversTheRise
  <2> DEFINE a == s[1]
             b == s[2]
             N == Plans!Nights(a, b)
             U == [d \in N |-> Rise(p, from, to, d)]
             A == [d \in N |-> Plans!Price(p, from, d)]
             B == [d \in N |-> Plans!Price(p, to, d)]
  <2>1. a \in Day /\ b \in Day /\ Day \subseteq Int
    BY DEF Plans!Stays, RatesGiven
  <2> HIDE DEF a, b
  <2>2. IsFiniteSet(N)
    BY <2>1, FS_Interval DEF Plans!Nights
  <2>3. \A d \in N : d \in Day
    <3> SUFFICES ASSUME NEW d \in N PROVE d \in Day
      OBVIOUS
    <3>1. d \in a..b
      BY <2>1 DEF Plans!Nights
    <3> QED BY <2>1, <3>1 DEF RatesGiven
  <2>4. ASSUME NEW d \in N
        PROVE  /\ Plans!Price(p, from, d) \in Int /\ Plans!Price(p, to, d) \in Int
               /\ Rise(p, from, to, d) \in Int
               /\ Rise(p, from, to, d) >= Plans!Price(p, to, d) - Plans!Price(p, from, d)
    <3>1. Plans!Price(p, from, d) \in Int /\ Plans!Price(p, to, d) \in Int
      BY <2>3, PricesOfPlans DEF Plans!Unpriced, Plans!TooDeep
    <3>2. Plans!Price(p, from, d) >= 0 /\ Plans!Price(p, to, d) >= 0
      BY DEF a, b
    <3> QED BY <3>1, <3>2 DEF Rise, Plans!Max2, Plans!Known
  <2> HIDE DEF N
  <2>5. /\ U \in [N -> Int] /\ A \in [N -> Int] /\ B \in [N -> Int]
        /\ \A i \in N : U[i] >= B[i] - A[i]
    BY <2>4
  <2> HIDE DEF U, A, B
  <2>6. Total(U) >= Total(B) - Total(A)
    BY <2>2, <2>5, SumsCompare
  <2> QED BY <2>6, TotalIsSum, DeltaIsSum DEF U, A, B, N, a, b
<1> QED BY <1>1, PlansAlways, PTL

================================================================================
