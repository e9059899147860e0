------------------------------ MODULE Accounts ------------------------------
(***************************************************************************)
(* Users of the user service and what administrators may do to them: role  *)
(* changes with their audit rows, the bootstrap of the first super admin,  *)
(* profile edits and the list of allowed domains. Instances run side by    *)
(* side on a READ COMMITTED database: between two statements of one call   *)
(* others commit, and a statement that writes a locked row waits and then  *)
(* evaluates its predicate again.                                          *)
(***************************************************************************)
EXTENDS Integers, Sequences, FiniteSets, TLC

CONSTANTS Users,
          Operators,   \* users whose address an instance is configured with
          Servers,
          Domains,
          MaxChanges,  \* bound on the audit rows of a user
          None

VARIABLES
  role,     \* users.role, None before the user exists
  profile,  \* how often the profile has been edited
  audit,    \* role_changes of every user, oldest first
  first,    \* admin_bootstrap: the user that it names
  domains,  \* allowed_email_domains
  tx,       \* the call of every server
  by        \* who is behind the step that was just taken, if it is a call

vars == <<role, profile, audit, first, domains, tx, by>>

Roles == {"user", "admin", "super_admin", "suspended"}
IsAdmin(r) == r \in {"admin", "super_admin"}
\* A row of role_changes; the bootstrap has no actor.
RoleChange == [from : Roles, to : Roles, by : Users \cup {None}]
Idle == [pc |-> "idle", held |-> {}]

AccountsInit ==
  /\ role = [u \in Users |-> None]
  /\ profile = [u \in Users |-> 0]
  /\ audit = [u \in Users |-> <<>>]
  /\ first = None
  /\ domains = {}
  /\ tx = [s \in Servers |-> Idle]
  /\ by = None

-----------------------------------------------------------------------------
(* Calls and locks *)

Set(s, t) == tx' = [tx EXCEPT ![s] = t]
Free(lock) == \A s \in Servers : lock \notin tx[s].held
Step(s, t) == Set(s, t) /\ by' = None /\ UNCHANGED <<role, profile, audit, first, domains>>
End(s) == Set(s, Idle)

\* authorizeProtected reads the caller's role before the handler runs.
Authorized(a, op) ==
  CASE op = "profile" -> role[a] # "suspended"
    [] op = "change" -> IsAdmin(role[a])
    [] op = "domain" -> role[a] = "super_admin"

Begin(s, a, op, in) ==
  /\ tx[s] = Idle /\ role[a] # None /\ Authorized(a, op)
  /\ Step(s, [pc |-> op, held |-> {}, actor |-> a, in |-> in])

\* A predicate refuses the call, a statement fails, the database breaks a
\* deadlock or the process stops.
Fail(s) == tx[s] # Idle /\ Step(s, Idle)

\* Register, of the sign-in flow.
Register(u) ==
  /\ role[u] = None
  /\ role' = [role EXCEPT ![u] = "user"]
  /\ by' = None
  /\ UNCHANGED <<profile, audit, first, domains, tx>>

-----------------------------------------------------------------------------
(* ChangeUserRole *)

NoLock(a) == {}
\* GetByIDForUpdate: the actor keeps its role until the transaction ends.
ActorLock(a) == {a}

LockActor(s) ==
  LET t == tx[s] IN
  /\ t.pc = "change" /\ Free(t.actor)
  /\ Step(s, IF IsAdmin(role[t.actor]) /\ t.actor # t.in.target
             THEN [t EXCEPT !.pc = "actor", !.held = ActorLock(t.actor)] ELSE Idle)

\* A super admin is no target, and an admin neither makes nor unmakes an admin.
Permitted(actor, from, to) ==
  /\ from # "super_admin" /\ from # to
  /\ ~(actor = "admin" /\ "admin" \in {from, to})

\* The target is read without a lock.
ReadTarget(s) ==
  LET t == tx[s]
      from == role[t.in.target]
  IN /\ t.pc = "actor"
     /\ Step(s, IF from # None /\ Permitted(role[t.actor], from, t.in.to)
                THEN [t EXCEPT !.pc = "target"] @@ [from |-> from] ELSE Idle)

\* The predicate of the update, on the row as it is once it can be locked.
StillIs(u, from) == role[u] = from

Recorded(u, c) == [audit EXCEPT ![u] = Append(@, c)]

\* Admin.ChangeRole: the row and its audit row, or neither.
ChangeRole(u, from, to, actor) ==
  /\ StillIs(u, from)
  /\ role' = [role EXCEPT ![u] = to]
  /\ audit' = Recorded(u, [from |-> from, to |-> to, by |-> actor])

ChangeUserRole(s) ==
  LET t == tx[s] IN
  /\ t.pc = "target" /\ Free(t.in.target) /\ Len(audit[t.in.target]) < MaxChanges
  /\ ChangeRole(t.in.target, t.from, t.in.to, t.actor)
  /\ by' = t.actor
  /\ End(s)
  /\ UNCHANGED <<profile, first, domains>>

-----------------------------------------------------------------------------
(* Bootstrap, at the start of every instance *)

TableLock == "admin_bootstrap"

LockTable(s, u) ==
  /\ tx[s] = Idle /\ Free(TableLock)
  /\ Step(s, [pc |-> "bootstrap", held |-> {TableLock}, target |-> u])

\* The row is looked for, and then the user.
ReadBootstrap(s) ==
  LET t == tx[s] IN
  /\ t.pc = "bootstrap"
  /\ Step(s, IF first # None THEN Idle ELSE [t EXCEPT !.pc = "found"] @@ [from |-> role[t.target]])

\* The user is created or promoted, and the row is inserted. An address that
\* has been registered in the meantime is a duplicate, which fails.
Bootstrap(s) ==
  LET t == tx[s] IN
  /\ t.pc = "found" /\ Free(t.target)
  /\ \/ t.from = None /\ role[t.target] = None
        /\ role' = [role EXCEPT ![t.target] = "super_admin"] /\ UNCHANGED audit
     \/ t.from \notin {None, "super_admin"} /\ ChangeRole(t.target, t.from, "super_admin", None)
     \/ t.from = "super_admin" /\ UNCHANGED <<role, audit>>
  /\ first = None /\ first' = t.target
  /\ by' = None
  /\ End(s)
  /\ UNCHANGED <<profile, domains>>

-----------------------------------------------------------------------------
(* UpdateMyProfile and the allowed domains *)

\* UpdateActiveProfile: "the role predicate closes the race with a concurrent
\* suspension".
Active(u) == role[u] # "suspended"

UpdateMyProfile(s) ==
  LET t == tx[s] IN
  /\ t.pc = "profile" /\ Free(t.actor) /\ Active(t.actor)
  /\ profile' = [profile EXCEPT ![t.actor] = 1 - @]
  /\ by' = t.actor
  /\ End(s)
  /\ UNCHANGED <<role, audit, first, domains>>

\* AllowDomain: a domain that is there already is refused.
AllowDomain(d) == d \notin domains /\ domains' = domains \cup {d}
RemoveAllowedDomain(d) == d \in domains /\ domains' = domains \ {d}

\* One statement, with no look at the role.
EditDomains(s) ==
  LET t == tx[s] IN
  /\ t.pc = "domain"
  /\ AllowDomain(t.in) \/ RemoveAllowedDomain(t.in)
  /\ by' = t.actor
  /\ End(s)
  /\ UNCHANGED <<role, profile, audit, first>>

-----------------------------------------------------------------------------
(* The specification *)

\* An instance starts, and callers call.
Starting(s) == \E u \in Operators : LockTable(s, u)
CallRoles(s, a) ==
  \E u \in Users, to \in {"user", "admin", "suspended"} :
    Begin(s, a, "change", [target |-> u, to |-> to])
CallProfile(s, a) == Begin(s, a, "profile", None)
CallDomains(s, a) == \E d \in Domains : Begin(s, a, "domain", d)

AccountsNext ==
  \/ \E u \in Users : Register(u)
  \/ \E s \in Servers :
       \/ Starting(s)
       \/ \E a \in Users : CallRoles(s, a) \/ CallProfile(s, a) \/ CallDomains(s, a)
       \/ LockActor(s) \/ ReadTarget(s) \/ ChangeUserRole(s)
       \/ ReadBootstrap(s) \/ Bootstrap(s)
       \/ UpdateMyProfile(s) \/ EditDomains(s) \/ Fail(s)

AccountsSpec == AccountsInit /\ [][AccountsNext]_vars

-----------------------------------------------------------------------------
(* Properties *)

\* The shape of the state, and the audit: the rows of a user form a chain that
\* ends in the role the user has, promotions by the bootstrap included.
AccountsTypeOK ==
  /\ \A u \in Users :
       /\ role[u] \in Roles \cup {None} /\ profile[u] \in {0, 1}
       /\ \A i \in 1..Len(audit[u]) : audit[u][i] \in RoleChange
       /\ \A i \in 2..Len(audit[u]) : audit[u][i].from = audit[u][i - 1].to
       /\ audit[u] # <<>> => audit[u][Len(audit[u])].to = role[u]
       /\ audit[u] = <<>> => role[u] \in {None, "user"} \/ first = u
  /\ domains \subseteq Domains

\* There is one super admin, the one that the bootstrap has named, and nobody
\* takes the role away: the system keeps an administrator who can appoint
\* others, whichever instances start and whichever administrators act.
SuperAdminStays ==
  \A u \in Users : (role[u] = "super_admin") = (first = u)

\* A role change is permitted to its actor by the roles that both have at the
\* moment it is committed, although both were read earlier: a demoted admin
\* changes nobody, and an admin never changes a user who has just been promoted.
PermittedWhenDone ==
  \A u \in Users :
    role'[u] # role[u] /\ by' # None =>
      IsAdmin(role[by']) /\ by' # u /\ Permitted(role[by'], role[u], role'[u])

\* What a call changes besides roles is allowed at the moment of the change: a
\* suspended user edits no profile, and only the super admin edits domains.
AllowedWhenDone ==
  /\ \A u \in Users : profile'[u] # profile[u] => role[u] # "suspended"
  /\ domains' # domains => role[by'] = "super_admin"
=============================================================================
