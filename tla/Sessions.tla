------------------------------ MODULE Sessions ------------------------------
(***************************************************************************)
(* Sign-in links, registration and refresh sessions of the user service.   *)
(* Requests run concurrently; each is split where its transaction reads,   *)
(* locks and commits, since the database runs READ COMMITTED: a request    *)
(* sees what is committed when its statement starts, waits for rows that   *)
(* another request has changed, and what it inserts is unseen until its    *)
(* commit.                                                                 *)
(*                                                                         *)
(* A refresh token is named by the session it belongs to: the row keeps    *)
(* the hash of exactly one token. The access token signed with a session   *)
(* carries the role that the request had read.                             *)
(***************************************************************************)
EXTENDS Integers, Sequences, FiniteSets

CONSTANTS Users,        \* by email address
          Requests,     \* handlers at work at the same time
          MaxLinks,     \* bound on requested links
          MaxSessions,  \* bound on sessions
          MaxRoles,     \* bound on the roles a user has over time
          MaxPolicies   \* bound on changes of the allowed domains

ASSUME BoundsAssumption ==
  /\ MaxLinks \in Nat /\ MaxSessions \in Nat /\ MaxPolicies \in Nat
  /\ MaxRoles \in Nat \ {0}

Roles == {"user", "admin", "suspended"}
LinkIds == 1..MaxLinks
SessionIds == 1..MaxSessions

VARIABLES
  roles,     \* the roles of every user so far; empty before registration
  events,    \* users.create facts written for every user
  allowed,   \* the users whose email domain is allowed
  policies,  \* changes of the allowed domains so far
  links,     \* auth_tokens
  sessions,  \* sessions
  access,    \* sessions whose access token has not expired
  request,   \* the request in every handler
  swept      \* sign-ins that a LogoutAll ended, by their first session

vars == <<roles, events, allowed, policies, links, sessions, access, request, swept>>

Link(u, purpose, state) == [user |-> u, purpose |-> purpose, state |-> state]
\* A session: the sign-in it continues, the session it replaced, the link it
\* came from, the number of the role in its access token, and the number of
\* the user's role when it was committed.
Session(u, root, parent, link, role, since, state) ==
  [user |-> u, root |-> root, parent |-> parent, link |-> link, role |-> role,
   since |-> since, state |-> state]

\* A request between two statements: the row it changed and holds locked, and
\* what it has read.
Request(op, pc, u, row, role, snap) ==
  [op |-> op, pc |-> pc, user |-> u, row |-> row, role |-> role, snap |-> snap]
NoRow == 0
Idle == Request("none", "idle", NoRow, NoRow, 0, {})

Issued == 1..Len(sessions)
Live == {s \in Issued : sessions[s].state = "live"}
Registered(u) == roles[u] # <<>>

SessionInit ==
  /\ roles = [u \in Users |-> <<>>]
  /\ events = [u \in Users |-> 0]
  /\ allowed = Users
  /\ policies = 0
  /\ links = <<>>
  /\ sessions = <<>>
  /\ access = {}
  /\ request = [r \in Requests |-> Idle]
  /\ swept = {}

\* Rows changed by a transaction that has not ended.
LinkLocked(l) == \E r \in Requests :
                   request[r].op \in {"login", "register"} /\ request[r].row = l
SessionLocked(s) == \E r \in Requests :
                      /\ request[r].op \in {"refresh", "logoutAll"} /\ request[r].row = s
                      /\ request[r].pc # "read"

-----------------------------------------------------------------------------
(* Roles and domains, as far as sign-in depends on them *)

ChangeRole(u, to) ==
  /\ Registered(u) /\ Len(roles[u]) < MaxRoles
  /\ roles[u][Len(roles[u])] # to
  /\ roles' = [roles EXCEPT ![u] = Append(@, to)]
  /\ UNCHANGED <<events, allowed, policies, links, sessions, access, request, swept>>

AllowOrRemoveDomain(u) ==
  /\ policies < MaxPolicies
  /\ policies' = policies + 1
  /\ allowed' = IF u \in allowed THEN allowed \ {u} ELSE allowed \cup {u}
  /\ UNCHANGED <<roles, events, links, sessions, access, request, swept>>

\* requireAllowedEmailDomain; no user of this model is a super_admin.
EmailDomainAllowed(u) == u \in allowed

-----------------------------------------------------------------------------
(* Links *)

\* The purpose is decided when the link is requested.
RequestLink(u) ==
  /\ Len(links) < MaxLinks /\ EmailDomainAllowed(u)
  /\ links' = Append(links, Link(u, IF Registered(u) THEN "login" ELSE "register", "unused"))
  /\ UNCHANGED <<roles, events, allowed, policies, sessions, access, request, swept>>

ExpireLink(l) ==
  /\ l \in 1..Len(links) /\ links[l].state = "unused" /\ ~LinkLocked(l)
  /\ links' = [links EXCEPT ![l].state = "expired"]
  /\ UNCHANGED <<roles, events, allowed, policies, sessions, access, request, swept>>

\* Consume within the transaction: the row is locked and spent at the commit.
Consumed(l) == links

Consume(r, l, purpose) ==
  /\ request[r] = Idle
  /\ l \in 1..Len(links) /\ ~LinkLocked(l)
  /\ links[l].purpose = purpose /\ links[l].state = "unused"
  /\ links' = Consumed(l)

\* Login: the user's role is read inside the transaction but not locked.
Login(r, l) ==
  LET u == links[l].user IN
  /\ Consume(r, l, "login")
  /\ Registered(u) /\ EmailDomainAllowed(u)
  /\ request' = [request EXCEPT ![r] = Request("login", "issuing", u, l, Len(roles[u]), {})]
  /\ UNCHANGED <<roles, events, allowed, policies, sessions, access, swept>>

\* Register: the unique email makes a second registration wait for the first
\* and then fail, which leaves its link unspent.
Register(r, l) ==
  LET u == links[l].user IN
  /\ Consume(r, l, "register")
  /\ ~Registered(u) /\ EmailDomainAllowed(u)
  /\ \A q \in Requests : ~(request[q].op = "register" /\ request[q].user = u)
  /\ request' = [request EXCEPT ![r] = Request("register", "issuing", u, l, 1, {})]
  /\ UNCHANGED <<roles, events, allowed, policies, sessions, access, swept>>

-----------------------------------------------------------------------------
(* Refresh *)

\* The role a refreshed session keeps from the one before it.
RoleOfToken(s) == sessions[s].role
\* The user is read afresh, before the transaction.
RoleRead(s) == Len(roles[sessions[s].user])

RefreshRead(r, s) ==
  /\ request[r] = Idle /\ s \in Issued
  /\ request' = [request EXCEPT ![r] =
       Request("refresh", "read", sessions[s].user, s, RoleRead(s), {})]
  /\ UNCHANGED <<roles, events, allowed, policies, links, sessions, access, swept>>

\* Any row of this token, so that a token can be used again.
RevocableAgain(s) == sessions[s].state \in {"live", "revoked"}
\* Revoke: the one live row of this token, or nothing.
Revocable(s) == sessions[s].state = "live"

\* The transaction checks the domain and revokes the old session.
RefreshRevoke(r) ==
  LET q == request[r] IN
  /\ q.op = "refresh" /\ q.pc = "read" /\ ~SessionLocked(q.row)
  /\ request' = [request EXCEPT ![r] =
       IF EmailDomainAllowed(q.user) /\ Revocable(q.row) THEN [q EXCEPT !.pc = "issuing"] ELSE Idle]
  /\ UNCHANGED <<roles, events, allowed, policies, links, sessions, access, swept>>

\* createSession and the commit: the new session and all the request changed.
IssueSession(r) ==
  LET q == request[r]
      n == Len(sessions) + 1
      old == IF q.op = "refresh" THEN q.row ELSE NoRow
      now == IF q.op = "register" THEN <<"user">> ELSE roles[q.user]
      new == Session(q.user, IF old = NoRow THEN n ELSE sessions[old].root, old,
                     IF old = NoRow THEN q.row ELSE NoRow, q.role, Len(now), "live")
      before == IF old = NoRow THEN sessions ELSE [sessions EXCEPT ![old].state = "revoked"]
  IN /\ q.pc = "issuing" /\ n <= MaxSessions
     /\ sessions' = Append(before, new)
     /\ access' = access \cup {n}
     /\ links' = IF old = NoRow THEN [links EXCEPT ![q.row].state = "used"] ELSE links
     /\ roles' = [roles EXCEPT ![q.user] = now]
     /\ events' = IF q.op = "register" THEN [events EXCEPT ![q.user] = @ + 1] ELSE events
     /\ request' = [request EXCEPT ![r] = Idle]
     /\ UNCHANGED <<allowed, policies, swept>>

\* A transaction fails or its process stops; nothing it did remains.
Rollback(r) ==
  /\ request[r] # Idle
  /\ request' = [request EXCEPT ![r] = Idle]
  /\ UNCHANGED <<roles, events, allowed, policies, links, sessions, access, swept>>

-----------------------------------------------------------------------------
(* Signing out *)

Revoked(ss) == [s \in Issued |-> IF s \in ss /\ sessions[s].state = "live"
                                 THEN [sessions[s] EXCEPT !.state = "revoked"]
                                 ELSE sessions[s]]

Logout(s) ==
  /\ s \in Issued /\ Revocable(s) /\ ~SessionLocked(s)
  /\ sessions' = Revoked({s})
  /\ UNCHANGED <<roles, events, allowed, policies, links, access, request, swept>>

\* LogoutAll: the cookie's own session must be live and is revoked first.
LogoutAll(r, s) ==
  /\ request[r] = Idle /\ s \in Issued
  /\ Revocable(s) /\ ~SessionLocked(s)
  /\ request' = [request EXCEPT ![r] = Request("logoutAll", "revoked", sessions[s].user, s, 0, {})]
  /\ UNCHANGED <<roles, events, allowed, policies, links, sessions, access, swept>>

OthersOf(r) == {s \in Live : sessions[s].user = request[r].user}

\* RevokeAllForUser starts: it will touch the rows that are committed now.
SweepStarts(r) ==
  /\ request[r].op = "logoutAll" /\ request[r].pc = "revoked"
  /\ request' = [request EXCEPT ![r].pc = "sweeping", ![r].snap = OthersOf(r)]
  /\ UNCHANGED <<roles, events, allowed, policies, links, sessions, access, swept>>

\* It waits for rows that others have changed, and commits.
SweepEnds(r) ==
  LET q == request[r] IN
  /\ q.op = "logoutAll" /\ q.pc = "sweeping"
  /\ \A s \in q.snap \ {q.row} : ~SessionLocked(s)
  /\ sessions' = Revoked(q.snap \cup {q.row})
  /\ swept' = swept \cup {sessions[s].root : s \in q.snap}
  /\ request' = [request EXCEPT ![r] = Idle]
  /\ UNCHANGED <<roles, events, allowed, policies, links, access>>

AccessExpires(s) ==
  /\ s \in access
  /\ access' = access \ {s}
  /\ UNCHANGED <<roles, events, allowed, policies, links, sessions, request, swept>>

SessionExpires(s) ==
  /\ s \in Live /\ ~SessionLocked(s)
  /\ sessions' = [sessions EXCEPT ![s].state = "expired"]
  /\ UNCHANGED <<roles, events, allowed, policies, links, access, request, swept>>

-----------------------------------------------------------------------------
(* The specification *)

SessionNext ==
  \/ \E u \in Users : RequestLink(u) \/ AllowOrRemoveDomain(u)
                      \/ \E to \in Roles : ChangeRole(u, to)
  \/ \E l \in LinkIds : ExpireLink(l) \/ \E r \in Requests : Login(r, l) \/ Register(r, l)
  \/ \E s \in SessionIds : \/ Logout(s) \/ AccessExpires(s) \/ SessionExpires(s)
                           \/ \E r \in Requests : RefreshRead(r, s) \/ LogoutAll(r, s)
  \/ \E r \in Requests : \/ RefreshRevoke(r) \/ IssueSession(r) \/ Rollback(r)
                         \/ SweepStarts(r) \/ SweepEnds(r)

SessionSpec == SessionInit /\ [][SessionNext]_vars

-----------------------------------------------------------------------------
(* Properties *)

LinkType == [user : Users, purpose : {"login", "register"}, state : {"unused", "used", "expired"}]
SessionType ==
  [user : Users, root : Nat, parent : Nat, link : Nat, role : Nat, since : Nat,
   state : {"live", "revoked", "expired"}]
RequestType ==
  [op : {"none", "login", "register", "refresh", "logoutAll"},
   pc : {"idle", "issuing", "read", "revoked", "sweeping"},
   user : Users \cup {NoRow}, row : Nat, role : Nat, snap : SUBSET Nat]

\* The shape of links, sessions, tokens and the requests under way; a session
\* continues a sign-in and replaces a session that were there before it, and
\* its token carries a role the user has had.
SessionTypeOK ==
  /\ roles \in [Users -> Seq(Roles)]
  /\ \A u \in Users : Len(roles[u]) <= MaxRoles
  /\ events \in [Users -> Nat]
  /\ allowed \subseteq Users
  /\ policies \in 0..MaxPolicies
  /\ links \in Seq(LinkType)
  /\ sessions \in Seq(SessionType)
  /\ \A s \in Issued :
       /\ sessions[s].root \in 1..s
       /\ sessions[s].parent \in 0..(s - 1)
       /\ sessions[s].role \in 1..sessions[s].since
       /\ sessions[s].since <= Len(roles[sessions[s].user])
  /\ access \subseteq Issued /\ swept \subseteq Issued
  /\ request \in [Requests -> RequestType]

\* A link is spent exactly when it opened a session, and opens only one: the
\* spending and the session commit together (auth.go Login and Register), so a
\* request that fails later leaves the link good.
LinkSpentOnce ==
  /\ \A l \in 1..Len(links) :
       links[l].state = "used" <=> \E s \in Issued : sessions[s].link = l
  /\ \A s, t \in Issued :
       sessions[s].link = sessions[t].link /\ sessions[s].link # NoRow => s = t

\* A user is registered with exactly one users.create fact, even when two
\* registration links for the same address are used (provisioning.go).
RegisteredOnce ==
  \A u \in Users : events[u] = (IF Registered(u) THEN 1 ELSE 0)

\* A sign-in has at most one live session (sessions.go Revoke).
OneLiveSession ==
  \A s, t \in Live : sessions[s].root = sessions[t].root => s = t

\* However often the same cookie or link is sent, by however many tabs at once,
\* a sign-in has at most one live session, a link opens one, and a user is
\* registered with one fact.
OneLivePerSignIn == SessionTypeOK /\ OneLiveSession /\ LinkSpentOnce /\ RegisteredOnce

\* The role is read outside the transaction and may be out of date by the
\* time the token is signed, but never by more than the request itself: it is
\* no older than what was in force when the presented token was issued.
RoleStaleOnce ==
  \A s \in Issued : sessions[s].parent # NoRow =>
    sessions[s].role >= sessions[sessions[s].parent].since

\* LogoutAll "revokes every session of the refresh cookie's user, signing
\* them out of all devices" (auth.go): no sign-in it found is live afterwards.
LogoutAllSignsOut == \A s \in Live : sessions[s].root \notin swept

\* "Suspension revokes sessions" (REQUIREMENTS.md, NFR-05.4): a sign-in from
\* before the suspension is not continued by a refresh that finds the account
\* suspended. A suspended user who signs in anew may refresh that session.
SuspensionEndsSessions ==
  \A s \in Issued :
    /\ sessions[s].parent # NoRow
    /\ roles[sessions[s].user][sessions[sessions[s].root].since] # "suspended"
    => roles[sessions[s].user][sessions[s].role] # "suspended"
=============================================================================
