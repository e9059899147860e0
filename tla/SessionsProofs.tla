--------------------------- MODULE SessionsProofs ---------------------------
(***************************************************************************)
(* Proofs about Sessions, for any number of users, handlers, links and     *)
(* sessions. The invariant of the sign-in is not inductive: that a refresh *)
(* leaves one live session depends on the row lock it holds, and that a    *)
(* link opens one session on the lock of the link. SessionsHold adds what  *)
(* a request under way knows (InFlight) and that two of them hold          *)
(* different rows (LocksDiffer).                                           *)
(***************************************************************************)
EXTENDS Sessions, TLAPS

-----------------------------------------------------------------------------
(* The inductive invariant *)

\* The requests that hold the lock of a link, and of a session.
HoldsLink(q) == q.op \in {"login", "register"}
HoldsSession(q) == q.op \in {"refresh", "logoutAll"} /\ q.pc # "read"

\* What a request knows between two of its statements: its link is unspent,
\* its session is still live when it holds the row, and the role it has read
\* is one the user has had since the session began.
InFlight(q) ==
  /\ q.op = "none" => q = Idle
  /\ HoldsLink(q) =>
       /\ q.pc = "issuing" /\ q.user \in Users
       /\ q.row \in 1..Len(links) /\ links[q.row].state = "unused"
  /\ q.op = "login" => q.role \in 1..Len(roles[q.user])
  /\ q.op = "register" => q.role = 1 /\ roles[q.user] = <<>>
  /\ q.op \in {"refresh", "logoutAll"} =>
       /\ q.user \in Users
       /\ q.row \in Issued /\ sessions[q.row].user = q.user
  /\ HoldsSession(q) => sessions[q.row].state = "live"
  /\ q.op = "refresh" =>
       /\ q.pc \in {"read", "issuing"}
       /\ sessions[q.row].since <= q.role /\ q.role <= Len(roles[q.user])
  /\ q.op = "logoutAll" => q.pc \in {"revoked", "sweeping"} /\ q.snap \subseteq Issued

\* Two requests under way hold different rows, and do not register one user.
Compatible(p, q) ==
  /\ HoldsLink(p) /\ HoldsLink(q) => p.row # q.row
  /\ HoldsSession(p) /\ HoldsSession(q) => p.row # q.row
  /\ p.op = "register" /\ q.op = "register" => p.user # q.user

RequestsInFlight == \A r \in Requests : InFlight(request[r])
LocksDiffer == \A p, q \in Requests : p # q => Compatible(request[p], request[q])
LinksKnown == \A s \in Issued : sessions[s].link \in 0..Len(links)

SessionsHold ==
  /\ OneLivePerSignIn /\ RoleStaleOnce
  /\ LinksKnown /\ RequestsInFlight /\ LocksDiffer

\* No row exists, no request is under way.
LEMMA SessionsBegin == SessionInit => SessionsHold
  BY BoundsAssumption
  DEF SessionInit, SessionsHold, OneLivePerSignIn, SessionTypeOK, OneLiveSession, LinkSpentOnce,
      RegisteredOnce, RoleStaleOnce, LinksKnown, RequestsInFlight, LocksDiffer, InFlight,
      Compatible, HoldsLink, HoldsSession, Issued, Live, Registered, Idle, Request, RequestType,
      NoRow, LinkType, SessionType

\* The rows of links have their types.
LEMMA LinkRow ==
  ASSUME SessionsHold, NEW l \in 1..Len(links) PROVE links[l] \in LinkType
  BY DEF SessionsHold, OneLivePerSignIn, SessionTypeOK

\* The rows of sessions have their types.
LEMMA SessionRow ==
  ASSUME SessionsHold, NEW s \in Issued
  PROVE /\ sessions[s] \in SessionType /\ s \in Nat
        /\ sessions[s].user \in Users
        /\ sessions[s].since <= Len(roles[sessions[s].user])
        /\ sessions[s].since \in Nat \ {0} /\ Len(roles[sessions[s].user]) \in Nat
<1>1. sessions \in Seq(SessionType) /\ roles \in [Users -> Seq(Roles)]
  BY DEF SessionsHold, OneLivePerSignIn, SessionTypeOK
<1>2. sessions[s] \in SessionType /\ s \in Nat
  BY <1>1 DEF Issued
<1>3. sessions[s].user \in Users /\ sessions[s].since \in Nat /\ sessions[s].role \in Nat
  BY <1>2 DEF SessionType
<1>4. Len(roles[sessions[s].user]) \in Nat
  BY <1>1, <1>3
<1>5. sessions[s].since <= Len(roles[sessions[s].user]) /\ sessions[s].role \in 1..sessions[s].since
  BY DEF SessionsHold, OneLivePerSignIn, SessionTypeOK
<1> QED
  BY <1>2, <1>3, <1>4, <1>5

-----------------------------------------------------------------------------
(* Steps that change only what requests know *)

\* A step that changes only a request, the access tokens or the domains
\* preserves the invariant when the requests still know what they must.
LEMMA RequestStep ==
  ASSUME SessionsHold, UNCHANGED <<roles, events, links, sessions, swept>>,
         allowed' \subseteq Users, policies' \in 0..MaxPolicies, access' \subseteq access,
         request' \in [Requests -> RequestType],
         RequestsInFlight', LocksDiffer'
  PROVE SessionsHold'
<1>1. Issued' = Issued /\ Live' = Live
  BY DEF Issued, Live
<1>2. SessionTypeOK'
  BY <1>1 DEF SessionsHold, OneLivePerSignIn, SessionTypeOK
<1>3. OneLiveSession' /\ RoleStaleOnce'
  BY <1>1 DEF SessionsHold, OneLivePerSignIn, OneLiveSession, RoleStaleOnce
<1>4. LinkSpentOnce' /\ LinksKnown'
  BY <1>1 DEF SessionsHold, OneLivePerSignIn, LinkSpentOnce, LinksKnown
<1>5. RegisteredOnce'
  BY DEF SessionsHold, OneLivePerSignIn, RegisteredOnce, Registered
<1> QED
  BY <1>2, <1>3, <1>4, <1>5 DEF SessionsHold, OneLivePerSignIn

\* A request that begins, goes on or ends, beside requests it is compatible
\* with, when nothing else changes.
LEMMA OneRequestMoves ==
  ASSUME SessionsHold, UNCHANGED <<roles, events, allowed, policies, links, sessions, access, swept>>,
         NEW r \in Requests, NEW q \in RequestType,
         request' = [request EXCEPT ![r] = q],
         InFlight(q),
         \A p \in Requests \ {r} : Compatible(request[p], q)
  PROVE SessionsHold'
<1>1. request \in [Requests -> RequestType]
  BY DEF SessionsHold, OneLivePerSignIn, SessionTypeOK
<1>2. request' \in [Requests -> RequestType] /\ request'[r] = q /\ \A p \in Requests \ {r} : request'[p] = request[p]
  BY <1>1
<1>3. RequestsInFlight'
  BY <1>2 DEF SessionsHold, RequestsInFlight, InFlight, HoldsLink, HoldsSession, Issued
<1>4. LocksDiffer'
  BY <1>2 DEF SessionsHold, LocksDiffer, Compatible
<1> QED
  BY <1>2, <1>3, <1>4, RequestStep DEF SessionsHold, OneLivePerSignIn, SessionTypeOK

\* A handler that is free again is compatible with every other.
LEMMA IdleRequest == Idle \in RequestType /\ InFlight(Idle) /\ \A q : Compatible(q, Idle)
  BY DEF Idle, Request, RequestType, InFlight, Compatible, HoldsLink, HoldsSession, NoRow

\* A transaction that fails leaves nothing behind.
LEMMA RollbackStep ==
  ASSUME SessionsHold, NEW r \in Requests, Rollback(r) PROVE SessionsHold'
  BY IdleRequest, OneRequestMoves DEF Rollback

\* Login and Register: the link's row was not locked.
LEMMA LoginStep ==
  ASSUME SessionsHold, NEW r \in Requests, NEW l \in LinkIds, Login(r, l) PROVE SessionsHold'
<1> DEFINE u == links[l].user
           q == Request("login", "issuing", u, l, Len(roles[u]), {})
<1>a. l \in 1..Len(links) /\ links[l].state = "unused" /\ roles[u] # <<>>
  BY DEF Login, Consume, Registered
<1>1. links[l] \in LinkType /\ u \in Users
  BY <1>a, LinkRow DEF LinkType
<1>2. roles[u] \in Seq(Roles) /\ Len(roles[u]) \in Nat /\ Len(roles[u]) # 0
  BY <1>a, <1>1 DEF SessionsHold, OneLivePerSignIn, SessionTypeOK
<1>3. q \in RequestType /\ InFlight(q)
  BY <1>a, <1>1, <1>2 DEF RequestType, Request, InFlight, HoldsLink, HoldsSession
<1>4. \A p \in Requests \ {r} : Compatible(request[p], q)
  BY DEF Login, Consume, LinkLocked, Compatible, HoldsLink, HoldsSession, Request
<1>5. UNCHANGED <<roles, events, allowed, policies, links, sessions, access, swept>>
  BY DEF Login, Consume, Consumed
<1>6. request' = [request EXCEPT ![r] = q]
  BY DEF Login
<1> HIDE DEF q
<1> QED
  BY <1>3, <1>4, <1>5, <1>6, OneRequestMoves

\* A registration runs for a user that is not registered, alone.
LEMMA RegisterStep ==
  ASSUME SessionsHold, NEW r \in Requests, NEW l \in LinkIds, Register(r, l) PROVE SessionsHold'
<1> DEFINE u == links[l].user
           q == Request("register", "issuing", u, l, 1, {})
<1>a. l \in 1..Len(links) /\ links[l].state = "unused" /\ roles[u] = <<>>
  BY DEF Register, Consume, Registered
<1>1. links[l] \in LinkType /\ u \in Users
  BY <1>a, LinkRow DEF LinkType
<1>3. q \in RequestType /\ InFlight(q)
  BY <1>a, <1>1 DEF RequestType, Request, InFlight, HoldsLink, HoldsSession
<1>4. \A p \in Requests \ {r} : Compatible(request[p], q)
  BY DEF Register, Consume, LinkLocked, Compatible, HoldsLink, HoldsSession, Request
<1>5. UNCHANGED <<roles, events, allowed, policies, links, sessions, access, swept>>
  BY DEF Register, Consume, Consumed
<1>6. request' = [request EXCEPT ![r] = q]
  BY DEF Register
<1> HIDE DEF q
<1> QED
  BY <1>3, <1>4, <1>5, <1>6, OneRequestMoves

\* A refresh begins with any token, and reads the role of its user.
LEMMA RefreshReadStep ==
  ASSUME SessionsHold, NEW r \in Requests, NEW s \in SessionIds, RefreshRead(r, s)
  PROVE SessionsHold'
<1> DEFINE q == Request("refresh", "read", sessions[s].user, s, Len(roles[sessions[s].user]), {})
<1>1. s \in Issued
  BY DEF RefreshRead
<1>2. q \in RequestType /\ InFlight(q)
  BY <1>1, SessionRow DEF RequestType, Request, InFlight, HoldsLink, HoldsSession
<1>3. \A p \in Requests \ {r} : Compatible(request[p], q)
  BY DEF Compatible, HoldsLink, HoldsSession, Request
<1>4. UNCHANGED <<roles, events, allowed, policies, links, sessions, access, swept>>
  BY DEF RefreshRead
<1>5. request' = [request EXCEPT ![r] = q]
  BY DEF RefreshRead, RoleRead
<1> HIDE DEF q
<1> QED
  BY <1>2, <1>3, <1>4, <1>5, OneRequestMoves

\* The revocation takes a row that is live and not locked.
LEMMA RefreshRevokeStep ==
  ASSUME SessionsHold, NEW r \in Requests, RefreshRevoke(r) PROVE SessionsHold'
<1> DEFINE p == request[r]
           q == [p EXCEPT !.pc = "issuing"]
<1>1. p \in RequestType /\ InFlight(p) /\ p.op = "refresh" /\ ~SessionLocked(p.row)
  BY DEF RefreshRevoke, SessionsHold, RequestsInFlight, OneLivePerSignIn, SessionTypeOK
<1>2. UNCHANGED <<roles, events, allowed, policies, links, sessions, access, swept>>
  BY DEF RefreshRevoke
<1>3. CASE request' = [request EXCEPT ![r] = Idle]
  BY <1>2, <1>3, IdleRequest, OneRequestMoves
<1>4. CASE request' = [request EXCEPT ![r] = q] /\ Revocable(p.row)
  <2>1. q \in RequestType /\ q.op = "refresh" /\ q.row = p.row /\ q.user = p.user /\ q.role = p.role
        /\ q.pc = "issuing"
    BY <1>1 DEF RequestType
  <2>2. InFlight(q)
    BY <1>1, <1>4, <2>1 DEF InFlight, HoldsLink, HoldsSession, Revocable
  <2>3. \A x \in Requests \ {r} : Compatible(request[x], q)
    BY <1>1, <2>1 DEF SessionLocked, Compatible, HoldsLink, HoldsSession
  <2> HIDE DEF q
  <2> QED
    BY <1>2, <1>4, <2>1, <2>2, <2>3, OneRequestMoves
<1> QED
  BY <1>3, <1>4 DEF RefreshRevoke

\* LogoutAll locks the live session of its cookie.
LEMMA LogoutAllStep ==
  ASSUME SessionsHold, NEW r \in Requests, NEW s \in SessionIds, LogoutAll(r, s)
  PROVE SessionsHold'
<1> DEFINE q == Request("logoutAll", "revoked", sessions[s].user, s, 0, {})
<1>1. s \in Issued /\ sessions[s].state = "live" /\ ~SessionLocked(s)
  BY DEF LogoutAll, Revocable
<1>2. q \in RequestType /\ InFlight(q)
  BY <1>1, SessionRow DEF RequestType, Request, InFlight, HoldsLink, HoldsSession
<1>3. \A p \in Requests \ {r} : Compatible(request[p], q)
  BY <1>1 DEF SessionLocked, Compatible, HoldsLink, HoldsSession, Request
<1>4. UNCHANGED <<roles, events, allowed, policies, links, sessions, access, swept>>
  BY DEF LogoutAll
<1>5. request' = [request EXCEPT ![r] = q]
  BY DEF LogoutAll
<1> HIDE DEF q
<1> QED
  BY <1>2, <1>3, <1>4, <1>5, OneRequestMoves

\* The sweep names rows that are there.
LEMMA SweepStartsStep ==
  ASSUME SessionsHold, NEW r \in Requests, SweepStarts(r) PROVE SessionsHold'
<1> DEFINE p == request[r]
           q == [p EXCEPT !.pc = "sweeping", !.snap = OthersOf(r)]
<1>1. p \in RequestType /\ InFlight(p) /\ p.op = "logoutAll" /\ p.pc = "revoked"
  BY DEF SweepStarts, SessionsHold, RequestsInFlight, OneLivePerSignIn, SessionTypeOK
<1>2. OthersOf(r) \subseteq Issued /\ Issued \subseteq Nat
  BY DEF OthersOf, Live, Issued
<1>3. q \in RequestType /\ q.op = "logoutAll" /\ q.row = p.row /\ q.user = p.user
      /\ q.pc = "sweeping" /\ q.snap = OthersOf(r)
  BY <1>1, <1>2 DEF RequestType
<1>4. InFlight(q)
  BY <1>1, <1>2, <1>3 DEF InFlight, HoldsLink, HoldsSession
<1>5. \A x \in Requests \ {r} : Compatible(request[x], q)
  BY <1>1, <1>3 DEF SessionsHold, LocksDiffer, Compatible, HoldsLink, HoldsSession
<1>6. request' = [request EXCEPT ![r] = q]
  BY DEF SweepStarts, SessionsHold, OneLivePerSignIn, SessionTypeOK
<1>7. UNCHANGED <<roles, events, allowed, policies, links, sessions, access, swept>>
  BY DEF SweepStarts
<1> HIDE DEF q
<1> QED
  BY <1>3, <1>4, <1>5, <1>6, <1>7, OneRequestMoves

\* The domains and the lifetime of access tokens concern no request.
LEMMA OutsideStep ==
  ASSUME SessionsHold,
         \/ \E u \in Users : AllowOrRemoveDomain(u)
         \/ \E s \in SessionIds : AccessExpires(s)
  PROVE SessionsHold'
<1>1. /\ UNCHANGED <<roles, events, links, sessions, swept, request>>
      /\ allowed' \subseteq Users /\ policies' \in 0..MaxPolicies /\ access' \subseteq access
  BY BoundsAssumption DEF AllowOrRemoveDomain, AccessExpires, SessionsHold, OneLivePerSignIn, SessionTypeOK
<1>2. RequestsInFlight' /\ LocksDiffer'
  BY <1>1 DEF SessionsHold, RequestsInFlight, LocksDiffer, InFlight, Issued
<1> QED
  BY <1>1, <1>2, RequestStep DEF SessionsHold, OneLivePerSignIn, SessionTypeOK

-----------------------------------------------------------------------------
(* Roles and links *)

\* A role is added to a registered user; nobody loses one.
LEMMA ChangeRoleStep ==
  ASSUME SessionsHold, NEW u \in Users, NEW to \in Roles, ChangeRole(u, to)
  PROVE SessionsHold'
<1>1. roles \in [Users -> Seq(Roles)] /\ \A v \in Users : Len(roles[v]) <= MaxRoles
  BY DEF SessionsHold, OneLivePerSignIn, SessionTypeOK
<1>2. /\ roles' \in [Users -> Seq(Roles)]
      /\ roles'[u] = Append(roles[u], to) /\ roles[u] # <<>>
      /\ \A v \in Users \ {u} : roles'[v] = roles[v]
  BY <1>1 DEF ChangeRole, Registered
<1>3. \A v \in Users : /\ Len(roles[v]) \in Nat /\ Len(roles'[v]) \in Nat
                       /\ Len(roles[v]) <= Len(roles'[v])
                       /\ Len(roles'[v]) <= MaxRoles
                       /\ roles'[v] = <<>> <=> roles[v] = <<>>
  <2> SUFFICES ASSUME NEW v \in Users
               PROVE /\ Len(roles[v]) \in Nat /\ Len(roles'[v]) \in Nat
                     /\ Len(roles[v]) <= Len(roles'[v])
                     /\ Len(roles'[v]) <= MaxRoles
                     /\ roles'[v] = <<>> <=> roles[v] = <<>>
    OBVIOUS
  <2>1. CASE v # u
    BY <1>1, <1>2, <2>1
  <2>2. CASE v = u
    BY <1>1, <1>2, <2>2, BoundsAssumption DEF ChangeRole
  <2> QED
    BY <2>1, <2>2
<1>4. UNCHANGED <<events, allowed, policies, links, sessions, access, request, swept>>
  BY DEF ChangeRole
<1>5. Issued' = Issued /\ Live' = Live
  BY <1>4 DEF Issued, Live
<1>6. SessionTypeOK'
  <2>1. \A s \in Issued : sessions[s].since <= Len(roles'[sessions[s].user])
    BY <1>3, SessionRow
  <2> QED
    BY <1>2, <1>3, <1>4, <1>5, <2>1 DEF SessionsHold, OneLivePerSignIn, SessionTypeOK
<1>7. OneLiveSession' /\ LinkSpentOnce' /\ RoleStaleOnce' /\ LinksKnown' /\ LocksDiffer'
  BY <1>4, <1>5 DEF SessionsHold, OneLivePerSignIn, OneLiveSession, LinkSpentOnce, RoleStaleOnce,
                    LinksKnown, LocksDiffer
<1>8. RegisteredOnce'
  BY <1>3, <1>4 DEF SessionsHold, OneLivePerSignIn, RegisteredOnce, Registered
<1>9. RequestsInFlight'
  <2> SUFFICES ASSUME NEW r \in Requests PROVE InFlight(request[r])'
    BY DEF RequestsInFlight
  <2>1. InFlight(request[r]) /\ request[r] \in RequestType
    BY DEF SessionsHold, RequestsInFlight, OneLivePerSignIn, SessionTypeOK
  <2>2. request[r].role \in Nat
    BY <2>1 DEF RequestType
  <2> QED
    BY <1>3, <1>4, <1>5, <2>1, <2>2 DEF InFlight, HoldsLink, HoldsSession
<1> QED
  BY <1>6, <1>7, <1>8, <1>9 DEF SessionsHold, OneLivePerSignIn

\* Links change, but those that are spent stay spent and the others unspent,
\* and so do the ones that requests hold.
LEMMA LinkStep ==
  ASSUME SessionsHold, UNCHANGED <<roles, events, allowed, policies, sessions, access, request, swept>>,
         links' \in Seq(LinkType), Len(links) <= Len(links'),
         \A l \in 1..Len(links) : links'[l].state = "used" <=> links[l].state = "used",
         \A l \in 1..Len(links) : LinkLocked(l) => links'[l].state = links[l].state,
         \A l \in 1..Len(links') : l > Len(links) => links'[l].state = "unused"
  PROVE SessionsHold'
<1>1. Issued' = Issued /\ Live' = Live
  BY DEF Issued, Live
<1>2. Len(links) \in Nat /\ Len(links') \in Nat
  BY DEF SessionsHold, OneLivePerSignIn, SessionTypeOK
<1>3. SessionTypeOK'
  BY <1>1 DEF SessionsHold, OneLivePerSignIn, SessionTypeOK
<1>4. OneLiveSession' /\ RoleStaleOnce' /\ RegisteredOnce' /\ LocksDiffer'
  BY <1>1 DEF SessionsHold, OneLivePerSignIn, OneLiveSession, RoleStaleOnce, RegisteredOnce, Registered,
              LocksDiffer
<1>5. LinksKnown'
  BY <1>1, <1>2 DEF SessionsHold, LinksKnown
<1>6. LinkSpentOnce'
  BY <1>1, <1>2 DEF SessionsHold, OneLivePerSignIn, LinkSpentOnce, LinksKnown
<1>7. RequestsInFlight'
  BY <1>1, <1>2 DEF SessionsHold, RequestsInFlight, InFlight, HoldsLink, HoldsSession, LinkLocked
<1> QED
  BY <1>3, <1>4, <1>5, <1>6, <1>7 DEF SessionsHold, OneLivePerSignIn

\* A requested link is new, and one that expires is held by no request.
LEMMA RequestLinkStep ==
  ASSUME SessionsHold, NEW u \in Users, RequestLink(u) PROVE SessionsHold'
<1> DEFINE new == Link(u, IF Registered(u) THEN "login" ELSE "register", "unused")
<1>1. links \in Seq(LinkType) /\ new \in LinkType /\ new.state = "unused"
  BY DEF SessionsHold, OneLivePerSignIn, SessionTypeOK, LinkType, Link
<1>2. links' = Append(links, new)
  BY DEF RequestLink
<1>3. UNCHANGED <<roles, events, allowed, policies, sessions, access, request, swept>>
  BY DEF RequestLink
<1> HIDE DEF new
<1> QED
  BY <1>1, <1>2, <1>3, LinkStep

\* A link that nobody holds expires.
LEMMA ExpireLinkStep ==
  ASSUME SessionsHold, NEW l \in LinkIds, ExpireLink(l) PROVE SessionsHold'
<1>1. links \in Seq(LinkType) /\ l \in 1..Len(links) /\ links[l].state = "unused" /\ ~LinkLocked(l)
  BY DEF ExpireLink, SessionsHold, OneLivePerSignIn, SessionTypeOK
<1>2. UNCHANGED <<roles, events, allowed, policies, sessions, access, request, swept>>
  BY DEF ExpireLink
<1>a. links[l] \in LinkType
  BY <1>1, LinkRow
<1>3. [links[l] EXCEPT !.state = "expired"] \in LinkType
  BY <1>a DEF LinkType
<1>4. links' \in Seq(LinkType) /\ Len(links') = Len(links)
      /\ links'[l].state = "expired" /\ \A k \in 1..Len(links) \ {l} : links'[k] = links[k]
  BY <1>1, <1>3 DEF ExpireLink, LinkType
<1> QED
  BY <1>1, <1>2, <1>4, LinkStep

-----------------------------------------------------------------------------
(* Sessions that end *)

\* Sessions end, but none that a request holds; no field but the state of a
\* row changes, and no session comes back to life.
LEMMA SessionsEnd ==
  ASSUME SessionsHold, UNCHANGED <<roles, events, allowed, policies, links, access>>,
         sessions' \in Seq(SessionType), Len(sessions') = Len(sessions), swept' \subseteq Issued,
         \A s \in Issued :
           /\ sessions'[s].user = sessions[s].user /\ sessions'[s].root = sessions[s].root
           /\ sessions'[s].parent = sessions[s].parent /\ sessions'[s].link = sessions[s].link
           /\ sessions'[s].role = sessions[s].role /\ sessions'[s].since = sessions[s].since
           /\ sessions'[s].state = "live" => sessions[s].state = "live",
         request' \in [Requests -> RequestType],
         \A r \in Requests : request'[r] \in {Idle, request[r]},
         \A r \in Requests : HoldsSession(request'[r]) => sessions'[request[r].row].state = "live"
  PROVE SessionsHold'
<1>1. Issued' = Issued
  BY DEF Issued
<1>2. Live' \subseteq Live
  BY <1>1 DEF Live
<1>3. SessionTypeOK'
  <2>1. \A s \in Issued :
       /\ sessions'[s].root \in 1..s
       /\ sessions'[s].parent \in 0..(s - 1)
       /\ sessions'[s].role \in 1..sessions'[s].since
       /\ sessions'[s].since <= Len(roles[sessions'[s].user])
    BY DEF SessionsHold, OneLivePerSignIn, SessionTypeOK
  <2> QED
    BY <1>1, <2>1 DEF SessionsHold, OneLivePerSignIn, SessionTypeOK
<1>4. OneLiveSession'
  BY <1>1, <1>2 DEF SessionsHold, OneLivePerSignIn, OneLiveSession, Live
<1>5. LinkSpentOnce' /\ LinksKnown'
  BY <1>1 DEF SessionsHold, OneLivePerSignIn, LinkSpentOnce, LinksKnown
<1>6. RoleStaleOnce'
  <2> SUFFICES ASSUME NEW s \in Issued, sessions[s].parent # NoRow
               PROVE sessions'[s].role >= sessions'[sessions[s].parent].since
    BY <1>1 DEF RoleStaleOnce
  <2>1. sessions[s].parent \in Issued
    BY SMT DEF SessionsHold, OneLivePerSignIn, SessionTypeOK, NoRow, Issued
  <2> QED
    BY <2>1 DEF SessionsHold, RoleStaleOnce
<1>7. RegisteredOnce'
  BY DEF SessionsHold, OneLivePerSignIn, RegisteredOnce, Registered
<1>8. RequestsInFlight'
  <2> SUFFICES ASSUME NEW r \in Requests PROVE InFlight(request[r])'
    BY DEF RequestsInFlight
  <2>1. CASE request'[r] = Idle
    BY <2>1 DEF InFlight, HoldsLink, HoldsSession, Idle, Request
  <2>2. CASE request'[r] = request[r]
    BY <1>1, <2>2 DEF SessionsHold, RequestsInFlight, InFlight, HoldsLink, HoldsSession
  <2> QED
    BY <2>1, <2>2
<1>9. LocksDiffer'
  BY DEF SessionsHold, LocksDiffer, Compatible, HoldsLink, HoldsSession, Idle, Request
<1> QED
  BY <1>3, <1>4, <1>5, <1>6, <1>7, <1>8, <1>9 DEF SessionsHold, OneLivePerSignIn

\* Revoked keeps the rows, and changes the state of a row and nothing else.
LEMMA RevokedRows ==
  ASSUME SessionsHold, NEW ss
  PROVE Revoked(ss) \in Seq(SessionType) /\ Len(Revoked(ss)) = Len(sessions)
<1>1. sessions \in Seq(SessionType) /\ Len(sessions) \in Nat
  BY DEF SessionsHold, OneLivePerSignIn, SessionTypeOK
<1>2. ASSUME NEW s \in Issued
      PROVE sessions[s] \in SessionType /\ [sessions[s] EXCEPT !.state = "revoked"] \in SessionType
  <2>1. sessions[s] \in SessionType
    BY <1>1 DEF Issued
  <2> QED
    BY <2>1 DEF SessionType
<1>3. Revoked(ss) \in [1..Len(sessions) -> SessionType]
  BY <1>2 DEF Revoked, Issued
<1> QED
  BY <1>1, <1>3

\* A revocation changes nothing else of a session.
LEMMA RevokedKeeps ==
  ASSUME SessionsHold, NEW ss, NEW s \in Issued
  PROVE /\ Revoked(ss)[s].user = sessions[s].user /\ Revoked(ss)[s].root = sessions[s].root
        /\ Revoked(ss)[s].parent = sessions[s].parent /\ Revoked(ss)[s].link = sessions[s].link
        /\ Revoked(ss)[s].role = sessions[s].role /\ Revoked(ss)[s].since = sessions[s].since
        /\ Revoked(ss)[s].state = "live" => sessions[s].state = "live" /\ s \notin ss
        /\ s \notin ss => Revoked(ss)[s] = sessions[s]
<1>1. sessions[s] \in SessionType
  BY SessionRow
<1>2. CASE s \in ss /\ sessions[s].state = "live"
  <2>1. Revoked(ss)[s] = [sessions[s] EXCEPT !.state = "revoked"]
    BY <1>2 DEF Revoked
  <2> QED
    BY <1>1, <1>2, <2>1 DEF SessionType
<1>3. CASE ~(s \in ss /\ sessions[s].state = "live")
  <2>1. Revoked(ss)[s] = sessions[s]
    BY <1>3 DEF Revoked
  <2> QED
    BY <1>3, <2>1
<1> QED
  BY <1>2, <1>3

\* A logout ends a session that no request holds.
LEMMA LogoutStep ==
  ASSUME SessionsHold, NEW s \in SessionIds, Logout(s) PROVE SessionsHold'
<1>1. /\ s \in Issued /\ ~SessionLocked(s) /\ sessions' = Revoked({s})
      /\ UNCHANGED <<roles, events, allowed, policies, links, access, request, swept>>
  BY DEF Logout
<1>2. sessions' \in Seq(SessionType) /\ Len(sessions') = Len(sessions)
  BY <1>1, RevokedRows
<1>3. \A t \in Issued :
           /\ sessions'[t].user = sessions[t].user /\ sessions'[t].root = sessions[t].root
           /\ sessions'[t].parent = sessions[t].parent /\ sessions'[t].link = sessions[t].link
           /\ sessions'[t].role = sessions[t].role /\ sessions'[t].since = sessions[t].since
           /\ sessions'[t].state = "live" => sessions[t].state = "live"
           /\ t # s => sessions'[t] = sessions[t]
  BY <1>1, RevokedKeeps
<1>4. \A r \in Requests : HoldsSession(request'[r]) => sessions'[request[r].row].state = "live"
  <2> SUFFICES ASSUME NEW r \in Requests, HoldsSession(request[r])
               PROVE sessions'[request[r].row].state = "live"
    BY <1>1
  <2>1. request[r].row \in Issued /\ sessions[request[r].row].state = "live"
    BY DEF SessionsHold, RequestsInFlight, InFlight, HoldsSession
  <2>2. request[r].row # s
    BY <1>1 DEF SessionLocked, HoldsSession
  <2> QED
    BY <1>3, <2>1, <2>2
<1>5. request' \in [Requests -> RequestType] /\ swept' \subseteq Issued
      /\ \A r \in Requests : request'[r] \in {Idle, request[r]}
  BY <1>1 DEF SessionsHold, OneLivePerSignIn, SessionTypeOK
<1> QED
  BY <1>1, <1>2, <1>3, <1>4, <1>5, SessionsEnd

\* So does the end of its lifetime.
LEMMA SessionExpiresStep ==
  ASSUME SessionsHold, NEW s \in SessionIds, SessionExpires(s) PROVE SessionsHold'
<1>1. /\ s \in Issued /\ ~SessionLocked(s)
      /\ sessions' = [sessions EXCEPT ![s] = [sessions[s] EXCEPT !.state = "expired"]]
      /\ UNCHANGED <<roles, events, allowed, policies, links, access, request, swept>>
  BY DEF SessionExpires, Live
<1>2. sessions \in Seq(SessionType) /\ sessions[s] \in SessionType
  BY <1>1, SessionRow DEF SessionsHold, OneLivePerSignIn, SessionTypeOK
<1> DEFINE row == [sessions[s] EXCEPT !.state = "expired"]
<1>3. /\ row \in SessionType
      /\ row.user = sessions[s].user /\ row.root = sessions[s].root
      /\ row.parent = sessions[s].parent /\ row.link = sessions[s].link
      /\ row.role = sessions[s].role /\ row.since = sessions[s].since
      /\ row.state # "live"
  BY <1>2 DEF SessionType
<1>4. sessions' = [sessions EXCEPT ![s] = row]
  BY <1>1
<1> HIDE DEF row
<1>5. /\ sessions' \in Seq(SessionType) /\ Len(sessions') = Len(sessions)
      /\ sessions'[s] = row /\ \A t \in Issued \ {s} : sessions'[t] = sessions[t]
  BY <1>1, <1>2, <1>3, <1>4 DEF Issued
<1>6. \A r \in Requests : HoldsSession(request'[r]) => sessions'[request[r].row].state = "live"
  BY <1>1, <1>5 DEF SessionsHold, RequestsInFlight, InFlight, HoldsSession, SessionLocked
<1>7. request' \in [Requests -> RequestType] /\ swept' \subseteq Issued
      /\ \A r \in Requests : request'[r] \in {Idle, request[r]}
  BY <1>1 DEF SessionsHold, OneLivePerSignIn, SessionTypeOK
<1>8. \A t \in Issued :
           /\ sessions'[t].user = sessions[t].user /\ sessions'[t].root = sessions[t].root
           /\ sessions'[t].parent = sessions[t].parent /\ sessions'[t].link = sessions[t].link
           /\ sessions'[t].role = sessions[t].role /\ sessions'[t].since = sessions[t].since
           /\ sessions'[t].state = "live" => sessions[t].state = "live"
  BY <1>3, <1>5
<1> QED
  BY <1>1, <1>5, <1>6, <1>7, <1>8, SessionsEnd

\* The sweep of a LogoutAll waited for every row that another request holds.
LEMMA SweepEndsStep ==
  ASSUME SessionsHold, NEW r \in Requests, SweepEnds(r) PROVE SessionsHold'
<1> DEFINE q == request[r]
           ss == q.snap \cup {q.row}
<1>1. /\ q.op = "logoutAll" /\ q.pc = "sweeping"
      /\ \A s \in q.snap \ {q.row} : ~SessionLocked(s)
      /\ sessions' = Revoked(ss)
      /\ swept' = swept \cup {sessions[s].root : s \in q.snap}
      /\ request' = [request EXCEPT ![r] = Idle]
      /\ UNCHANGED <<roles, events, allowed, policies, links, access>>
  BY DEF SweepEnds
<1>2. request \in [Requests -> RequestType] /\ swept \subseteq Issued
  BY DEF SessionsHold, OneLivePerSignIn, SessionTypeOK
<1>3. q.snap \subseteq Issued /\ q.row \in Issued
  BY <1>1 DEF SessionsHold, RequestsInFlight, InFlight
<1>4. sessions' \in Seq(SessionType) /\ Len(sessions') = Len(sessions)
  BY <1>1, RevokedRows
<1>5. \A t \in Issued :
           /\ sessions'[t].user = sessions[t].user /\ sessions'[t].root = sessions[t].root
           /\ sessions'[t].parent = sessions[t].parent /\ sessions'[t].link = sessions[t].link
           /\ sessions'[t].role = sessions[t].role /\ sessions'[t].since = sessions[t].since
           /\ sessions'[t].state = "live" => sessions[t].state = "live"
           /\ t \notin ss => sessions'[t] = sessions[t]
  BY <1>1, RevokedKeeps
<1>6. \A s \in Issued : sessions[s].root \in Issued
  BY DEF SessionsHold, OneLivePerSignIn, SessionTypeOK, Issued
<1>7. swept' \subseteq Issued
  BY <1>1, <1>2, <1>3, <1>6
<1>8. request' \in [Requests -> RequestType] /\ \A p \in Requests : request'[p] \in {Idle, request[p]}
  BY <1>1, <1>2, IdleRequest
<1>9. \A p \in Requests : HoldsSession(request'[p]) => sessions'[request[p].row].state = "live"
  <2> SUFFICES ASSUME NEW p \in Requests, HoldsSession(request'[p])
               PROVE sessions'[request[p].row].state = "live"
    OBVIOUS
  <2>1. p # r /\ request'[p] = request[p]
    BY <1>1, <1>2 DEF HoldsSession, Idle, Request
  <2>2. request[p].row \in Issued /\ sessions[request[p].row].state = "live"
    BY <2>1 DEF SessionsHold, RequestsInFlight, InFlight, HoldsSession
  <2>3. request[p].row # q.row
    BY <1>1, <2>1 DEF SessionsHold, LocksDiffer, Compatible, HoldsSession
  <2>4. request[p].row \notin q.snap
    BY <1>1, <2>1, <2>3 DEF SessionLocked, HoldsSession
  <2> QED
    BY <1>5, <2>2, <2>3, <2>4
<1> QED
  BY <1>1, <1>4, <1>5, <1>7, <1>8, <1>9, SessionsEnd

-----------------------------------------------------------------------------
(* Sessions that begin *)

\* A session is added behind the others, while rows before it may end: what is
\* true of all sessions stays true when the new one is alone in its sign-in.
LEMMA SessionAdded ==
  ASSUME SessionsHold, NEW n, n = Len(sessions) + 1,
         sessions' \in Seq(SessionType), Len(sessions') = n,
         \A s \in Issued :
           /\ sessions'[s].user = sessions[s].user /\ sessions'[s].root = sessions[s].root
           /\ sessions'[s].parent = sessions[s].parent /\ sessions'[s].link = sessions[s].link
           /\ sessions'[s].role = sessions[s].role /\ sessions'[s].since = sessions[s].since
           /\ sessions'[s].state = "live" => sessions[s].state = "live" /\ sessions[s].root # sessions'[n].root,
         sessions'[n].root \in 1..n, sessions'[n].parent \in 0..(n - 1),
         sessions'[n].role \in 1..sessions'[n].since,
         sessions'[n].parent # NoRow => sessions'[n].role >= sessions[sessions'[n].parent].since,
         roles' \in [Users -> Seq(Roles)],
         \A u \in Users : Len(roles[u]) <= Len(roles'[u]) /\ Len(roles'[u]) <= MaxRoles,
         sessions'[n].since <= Len(roles'[sessions'[n].user]),
         events' \in [Users -> Nat], links' \in Seq(LinkType),
         access' = access \cup {n}, UNCHANGED <<allowed, policies, swept>>,
         request' \in [Requests -> RequestType]
  PROVE /\ SessionTypeOK' /\ OneLiveSession' /\ RoleStaleOnce'
        /\ Issued' = Issued \cup {n} /\ n \notin Issued /\ n \in Nat \ {0}
<1>1. Len(sessions) \in Nat /\ n \in Nat \ {0}
  BY DEF SessionsHold, OneLivePerSignIn, SessionTypeOK
<1>2. Issued' = Issued \cup {n} /\ n \notin Issued
  BY <1>1 DEF Issued
<1>4. SessionTypeOK'
  <2>1. ASSUME NEW s \in Issued'
        PROVE /\ sessions'[s].root \in 1..s
              /\ sessions'[s].parent \in 0..(s - 1)
              /\ sessions'[s].role \in 1..sessions'[s].since
              /\ sessions'[s].since <= Len(roles'[sessions'[s].user])
    <3>1. CASE s = n
      BY <3>1
    <3>2. CASE s \in Issued
      <4>1. /\ sessions[s].root \in 1..s
            /\ sessions[s].parent \in 0..(s - 1)
            /\ sessions[s].role \in 1..sessions[s].since
        BY <3>2 DEF SessionsHold, OneLivePerSignIn, SessionTypeOK
      <4>2. /\ sessions[s].since <= Len(roles[sessions[s].user]) /\ sessions[s].user \in Users
            /\ sessions[s].since \in Nat /\ Len(roles[sessions[s].user]) \in Nat
        BY <3>2, SessionRow
      <4>3. Len(roles[sessions[s].user]) <= Len(roles'[sessions[s].user])
            /\ Len(roles'[sessions[s].user]) \in Nat
        BY <4>2
      <4>4. sessions[s].since <= Len(roles'[sessions[s].user])
        BY <4>2, <4>3
      <4>5. /\ sessions'[s].user = sessions[s].user /\ sessions'[s].root = sessions[s].root
            /\ sessions'[s].parent = sessions[s].parent
            /\ sessions'[s].role = sessions[s].role /\ sessions'[s].since = sessions[s].since
        BY <3>2
      <4> QED
        BY <4>1, <4>4, <4>5, Zenon
    <3> QED
      BY <1>2, <3>1, <3>2
  <2>2. access' \subseteq Issued' /\ swept' \subseteq Issued'
    BY <1>2 DEF SessionsHold, OneLivePerSignIn, SessionTypeOK
  <2> QED
    BY <2>1, <2>2 DEF SessionsHold, OneLivePerSignIn, SessionTypeOK
<1>5. OneLiveSession'
  <2> SUFFICES ASSUME NEW s \in Issued', NEW t \in Issued',
                      sessions'[s].state = "live", sessions'[t].state = "live",
                      sessions'[s].root = sessions'[t].root
               PROVE s = t
    BY DEF OneLiveSession, Live
  <2>1. CASE s = n \/ t = n
    BY <1>2, <2>1
  <2>2. CASE s \in Issued /\ t \in Issued
    BY <2>2 DEF SessionsHold, OneLivePerSignIn, OneLiveSession, Live
  <2> QED
    BY <1>2, <2>1, <2>2
<1>6. RoleStaleOnce'
  <2> SUFFICES ASSUME NEW s \in Issued', sessions'[s].parent # NoRow
               PROVE sessions'[s].role >= sessions'[sessions'[s].parent].since
    BY DEF RoleStaleOnce
  <2>1. CASE s = n
    <3>1. sessions'[n].parent \in Issued /\ sessions'[n].parent # NoRow
      BY <1>1, <2>1 DEF Issued, NoRow
    <3> QED
      BY <2>1, <3>1
  <2>2. CASE s \in Issued
    <3>1. sessions'[s].parent = sessions[s].parent /\ sessions'[s].role = sessions[s].role
      BY <2>2
    <3>2. sessions[s].parent \in 0..(s - 1) /\ s \in 1..Len(sessions)
      BY <2>2 DEF SessionsHold, OneLivePerSignIn, SessionTypeOK, Issued
    <3>3. sessions[s].parent \in Issued
      BY <1>1, <3>1, <3>2 DEF Issued, NoRow
    <3> QED
      BY <2>2, <3>1, <3>3 DEF SessionsHold, RoleStaleOnce
  <2> QED
    BY <1>2, <2>1, <2>2
<1> QED
  BY <1>1, <1>2, <1>4, <1>5, <1>6

\* A commit of request q leaves the links and sessions alone that q does not
\* hold, and the roles of users that q does not register.
LinksKept(q) ==
  /\ Len(links') = Len(links)
  /\ \A l \in 1..Len(links) : ~HoldsLink(q) \/ l # q.row => links'[l] = links[l]
RolesKept(q) ==
  \A u \in Users :
    /\ Len(roles[u]) <= Len(roles'[u]) /\ Len(roles'[u]) \in Nat
    /\ q.op # "register" \/ u # q.user => roles'[u] = roles[u]
SessionsKept(q) ==
  /\ Issued \subseteq Issued'
  /\ \A s \in Issued :
       /\ sessions'[s].user = sessions[s].user /\ sessions'[s].since = sessions[s].since
       /\ ~HoldsSession(q) \/ s # q.row => sessions'[s].state = sessions[s].state

\* The requests go on when one of them commits: no other knew of what it held.
LEMMA OthersGoOn ==
  ASSUME SessionsHold, NEW r \in Requests,
         request'[r] = Idle, \A p \in Requests \ {r} : request'[p] = request[p],
         LinksKept(request[r]), RolesKept(request[r]), SessionsKept(request[r])
  PROVE RequestsInFlight' /\ LocksDiffer'
<1>1. request \in [Requests -> RequestType]
  BY DEF SessionsHold, OneLivePerSignIn, SessionTypeOK
<1>2. request'[r] = Idle /\ \A p \in Requests \ {r} : request'[p] = request[p]
  OBVIOUS
<1>3. LocksDiffer'
  BY <1>2 DEF SessionsHold, LocksDiffer, Compatible, HoldsLink, HoldsSession, Idle, Request
<1>4. ASSUME NEW p \in Requests \ {r}
      PROVE InFlight(request[p])'
  <2>a. PICK q \in RequestType : q = request[p]
    BY <1>1
  <2>1. InFlight(q) /\ Compatible(q, request[r]) /\ request'[p] = q
    BY <1>2, <2>a DEF SessionsHold, RequestsInFlight, LocksDiffer
  <2>2. HoldsLink(q) => links'[q.row] = links[q.row]
    BY <2>1 DEF InFlight, Compatible, LinksKept
  <2>3. q.op \in {"login", "register"} => q.user \in Users
    BY <2>1 DEF InFlight, HoldsLink
  <2>4. q.op = "register" => roles'[q.user] = roles[q.user]
    BY <2>1, <2>3 DEF Compatible, RolesKept
  <2>5. HoldsSession(q) => sessions'[q.row].state = "live"
    BY <2>1 DEF InFlight, Compatible, HoldsSession, SessionsKept
  <2>6. q.op \in {"refresh", "logoutAll"} =>
          /\ sessions'[q.row].user = sessions[q.row].user
          /\ sessions'[q.row].since = sessions[q.row].since
    BY <2>1 DEF InFlight, SessionsKept
  <2>7. q.role \in Nat /\ \A u \in Users : Len(roles[u]) \in Nat
    BY <2>1 DEF RequestType, SessionsHold, OneLivePerSignIn, SessionTypeOK
  <2>8. q.op = "login" => q.role \in 1..Len(roles'[q.user])
    BY <2>1, <2>3, <2>7 DEF InFlight, RolesKept
  <2>9. q.op = "refresh" => q.role <= Len(roles'[q.user])
    BY <2>1, <2>7 DEF InFlight, RolesKept
  <2>10. InFlight(q)'
    BY <2>1, <2>2, <2>4, <2>5, <2>6, <2>8, <2>9 DEF InFlight, HoldsLink, HoldsSession, LinksKept, SessionsKept
  <2> QED
    BY <2>1, <2>10
<1>5. InFlight(request[r])'
  BY <1>2 DEF InFlight, HoldsLink, HoldsSession, Idle, Request
<1> QED
  BY <1>3, <1>4, <1>5 DEF RequestsInFlight

\* A refresh that commits replaces the row it holds, which was the only live
\* one of its sign-in.
LEMMA RefreshIssues ==
  ASSUME SessionsHold, NEW r \in Requests, IssueSession(r), request[r].op = "refresh"
  PROVE SessionsHold'
<1>1. PICK q \in RequestType : q = request[r]
  BY DEF SessionsHold, OneLivePerSignIn, SessionTypeOK
<1> DEFINE n == Len(sessions) + 1
           old == sessions[q.row]
           new == Session(q.user, old.root, q.row, NoRow, q.role, Len(roles[q.user]), "live")
           ended == [old EXCEPT !.state = "revoked"]
           before == [sessions EXCEPT ![q.row] = ended]
<1>2. /\ q.pc = "issuing" /\ q.row \in Issued /\ q.user \in Users /\ old.user = q.user
      /\ old.state = "live" /\ old.since <= q.role /\ q.role <= Len(roles[q.user])
  BY <1>1 DEF IssueSession, SessionsHold, RequestsInFlight, InFlight, HoldsSession
<1>3. /\ old \in SessionType /\ old.since \in Nat \ {0} /\ Len(roles[q.user]) \in Nat
      /\ q.row \in Nat \ {0} /\ q.role \in Nat
  BY <1>1, <1>2, SessionRow DEF Issued, RequestType
<1>4. /\ roles \in [Users -> Seq(Roles)] /\ links \in Seq(LinkType) /\ events \in [Users -> Nat]
      /\ sessions \in Seq(SessionType) /\ Len(sessions) \in Nat
      /\ request \in [Requests -> RequestType]
      /\ \A u \in Users : Len(roles[u]) <= MaxRoles /\ Len(roles[u]) \in Nat
  BY DEF SessionsHold, OneLivePerSignIn, SessionTypeOK
<1>5. /\ sessions' = Append(before, new)
      /\ access' = access \cup {n}
      /\ links' = links /\ events' = events
      /\ roles' = [roles EXCEPT ![q.user] = roles[q.user]]
      /\ request' = [request EXCEPT ![r] = Idle]
      /\ UNCHANGED <<allowed, policies, swept>>
  BY <1>1, <1>2, <1>3 DEF IssueSession, NoRow
<1>6. roles' = roles
  BY <1>4, <1>5
<1>a. links' = links /\ events' = events /\ access' = access \cup {n} /\ UNCHANGED <<allowed, policies, swept>>
  BY <1>5
<1>b. request' = [request EXCEPT ![r] = Idle]
  BY <1>5
<1>7. /\ new \in SessionType /\ ended \in SessionType
      /\ new.root = old.root /\ new.parent = q.row /\ new.link = NoRow /\ new.role = q.role
      /\ new.since = Len(roles[q.user]) /\ new.user = q.user
      /\ ended.user = old.user /\ ended.root = old.root /\ ended.parent = old.parent
      /\ ended.link = old.link /\ ended.role = old.role /\ ended.since = old.since
      /\ ended.state # "live"
  BY <1>2, <1>3 DEF Session, SessionType, NoRow
<1> HIDE DEF new, ended
<1>8. /\ sessions' \in Seq(SessionType) /\ Len(sessions') = n /\ sessions'[n] = new
      /\ sessions'[q.row] = ended /\ \A s \in Issued \ {q.row} : sessions'[s] = sessions[s]
  BY <1>2, <1>4, <1>5, <1>7 DEF Issued
<1>9. \A s \in Issued :
        /\ sessions'[s].user = sessions[s].user /\ sessions'[s].root = sessions[s].root
        /\ sessions'[s].parent = sessions[s].parent /\ sessions'[s].link = sessions[s].link
        /\ sessions'[s].role = sessions[s].role /\ sessions'[s].since = sessions[s].since
        /\ s # q.row => sessions'[s].state = sessions[s].state
        /\ sessions'[s].state = "live" => sessions[s].state = "live" /\ s # q.row
  BY <1>7, <1>8
<1>10. \A s \in Issued : sessions'[s].state = "live" =>
                           sessions[s].state = "live" /\ sessions[s].root # old.root
  BY <1>2, <1>9 DEF SessionsHold, OneLivePerSignIn, OneLiveSession, Live
<1>11. /\ old.root \in 1..n /\ q.row \in 0..(n - 1)
  BY <1>2, <1>4 DEF SessionsHold, OneLivePerSignIn, SessionTypeOK, Issued
<1>12. request' \in [Requests -> RequestType]
  BY <1>4, <1>5, IdleRequest
<1>13. q.role \in 1..Len(roles[q.user]) /\ q.role >= old.since
  BY <1>2, <1>3
<1>14. \A u \in Users : Len(roles[u]) <= Len(roles'[u]) /\ Len(roles'[u]) <= MaxRoles
  BY <1>4, <1>6
<1> HIDE DEF n, before
<1>15. /\ SessionTypeOK' /\ OneLiveSession' /\ RoleStaleOnce'
       /\ Issued' = Issued \cup {n} /\ n \notin Issued /\ n \in Nat \ {0}
  <2>1. n = Len(sessions) + 1
    BY DEF n
  <2>2. sessions'[n].root \in 1..n /\ sessions'[n].parent \in 0..(n - 1)
        /\ sessions'[n].role \in 1..sessions'[n].since
        /\ sessions'[n].since <= Len(roles'[sessions'[n].user])
        /\ sessions'[n].role >= sessions[sessions'[n].parent].since
    BY <1>3, <1>6, <1>7, <1>8, <1>11, <1>13
  <2>3. sessions'[n].root = old.root
    BY <1>7, <1>8
  <2> QED
    BY <1>4, <1>6, <1>8, <1>9, <1>10, <1>12, <1>14, <1>a, <2>1, <2>2, <2>3, SessionAdded
<1>16. LinkSpentOnce' /\ LinksKnown'
  BY <1>7, <1>8, <1>9, <1>15, <1>a
  DEF SessionsHold, OneLivePerSignIn, LinkSpentOnce, LinksKnown, NoRow
<1>17. RegisteredOnce'
  BY <1>6, <1>a DEF SessionsHold, OneLivePerSignIn, RegisteredOnce, Registered
<1>18. RequestsInFlight' /\ LocksDiffer'
  <2>1. HoldsSession(request[r]) /\ ~HoldsLink(request[r]) /\ request[r].op # "register"
    BY <1>1, <1>2 DEF HoldsSession, HoldsLink
  <2> QED
    <3>1. LinksKept(request[r])
      BY <1>a DEF LinksKept
    <3>2. RolesKept(request[r])
      BY <1>4, <1>6 DEF RolesKept
    <3>3. SessionsKept(request[r])
      BY <1>1, <1>9, <1>15, <2>1 DEF SessionsKept
    <3>4. request'[r] = Idle /\ \A p \in Requests \ {r} : request'[p] = request[p]
      BY <1>4, <1>b
    <3> QED
      BY <3>4, <3>1, <3>2, <3>3, OthersGoOn
<1> QED
  BY <1>15, <1>16, <1>17, <1>18 DEF SessionsHold, OneLivePerSignIn

\* A sign-in that commits spends the link it holds and begins a new sign-in; a
\* registration also records the user and its fact.
LEMMA SignInIssues ==
  ASSUME SessionsHold, NEW r \in Requests, IssueSession(r), HoldsLink(request[r])
  PROVE SessionsHold'
<1>1. PICK q \in RequestType : q = request[r]
  BY DEF SessionsHold, OneLivePerSignIn, SessionTypeOK
<1> DEFINE n == Len(sessions) + 1
           now == IF q.op = "register" THEN <<"user">> ELSE roles[q.user]
           new == Session(q.user, n, NoRow, q.row, q.role, Len(now), "live")
           spent == [links[q.row] EXCEPT !.state = "used"]
<1>2. /\ q.op \in {"login", "register"} /\ q.pc = "issuing" /\ q.user \in Users
      /\ q.row \in 1..Len(links) /\ links[q.row].state = "unused"
      /\ q.op = "login" => q.role \in 1..Len(roles[q.user])
      /\ q.op = "register" => q.role = 1 /\ roles[q.user] = <<>>
  BY <1>1 DEF SessionsHold, RequestsInFlight, InFlight, HoldsLink
<1>3. /\ roles \in [Users -> Seq(Roles)] /\ links \in Seq(LinkType) /\ events \in [Users -> Nat]
      /\ sessions \in Seq(SessionType) /\ Len(sessions) \in Nat /\ Len(links) \in Nat
      /\ request \in [Requests -> RequestType]
      /\ \A u \in Users : Len(roles[u]) <= MaxRoles /\ Len(roles[u]) \in Nat
  BY DEF SessionsHold, OneLivePerSignIn, SessionTypeOK
<1>4. /\ sessions' = Append(sessions, new)
      /\ access' = access \cup {n}
      /\ links' = [links EXCEPT ![q.row] = spent]
      /\ roles' = [roles EXCEPT ![q.user] = now]
      /\ events' = IF q.op = "register" THEN [events EXCEPT ![q.user] = events[q.user] + 1] ELSE events
      /\ request' = [request EXCEPT ![r] = Idle]
      /\ UNCHANGED <<allowed, policies, swept>>
  BY <1>1, <1>2 DEF IssueSession
<1>5. /\ now \in Seq(Roles) /\ Len(now) \in Nat /\ Len(now) <= MaxRoles /\ now # <<>>
      /\ Len(roles[q.user]) <= Len(now) /\ q.role \in 1..Len(now) /\ q.role \in Nat
      /\ q.op # "register" => now = roles[q.user] /\ roles[q.user] # <<>>
  <2>1. CASE q.op = "register"
    <3>1. now = <<"user">> /\ "user" \in Roles
      BY <2>1 DEF Roles
    <3> HIDE DEF now
    <3>2. now \in Seq(Roles) /\ Len(now) = 1 /\ now # <<>>
      BY <3>1
    <3> QED
      BY <1>2, <2>1, <3>2, BoundsAssumption
  <2>2. CASE q.op = "login"
    BY <1>2, <1>3, <2>2
  <2> QED
    BY <1>2, <2>1, <2>2
<1> HIDE DEF now
<1>6. links[q.row] \in LinkType
  BY <1>2, LinkRow
<1>7. /\ new \in SessionType /\ spent \in LinkType /\ spent.state = "used"
      /\ new.root = n /\ new.parent = NoRow /\ new.link = q.row /\ new.role = q.role
      /\ new.since = Len(now) /\ new.user = q.user
  <2>1. n \in Nat /\ q.row \in Nat
    BY <1>2, <1>3
  <2> HIDE DEF n
  <2>2. spent \in LinkType /\ spent.state = "used"
    BY <1>6 DEF LinkType
  <2>3. new \in SessionType
    BY <1>2, <1>5, <2>1 DEF Session, SessionType, NoRow
  <2> QED
    BY <2>2, <2>3 DEF Session
<1> HIDE DEF new, spent
<1>8. /\ sessions' \in Seq(SessionType) /\ Len(sessions') = n /\ sessions'[n] = new
      /\ \A s \in Issued : sessions'[s] = sessions[s]
  BY <1>3, <1>4, <1>7 DEF Issued
<1>9. /\ links' \in Seq(LinkType) /\ Len(links') = Len(links) /\ links'[q.row] = spent
      /\ \A l \in 1..Len(links) \ {q.row} : links'[l] = links[l]
  <2>1. links' = [links EXCEPT ![q.row] = spent] /\ q.row \in 1..Len(links)
        /\ links \in Seq(LinkType) /\ spent \in LinkType
    BY <1>2, <1>3, <1>4, <1>7
  <2> QED
    BY <2>1
<1>10. /\ roles' \in [Users -> Seq(Roles)] /\ roles'[q.user] = now
       /\ \A u \in Users \ {q.user} : roles'[u] = roles[u]
  BY <1>2, <1>3, <1>4, <1>5
<1>11. /\ events' \in [Users -> Nat]
       /\ \A u \in Users : events'[u] = IF q.op = "register" /\ u = q.user THEN events[u] + 1 ELSE events[u]
  <2>1. CASE q.op = "register"
    <3>1. events' = [events EXCEPT ![q.user] = events[q.user] + 1] /\ q.user \in Users
          /\ events \in [Users -> Nat]
      BY <1>2, <1>3, <1>4, <2>1
    <3> QED
      BY <2>1, <3>1
  <2>2. CASE q.op # "register"
    BY <1>3, <1>4, <2>2
  <2> QED
    BY <2>1, <2>2
<1>12. access' = access \cup {n} /\ UNCHANGED <<allowed, policies, swept>>
  BY <1>4
<1>13. request' \in [Requests -> RequestType] /\ request'[r] = Idle
       /\ \A p \in Requests \ {r} : request'[p] = request[p]
  BY <1>3, <1>4, IdleRequest
<1>14. \A u \in Users : Len(roles[u]) <= Len(roles'[u]) /\ Len(roles'[u]) <= MaxRoles
                        /\ Len(roles'[u]) \in Nat
  BY <1>3, <1>5, <1>10
<1>15. \A s \in Issued : sessions[s].root # n /\ sessions[s].root \in Nat
  BY <1>3 DEF SessionsHold, OneLivePerSignIn, SessionTypeOK, Issued
<1>16. n = Len(sessions) + 1 /\ n \in Nat \ {0}
  BY <1>3
<1> HIDE DEF n
<1>17. /\ SessionTypeOK' /\ OneLiveSession' /\ RoleStaleOnce'
       /\ Issued' = Issued \cup {n} /\ n \notin Issued
  <2>1. sessions'[n].root \in 1..n /\ sessions'[n].parent \in 0..(n - 1)
        /\ sessions'[n].role \in 1..sessions'[n].since /\ sessions'[n].parent = NoRow
        /\ sessions'[n].since <= Len(roles'[sessions'[n].user])
        /\ sessions'[n].root = n
    <3>1. sessions'[n].root = n /\ sessions'[n].parent = NoRow /\ sessions'[n].role = q.role
          /\ sessions'[n].since = Len(now) /\ sessions'[n].user = q.user
      BY <1>7, <1>8
    <3>2. roles'[sessions'[n].user] = now
      BY <1>10, <3>1
    <3>3. n \in 1..n /\ 0 \in 0..(n - 1)
      BY <1>16
    <3> QED
      BY <1>5, <3>1, <3>2, <3>3 DEF NoRow
  <2>2. ASSUME NEW s \in Issued
        PROVE /\ sessions'[s] = sessions[s]
              /\ sessions'[s].state = "live"
                 => sessions[s].state = "live" /\ sessions[s].root # sessions'[n].root
    BY <1>8, <1>15, <2>1
  <2>3. /\ sessions' \in Seq(SessionType) /\ Len(sessions') = n /\ links' \in Seq(LinkType)
        /\ roles' \in [Users -> Seq(Roles)] /\ events' \in [Users -> Nat]
        /\ request' \in [Requests -> RequestType]
    BY <1>8, <1>9, <1>10, <1>11, <1>13
  <2> QED
    BY <1>12, <1>14, <1>16, <2>1, <2>2, <2>3, SessionAdded
<1>18. LinksKnown'
  <2>1. \A s \in Issued : sessions'[s].link \in 0..Len(links')
    BY <1>8, <1>9 DEF SessionsHold, LinksKnown
  <2>2. sessions'[n].link \in 0..Len(links')
    BY <1>2, <1>3, <1>7, <1>8, <1>9
  <2> QED
    BY <1>17, <2>1, <2>2 DEF LinksKnown
<1>19. LinkSpentOnce'
  <2>1. \A s \in Issued : sessions[s].link # q.row
    BY <1>2 DEF SessionsHold, OneLivePerSignIn, LinkSpentOnce
  <2>2. ASSUME NEW l \in 1..Len(links)
        PROVE links'[l].state = "used" <=> \E s \in Issued' : sessions'[s].link = l
    <3>1. CASE l = q.row
      BY <1>7, <1>8, <1>9, <1>17, <3>1
    <3>2. CASE l # q.row
      BY <1>7, <1>8, <1>9, <1>17, <3>2 DEF SessionsHold, OneLivePerSignIn, LinkSpentOnce
    <3> QED
      BY <3>1, <3>2
  <2>3. ASSUME NEW s \in Issued', NEW t \in Issued', sessions'[s].link = sessions'[t].link,
               sessions'[s].link # NoRow
        PROVE s = t
    BY <1>7, <1>8, <1>17, <2>1, <2>3 DEF SessionsHold, OneLivePerSignIn, LinkSpentOnce
  <2> QED
    BY <1>9, <2>2, <2>3 DEF LinkSpentOnce
<1>20. RegisteredOnce'
  <2> SUFFICES ASSUME NEW u \in Users
               PROVE events'[u] = IF roles'[u] # <<>> THEN 1 ELSE 0
    BY DEF RegisteredOnce, Registered
  <2>1. events[u] = IF roles[u] # <<>> THEN 1 ELSE 0
    BY DEF SessionsHold, OneLivePerSignIn, RegisteredOnce, Registered
  <2> QED
    BY <1>2, <1>5, <1>10, <1>11, <2>1
<1>21. RequestsInFlight' /\ LocksDiffer'
  <2>1. HoldsLink(q) /\ ~HoldsSession(q)
    BY <1>2 DEF HoldsLink, HoldsSession
  <2>2. LinksKept(request[r])
    BY <1>1, <1>9, <2>1 DEF LinksKept
  <2>3. RolesKept(request[r])
    BY <1>1, <1>2, <1>5, <1>10, <1>14 DEF RolesKept
  <2>4. SessionsKept(request[r])
    BY <1>8, <1>17 DEF SessionsKept
  <2> QED
    BY <1>13, <2>2, <2>3, <2>4, OthersGoOn
<1> QED
  BY <1>17, <1>18, <1>19, <1>20, <1>21 DEF SessionsHold, OneLivePerSignIn

-----------------------------------------------------------------------------
(* Theorems *)

\* Every step of the sign-in preserves the invariant.
LEMMA SessionsStep ==
  ASSUME SessionsHold, [SessionNext]_vars PROVE SessionsHold'
<1>1. ASSUME UNCHANGED vars PROVE SessionsHold'
  <2>1. UNCHANGED <<roles, events, allowed, policies, links, sessions, access, request, swept>>
    BY <1>1 DEF vars
  <2>2. RequestsInFlight' /\ LocksDiffer'
    BY <2>1 DEF SessionsHold, RequestsInFlight, LocksDiffer, InFlight, Issued
  <2> QED
    BY <2>1, <2>2, RequestStep DEF SessionsHold, OneLivePerSignIn, SessionTypeOK
<1>2. ASSUME NEW u \in Users, RequestLink(u) \/ AllowOrRemoveDomain(u) \/ \E to \in Roles : ChangeRole(u, to)
      PROVE SessionsHold'
  BY <1>2, RequestLinkStep, OutsideStep, ChangeRoleStep
<1>3. ASSUME NEW l \in LinkIds, ExpireLink(l) \/ \E r \in Requests : Login(r, l) \/ Register(r, l)
      PROVE SessionsHold'
  BY <1>3, ExpireLinkStep, LoginStep, RegisterStep
<1>4. ASSUME NEW s \in SessionIds,
             \/ Logout(s) \/ AccessExpires(s) \/ SessionExpires(s)
             \/ \E r \in Requests : RefreshRead(r, s) \/ LogoutAll(r, s)
      PROVE SessionsHold'
  BY <1>4, LogoutStep, OutsideStep, SessionExpiresStep, RefreshReadStep, LogoutAllStep
<1>5. ASSUME NEW r \in Requests, IssueSession(r) PROVE SessionsHold'
  <2>1. request[r].op = "refresh" \/ HoldsLink(request[r])
    <3>1. request[r].op \in {"none", "login", "register", "refresh", "logoutAll"}
      BY DEF SessionsHold, OneLivePerSignIn, SessionTypeOK, RequestType
    <3>2. InFlight(request[r]) /\ request[r].pc = "issuing" /\ Idle.pc = "idle"
      BY <1>5 DEF IssueSession, SessionsHold, RequestsInFlight, Idle, Request
    <3> QED
      BY <3>1, <3>2 DEF InFlight, HoldsLink
  <2> QED
    BY <1>5, <2>1, RefreshIssues, SignInIssues
<1>6. ASSUME NEW r \in Requests, RefreshRevoke(r) \/ Rollback(r) \/ SweepStarts(r) \/ SweepEnds(r)
      PROVE SessionsHold'
  BY <1>6, RefreshRevokeStep, RollbackStep, SweepStartsStep, SweepEndsStep
<1> QED
  BY <1>1, <1>2, <1>3, <1>4, <1>5, <1>6 DEF SessionNext

\* In every behaviour of the sign-in, requests know what they must and hold
\* different rows, besides what OneLivePerSignIn and RoleStaleOnce say.
THEOREM SessionsSafe == SessionSpec => []SessionsHold
<1>1. SessionsHold /\ [SessionNext]_vars => SessionsHold'
  BY SessionsStep
<1> QED
  BY <1>1, SessionsBegin, PTL DEF SessionSpec

\* However many handlers receive the same cookie or link, however often and
\* interleaved, a sign-in has one live session, a link opens one session and a
\* user is registered with one fact (auth.go, sessions.go, provisioning.go).
THEOREM SignIns == SessionSpec => []OneLivePerSignIn
  BY SessionsSafe, PTL DEF SessionsHold

\* The role in a token, read outside the transaction that signs it, is no older
\* than the one in force when the presented token was issued (auth.go Refresh).
THEOREM RoleAge == SessionSpec => []RoleStaleOnce
  BY SessionsSafe, PTL DEF SessionsHold
=============================================================================
