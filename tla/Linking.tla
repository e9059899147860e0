------------------------------ MODULE Linking -------------------------------
(***************************************************************************)
(* Link codes and Telegram links of the communication service. Redeeming   *)
(* and unlinking are transactions of several statements on a READ          *)
(* COMMITTED database: a statement sees what is committed, and waits for   *)
(* a row another transaction has changed. Other operations are single      *)
(* statements.                                                             *)
(***************************************************************************)
EXTENDS Integers, Sequences, FiniteSets

CONSTANTS Users, Chats,
          Requests,  \* transactions at work at the same time
          MaxCodes,  \* bound on codes
          NoChat

VARIABLES
  codes,      \* telegram_link_codes, in the order they were created
  links,      \* telegram_links: the chat of a user, and the code it came from
  request,    \* the transaction of every request
  made,       \* links made with every code
  conflicts,  \* redemptions that failed on the unique chat_id
  unlinked    \* for every user, the codes that an unlink has ended

vars == <<codes, links, request, made, conflicts, unlinked>>

Code(u, state) == [user |-> u, state |-> state]
Link(ch, c) == [chat |-> ch, code |-> c]
NoLink == Link(NoChat, 0)

\* A transaction: the chat it locked or the user it unlinks, the code rows and
\* the link rows it has changed.
Request(op, pc, ch, u, cs, gone, since) ==
  [op |-> op, pc |-> pc, chat |-> ch, user |-> u, codes |-> cs, gone |-> gone, since |-> since]
NoUser == NoChat
Idle == Request("none", "idle", NoChat, NoUser, {}, {}, 0)

Issued == 1..Len(codes)
Unused(u) == {c \in Issued : codes[c].user = u /\ codes[c].state \in {"unused", "expired"}}
HeldBy(ch) == {u \in Users : links[u].chat = ch}

CodeLocked(r, c) == \E q \in Requests \ {r} : request[q].pc # "locked" /\ c \in request[q].codes
LinkLocked(r, u) == \E q \in Requests \ {r} : u \in request[q].gone

LinkingInit ==
  /\ codes = <<>>
  /\ links = [u \in Users |-> NoLink]
  /\ request = [r \in Requests |-> Idle]
  /\ made = [c \in 1..MaxCodes |-> 0]
  /\ conflicts = 0
  /\ unlinked = [u \in Users |-> 0]

Set(r, q) == request' = [request EXCEPT ![r] = q]

-----------------------------------------------------------------------------
(* Codes *)

\* ReplaceCode: the one unused code of the user is overwritten.
CodesReplaced(u) ==
  Append([c \in Issued |-> IF c \in Unused(u) THEN Code(u, "gone") ELSE codes[c]], Code(u, "unused"))

CreateCode(u) ==
  /\ Len(codes) < MaxCodes
  /\ \A c \in Unused(u), r \in Requests : ~CodeLocked(r, c)
  /\ codes' = CodesReplaced(u)
  /\ UNCHANGED <<links, request, made, conflicts, unlinked>>

ExpireCode(c) ==
  /\ c \in Issued /\ codes[c].state = "unused" /\ \A r \in Requests : ~CodeLocked(r, c)
  /\ codes' = [codes EXCEPT ![c].state = "expired"]
  /\ UNCHANGED <<links, request, made, conflicts, unlinked>>

-----------------------------------------------------------------------------
(* RedeemCode *)

NoLock(ch) == TRUE
\* The advisory lock on the chat, held until the transaction ends.
ChatFree(ch) == \A q \in Requests : request[q].op = "redeem" => request[q].chat # ch

LockChat(r, ch, c) ==
  /\ request[r] = Idle /\ c \in Issued /\ ChatFree(ch)
  /\ Set(r, Request("redeem", "locked", ch, codes[c].user, {c}, {}, c))
  /\ UNCHANGED <<codes, links, made, conflicts, unlinked>>

Usable(c) == codes[c].state = "unused"

\* An unknown, used or expired code ends the transaction.
UseCode(r) ==
  LET q == request[r] IN
  /\ q.op = "redeem" /\ q.pc = "locked" /\ ~CodeLocked(r, q.since)
  /\ Set(r, IF Usable(q.since) THEN [q EXCEPT !.pc = "used"] ELSE Idle)
  /\ UNCHANGED <<codes, links, made, conflicts, unlinked>>

\* The chat is taken away from any other user.
ReleaseChat(r) ==
  LET q == request[r]
      others == HeldBy(q.chat) \ {q.user}
  IN /\ q.op = "redeem" /\ q.pc = "used" /\ \A u \in others : ~LinkLocked(r, u)
     /\ Set(r, [q EXCEPT !.pc = "released", !.gone = others])
     /\ UNCHANGED <<codes, links, made, conflicts, unlinked>>

\* The links once q has inserted or replaced its user's.
LinksSaved(q) ==
  [u \in Users |-> IF u = q.user THEN Link(q.chat, q.since)
                   ELSE IF u \in q.gone THEN NoLink ELSE links[u]]

\* The user's link is saved, and the transaction commits; a
\* chat that is still someone else's fails it.
SaveLink(r) ==
  LET q == request[r]
      clash == HeldBy(q.chat) \ (q.gone \cup {q.user}) # {}
  IN /\ q.op = "redeem" /\ q.pc = "released" /\ ~LinkLocked(r, q.user)
     /\ IF clash
        THEN /\ conflicts' = conflicts + 1
             /\ UNCHANGED <<codes, links, made>>
        ELSE /\ codes' = [codes EXCEPT ![q.since].state = "used"]
             /\ links' = LinksSaved(q)
             /\ made' = [made EXCEPT ![q.since] = @ + 1]
             /\ UNCHANGED conflicts
     /\ Set(r, Idle)
     /\ UNCHANGED unlinked

-----------------------------------------------------------------------------
(* Unlinking *)

NoCodes(u) == {}
\* The codes an unlink takes away with the link.
EndedCodes(u) == Unused(u)

\* DeleteLink: first the unused codes, so that none is redeemed afterwards.
DeleteUnusedCodes(r, u) ==
  /\ request[r] = Idle /\ \A c \in EndedCodes(u) : ~CodeLocked(r, c)
  /\ Set(r, Request("unlink", "codes", NoChat, u, EndedCodes(u), {}, Len(codes)))
  /\ UNCHANGED <<codes, links, made, conflicts, unlinked>>

DeleteLink(r) ==
  LET q == request[r] IN
  /\ q.op = "unlink" /\ ~LinkLocked(r, q.user)
  /\ codes' = [c \in Issued |-> IF c \in q.codes THEN Code(q.user, "gone") ELSE codes[c]]
  /\ links' = [links EXCEPT ![q.user] = NoLink]
  /\ unlinked' = [unlinked EXCEPT ![q.user] = q.since]
  /\ Set(r, Idle)
  /\ UNCHANGED <<made, conflicts>>

\* The bot was blocked, or a message could not reach the chat.
DeleteLinkByChat(ch) ==
  /\ HeldBy(ch) # {}
  /\ \A u \in HeldBy(ch), r \in Requests : ~LinkLocked(r, u)
  /\ links' = [u \in Users |-> IF u \in HeldBy(ch) THEN NoLink ELSE links[u]]
  /\ UNCHANGED <<codes, request, made, conflicts, unlinked>>

\* A statement fails, the database ends a deadlock, or the process stops.
Rollback(r) ==
  /\ request[r] # Idle
  /\ Set(r, Idle)
  /\ UNCHANGED <<codes, links, made, conflicts, unlinked>>

-----------------------------------------------------------------------------
(* The specification *)

LinkingNext ==
  \/ \E u \in Users : CreateCode(u)
  \/ \E c \in 1..MaxCodes : ExpireCode(c)
  \/ \E ch \in Chats : DeleteLinkByChat(ch)
  \/ \E r \in Requests :
       \/ \E ch \in Chats, c \in 1..MaxCodes : LockChat(r, ch, c)
       \/ UseCode(r) \/ ReleaseChat(r) \/ SaveLink(r)
       \/ \E u \in Users : DeleteUnusedCodes(r, u)
       \/ DeleteLink(r) \/ Rollback(r)

LinkingSpec == LinkingInit /\ [][LinkingNext]_vars

-----------------------------------------------------------------------------
(* Properties *)

\* The shape of codes, links and requests; a user has one unused code at most.
LinkingTypeOK ==
  /\ codes \in Seq([user : Users, state : {"unused", "expired", "used", "gone"}])
  /\ links \in [Users -> [chat : Chats \cup {NoChat}, code : 0..MaxCodes]]
  /\ \A r \in Requests : request[r].codes \subseteq Issued /\ request[r].gone \subseteq Users
  /\ \A u \in Users : Cardinality(Unused(u)) <= 1
  /\ conflicts \in Nat

\* A chat belongs to one user, and moving it never fails on the other link:
\* "concurrent redemptions from the same chat move it to the last one instead
\* of failing on chat_id" (linking/postgres.go RedeemCode).
ChatMovesCleanly ==
  /\ conflicts = 0
  /\ \A u, v \in Users : u # v /\ links[u] # NoLink => links[u].chat # links[v].chat

\* A code is used exactly when it made a link, and makes one at most, even when
\* two chats send it at once and one of the transactions fails half way.
CodeMakesOneLink ==
  \A c \in Issued : made[c] = (IF codes[c].state = "used" THEN 1 ELSE 0)

\* After a user disconnects, nothing they asked for before can connect the
\* account again (linking/postgres.go DeleteLink), also when a code was being
\* redeemed at that moment.
DisconnectHolds ==
  \A u \in Users : links[u] # NoLink => links[u].code > unlinked[u]
=============================================================================
