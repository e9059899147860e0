------------------------------- MODULE MCUsers ------------------------------
(***************************************************************************)
(* Sign-in, roles, reviews and Telegram links. The first state says which  *)
(* of five small instances runs.                                           *)
(*  - sessions: one address, two handlers at once, two links and three     *)
(*    sessions, so that a session is refreshed from two tabs and two       *)
(*    sign-ins race a LogoutAll;                                           *)
(*  - accounts: three users, two of whom an instance may be told to make   *)
(*    super admin, and two calls at once that change roles, the profile of *)
(*    the third user or (domains) the allowed domains;                     *)
(*  - reviews: three users, two orders and two calls at a time: mutual     *)
(*    reviews, two reviews of the same user, and removals;                 *)
(*  - linking: two users, two chats and two transactions: codes of         *)
(*    different users sent from one chat, one code sent from two chats,    *)
(*    and an unlink that meets a redemption.                               *)
(* x1 and x2 stand for the orders of reviews and the chats of linking.     *)
(***************************************************************************)
EXTENDS Sessions, TLC

CONSTANTS u1, u2, u3, s1, s2, x1, x2, None, NoChat

MCSignedIn == {u3}
MCRequests == {s1, s2}

VARIABLES
  part,
  chatLinks, chatRequest, codes, made, conflicts, unlinked,   \* of linking
  tx,                                                         \* of accounts or reviews
  role, profile, audit, first, domains, by,
  reviews, removals, stats

linkingVars == <<chatLinks, chatRequest, codes, made, conflicts, unlinked>>
accountVars == <<role, profile, audit, first, domains, by>>
reviewVars == <<reviews, removals, stats>>
usersVars == <<part, vars, linkingVars, tx, accountVars, reviewVars>>

Accounts == INSTANCE Accounts WITH
  Users <- {u1, u2, u3}, Operators <- {u1, u2}, Servers <- {s1, s2}, Domains <- {},
  MaxChanges <- 2
Domains == INSTANCE Accounts WITH
  Users <- {u1, u2, u3}, Operators <- {u1, u2}, Servers <- {s1, s2}, Domains <- {"edu"},
  MaxChanges <- 1
Reviews == INSTANCE Reviews WITH
  Users <- {u1, u2, u3}, Orders <- {x1, x2}, Ratings <- {2, 5}, Servers <- {s1, s2},
  MaxReviews <- 3
Linking == INSTANCE Linking WITH
  Users <- {u1, u2}, Chats <- {x1, x2}, Requests <- {s1, s2}, MaxCodes <- 3,
  links <- chatLinks, request <- chatRequest

Unused == "unused"
NoLinking ==
  /\ chatLinks = Unused /\ chatRequest = Unused /\ codes = Unused /\ made = Unused
  /\ conflicts = Unused /\ unlinked = Unused
NoAccounts ==
  /\ role = Unused /\ profile = Unused /\ audit = Unused /\ first = Unused
  /\ domains = Unused /\ by = Unused
NoReviews == reviews = Unused /\ removals = Unused /\ stats = Unused

UsersInit ==
  /\ SessionInit
  /\ \/ part = "sessions" /\ NoLinking /\ tx = Unused /\ NoAccounts /\ NoReviews
     \/ part = "linking" /\ Linking!LinkingInit /\ tx = Unused /\ NoAccounts /\ NoReviews
     \/ part = "accounts" /\ Accounts!AccountsInit /\ NoLinking /\ NoReviews
     \/ part = "domains" /\ Domains!AccountsInit /\ NoLinking /\ NoReviews
     \/ part = "reviews" /\ Reviews!ReviewsInit /\ NoLinking /\ NoAccounts
\* Nothing depends on a profile, so one user who edits it is enough.
OneProfile == \A u \in {u1, u2} : profile'[u] = profile[u]
UsersNext ==
  \/ part = "sessions" /\ SessionNext
       /\ UNCHANGED <<part, linkingVars, tx, accountVars, reviewVars>>
  \/ part = "linking" /\ Linking!LinkingNext
       /\ UNCHANGED <<part, vars, tx, accountVars, reviewVars>>
  \/ part = "accounts" /\ Accounts!AccountsNext /\ OneProfile
       /\ UNCHANGED <<part, vars, linkingVars, reviewVars>>
  \/ part = "domains" /\ Domains!AccountsNext /\ OneProfile
       /\ UNCHANGED <<part, vars, linkingVars, reviewVars>>
  \/ part = "reviews" /\ Reviews!ReviewsNext
       /\ UNCHANGED <<part, vars, linkingVars, accountVars>>
UsersSpec == UsersInit /\ [][UsersNext]_usersVars

-----------------------------------------------------------------------------
(* Properties of the parts beside the sessions *)

\* The count and the mean of a user are those of the live reviews, a review is
\* written once, and transactions about the same users do not block each other.
StatsCurrent ==
  part = "reviews" =>
    /\ Reviews!ReviewsTypeOK /\ Reviews!StatsCurrent
    /\ Reviews!OneReviewEver /\ Reviews!SomeoneProceeds

\* A chat has one user and moves without a conflict, a code makes one link,
\* and nothing asked for before a disconnect connects the account again.
LinksHold ==
  part = "linking" =>
    /\ Linking!LinkingTypeOK /\ Linking!ChatMovesCleanly
    /\ Linking!CodeMakesOneLink /\ Linking!DisconnectHolds

\* A change of a role, a profile or the domains is permitted by the roles in
\* force when it is committed, although they were read before; the super admin
\* the bootstrap has named stays the only one, and the audit says who is what.
AdminsHold ==
  [][/\ part = "accounts" =>
          /\ Accounts!AccountsTypeOK /\ Accounts!SuperAdminStays
          /\ Accounts!PermittedWhenDone /\ Accounts!AllowedWhenDone
     /\ part = "domains" => Domains!AllowedWhenDone]_usersVars

UsersSymmetry ==
  Permutations({s1, s2}) \cup Permutations({u1, u2}) \cup Permutations({x1, x2})
=============================================================================
