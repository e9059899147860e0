------------------------------- MODULE MCChat -------------------------------
(***************************************************************************)
(* The chat of an order's participants through Telegram, in two scenes.    *)
(*  - relay: an order whose first courier leaves and is replaced. The      *)
(*    requester sends a message, the courier a picture, which is refused;  *)
(*    two calls fail and the process restarts once;                        *)
(*  - menu: two orders of the same requester and courier. The courier      *)
(*    writes about the first; the requester opens the menu, presses the    *)
(*    button of the second and replies to the message about the first; a   *)
(*    call fails, and the two may lose their links.                        *)
(***************************************************************************)
EXTENDS ChatRelay

CONSTANTS ann, bob, cat, chA, chB, o1, o2

At(courier, status) == [courier |-> courier, status |-> status]
From(kind, chat, order) == [kind |-> kind, chat |-> chat, order |-> order]

Replaced ==
  <<At(bob, "awaiting_pickup"), At(Nobody, "awaiting_courier"),
    At(cat, "awaiting_pickup"), At(cat, "completed")>>
Running == <<At(bob, "awaiting_pickup")>>
Simple == Append(Running, At(bob, "completed"))

RelayScene ==
  [history |-> [o \in Orders |-> IF o = o1 THEN Replaced ELSE <<>>],
   inbox   |-> <<From("picture", chB, Nobody), From("text", chA, Nobody)>>]
MenuScene ==
  [history |-> [o \in Orders |-> IF o = o1 THEN Simple ELSE Running],
   inbox   |-> <<From("text", chB, Nobody), From("chat", chA, Nobody), From("press", chA, o2),
               From("text", chA, o1)>>]

ChatScenes == {RelayScene, MenuScene}
ChatRequester == [o \in {o1, o2} |-> ann]
ChatLinks == [u \in {ann, bob, cat} |-> IF u = ann THEN chA ELSE IF u = bob THEN chB ELSE Nobody]

InScope ==
  scene = MenuScene =>
    /\ faults <= 1 /\ restarts = 0
    /\ \A u \in Users : links[u] \in {FirstLinks[u], Nobody}

ChatNext == RelayNext /\ InScope'
ChatSpec == RelayInit /\ [][ChatNext]_vars
=============================================================================
