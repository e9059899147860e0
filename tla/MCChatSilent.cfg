SPECIFICATION ChatSpec
CONSTANTS
  ann = ann
  bob = bob
  cat = cat
  chA = chA
  chB = chB
  o1 = o1
  o2 = o2
  Nobody = Nobody
  Users = {ann, bob, cat}
  Chats = {chA, chB}
  Orders = {o1, o2}
  Requester <- ChatRequester
  Scenes <- ChatScenes
  FirstLinks <- ChatLinks
  MaxFaults = 2
  MaxRestarts = 1
CHECK_DEADLOCK FALSE
INVARIANT RelayedOrAnswered
