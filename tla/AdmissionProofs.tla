-------------------------- MODULE AdmissionProofs --------------------------
(***************************************************************************)
(* Proofs about Admission, for any number of callers, keys, requests and   *)
(* images. That a key makes one order is not inductive: it depends on the  *)
(* stored key naming the last order of its caller and key, and on every    *)
(* earlier one being resolved and a day old (Superseded). That an order    *)
(* keeps its images depends on what a request found when it prepared them, *)
(* long before it attached them (RequestKept), and on the cleaner deleting *)
(* only what it has fenced (ImageKept).                                    *)
(***************************************************************************)
EXTENDS Admission, TLAPS

-----------------------------------------------------------------------------
(* The inductive invariant *)

\* The type invariant, in three parts.
TablesTyped ==
  /\ keys \in [Callers -> [Keys -> KeyType]] /\ orders \in Seq(OrderType)
  /\ Len(orders) <= MaxOrders
  /\ request \in [Requests -> HandlerType] /\ \A r \in Requests : request[r].found <= Len(orders)
ImagesTyped ==
  /\ image \in [Images -> UploadType] /\ object \in [Images -> {"absent", "good", "other"}]
  /\ cleaner \subseteq Images
RestTyped == late \subseteq Bodies /\ selectable \in BOOLEAN /\ faults \in 0..MaxFaults

\* A stored key names an order of its caller and key, with the body it hashes.
KeyKept(c, k) ==
  \/ keys[c][k] = NoKey
  \/ /\ keys[c][k].resource \in 1..Len(orders)
     /\ orders[keys[c][k].resource].caller = c /\ orders[keys[c][k].resource].key = k
     /\ orders[keys[c][k].resource].body = keys[c][k].hash
KeysKept == \A c \in Callers, k \in Keys : KeyKept(c, k)

\* An order is the one its key names, or its key may be used again, and was
\* for a later order if it names one.
Followed(o, last) == o = last \/ (Reusable(o) /\ (last = NoOrder \/ o < last))
Superseded ==
  \A o \in 1..Len(orders) : Followed(o, keys[orders[o].caller][orders[o].key].resource)

OrdersValid == \A o \in 1..Len(orders) : Canonical(orders[o].body)

\* What a request under way knows: an order it found is its caller's, and the
\* images it prepared are as it saw them unless the cleaner has fenced them.
Failures == {"invalid", "archived", "images", "unavailable"}
Active(h) ==
  h.caller \in Callers \ Suspended /\ h.key \in Keys /\ h.body \in Bodies /\ Canonical(h.body)
OwnOrder(h) == h.found \in 1..Len(orders) /\ orders[h.found].caller = h.caller
PreparedImage(i) == image[i].state # "none" /\ (image[i].state = "uploading" => object[i] = "good")
RequestKept(h) ==
  /\ h.pc \notin {"idle", "done"} => Active(h)
  /\ h.pc = "admitting" => \A i \in h.body.images : PreparedImage(i)
  /\ h.pc = "rechecking" => h.cause \in Failures
  /\ h.pc = "resuming" => OwnOrder(h)
  /\ h.pc = "done" /\ h.cause \in Phases => OwnOrder(h) /\ orders[h.found].body = h.body
RequestsKept == \A r \in Requests : RequestKept(request[r])

ImageKept(i) ==
  /\ image[i].state = "none" => image[i] = NoUpload
  /\ image[i].state \in {"deleting", "gone"} => image[i].age = "day"
  /\ i \in cleaner => image[i].state = "deleting"
  /\ image[i].state \in {"none", "gone"} => object[i] = "absent"
ImageRowsKept == \A i \in Images : ImageKept(i)

AdmissionHold ==
  /\ TablesTyped /\ ImagesTyped /\ RestTyped
  /\ KeysKept /\ Superseded /\ OrdersValid /\ RequestsKept
  /\ ImageRowsKept /\ OrderImagesKept

\* The invariant says what the runs check.
LEMMA HoldImplies == AdmissionHold => OneOrderPerKey /\ ImagesKept
<1> SUFFICES ASSUME AdmissionHold PROVE OneOrderPerKey /\ ImagesKept
  OBVIOUS
<1>1. AdmissionTypeOK
  BY DEF AdmissionHold, TablesTyped, ImagesTyped, RestTyped, AdmissionTypeOK
<1>2. \A o \in 1..Len(orders) : o \in Nat /\ orders[o] \in OrderType
  BY DEF AdmissionHold, TablesTyped
<1>3. KeyMakesOneOrder
  <2> SUFFICES ASSUME NEW o \in 1..Len(orders), NEW p \in 1..Len(orders), o < p,
                      orders[o].caller = orders[p].caller, orders[o].key = orders[p].key
               PROVE Reusable(o)
    BY DEF KeyMakesOneOrder
  <2>1. PICK last : last = keys[orders[o].caller][orders[o].key].resource
    OBVIOUS
  <2>2. Followed(o, last) /\ Followed(p, last)
    BY <2>1 DEF AdmissionHold, Superseded
  <2> QED
    BY <1>2, <2>2 DEF Followed, NoOrder
<1>4. PendingIsPinned
  <2> SUFFICES ASSUME NEW o \in 1..Len(orders), orders[o].phase = "reserve_pending"
               PROVE keys[orders[o].caller][orders[o].key].resource = o
    BY DEF PendingIsPinned
  <2>1. ~Reusable(o)
    BY DEF Reusable, Resolved
  <2> QED
    BY <2>1 DEF AdmissionHold, Superseded, Followed
<1>5. AnsweredWithOwn
  BY DEF AdmissionHold, RequestsKept, RequestKept, OwnOrder, AnsweredWithOwn
<1>6. ImagesKept
  BY DEF AdmissionHold, ImageRowsKept, ImageKept, ImagesKept, NoOrphanObject
<1> QED
  BY <1>1, <1>3, <1>4, <1>5, <1>6 DEF OneOrderPerKey

\* In the beginning there are no orders, keys or images.
LEMMA AdmissionBegins == AdmissionInit => AdmissionHold
<1> SUFFICES ASSUME AdmissionInit PROVE AdmissionHold
  OBVIOUS
<1>1. orders = <<>> /\ orders \in Seq(OrderType) /\ Len(orders) = 0 /\ MaxOrders \in Nat /\ MaxFaults \in Nat
  BY AdmissionAssumption DEF AdmissionInit
<1>2. NoKey \in KeyType
  BY DEF NoKey, Key, KeyType, NoOrder
<1>3. Idle \in HandlerType /\ Idle.found = 0 /\ Idle.pc = "idle"
  BY DEF Idle, Handler, HandlerType, NoOrder
<1>4. NoUpload \in UploadType /\ NoUpload.state = "none"
  BY DEF NoUpload, Upload, UploadType, NoOrder, Ages
<1>5. TablesTyped
  BY <1>1, <1>2, <1>3 DEF AdmissionInit, TablesTyped
<1>6. ImagesTyped /\ RestTyped
  BY <1>1, <1>4 DEF AdmissionInit, ImagesTyped, RestTyped
<1>7. KeysKept /\ Superseded /\ OrdersValid /\ OrderImagesKept
  BY <1>1 DEF AdmissionInit, KeysKept, KeyKept, Superseded, OrdersValid, OrderImagesKept
<1>8. RequestsKept
  BY <1>3 DEF AdmissionInit, RequestsKept, RequestKept
<1>9. ImageRowsKept
  BY <1>4 DEF AdmissionInit, ImageRowsKept, ImageKept
<1> QED
  BY <1>5, <1>6, <1>7, <1>8, <1>9 DEF AdmissionHold

-----------------------------------------------------------------------------
(* What a step leaves standing *)

\* Orders keep what they were admitted with, and grow older; a fenced or
\* attached image stays so, and a row that exists keeps its object until it is
\* fenced.
Grows ==
  /\ Len(orders) <= Len(orders') /\ Len(orders') \in Nat
  /\ \A o \in 1..Len(orders) :
       /\ orders'[o].caller = orders[o].caller /\ orders'[o].key = orders[o].key
       /\ orders'[o].body = orders[o].body /\ (Reusable(o) => Reusable(o)')
  /\ \A i \in Images : PreparedImage(i) => PreparedImage(i)'

\* The types of the state, as the steps below need them.
LEMMA Types ==
  ASSUME AdmissionHold
  PROVE /\ keys \in [Callers -> [Keys -> KeyType]] /\ orders \in Seq(OrderType)
        /\ request \in [Requests -> HandlerType] /\ Len(orders) \in Nat
        /\ \A o \in 1..Len(orders) : orders[o] \in OrderType /\ o \in Nat
        /\ image \in [Images -> UploadType] /\ object \in [Images -> {"absent", "good", "other"}]
        /\ cleaner \subseteq Images /\ RestTyped
        /\ \A b \in Bodies : b.images \subseteq Images
  BY AdmissionAssumption DEF AdmissionHold, TablesTyped, ImagesTyped

\* What a request knows stays true,
LEMMA RequestStays ==
  ASSUME AdmissionHold, Grows, NEW h, RequestKept(h) PROVE RequestKept(h)'
<1>1. ASSUME OwnOrder(h) PROVE OwnOrder(h)' /\ orders'[h.found].body = orders[h.found].body
  BY <1>1, Types DEF OwnOrder, Grows
<1>2. ASSUME h.pc = "admitting" PROVE \A i \in h.body.images : PreparedImage(i)'
  BY <1>2, Types DEF RequestKept, Active, Grows
<1> QED
  BY <1>1, <1>2 DEF RequestKept

\* and so for all requests while one of them goes on with h.
LEMMA RequestsStay ==
  ASSUME AdmissionHold, Grows, NEW r \in Requests, NEW h \in HandlerType,
         request' = [request EXCEPT ![r] = h], RequestKept(h)', h.found <= Len(orders')
  PROVE /\ RequestsKept' /\ request' \in [Requests -> HandlerType]
        /\ \A q \in Requests : request'[q].found <= Len(orders')
<1>1. request \in [Requests -> HandlerType] /\ Len(orders) \in Nat /\ Len(orders') \in Nat
      /\ Len(orders) <= Len(orders')
  BY Types DEF Grows
<1>2. request' \in [Requests -> HandlerType] /\ request'[r] = h
      /\ \A q \in Requests \ {r} : request'[q] = request[q]
  BY <1>1
<1>3. ASSUME NEW q \in Requests PROVE RequestKept(request[q])' /\ request'[q].found <= Len(orders')
  <2>1. CASE q = r
    BY <1>2, <2>1
  <2>2. CASE q # r
    <3>1. PICK g : g = request[q]
      OBVIOUS
    <3>2. RequestKept(g) /\ request'[q] = g /\ g.found <= Len(orders) /\ g.found \in Nat
      BY <1>1, <1>2, <2>2, <3>1 DEF AdmissionHold, RequestsKept, TablesTyped, HandlerType
    <3> QED
      BY <1>1, <3>2, RequestStays
  <2> QED
    BY <2>1, <2>2
<1> QED
  BY <1>2, <1>3 DEF RequestsKept

\* A step that leaves the requests alone.
LEMMA RequestsUntouched ==
  ASSUME AdmissionHold, Grows, UNCHANGED request
  PROVE /\ RequestsKept' /\ request' \in [Requests -> HandlerType]
        /\ \A q \in Requests : request'[q].found <= Len(orders')
<1>1. ASSUME NEW q \in Requests PROVE RequestKept(request[q])' /\ request'[q].found <= Len(orders')
  <2>1. PICK g : g = request[q]
    OBVIOUS
  <2>2. RequestKept(g) /\ request'[q] = g /\ g.found <= Len(orders) /\ g.found \in Nat
    BY <2>1 DEF AdmissionHold, RequestsKept, TablesTyped, HandlerType
  <2> QED
    BY <2>2, Types, RequestStays DEF Grows
<1> QED
  BY <1>1, Types DEF RequestsKept

\* What is not written stays: images and their orders,
LEMMA ImagesUntouched ==
  ASSUME AdmissionHold, UNCHANGED <<orders, image, object, cleaner>>
  PROVE ImagesTyped' /\ ImageRowsKept' /\ OrderImagesKept' /\ Grows /\ OrdersValid'
<1>1. ImagesTyped' /\ OrderImagesKept' /\ ImageRowsKept' /\ OrdersValid'
  BY DEF AdmissionHold, ImagesTyped, ImageRowsKept, ImageKept, OrderImagesKept, OrdersValid, Canonical
<1>2. \A o : Reusable(o)' <=> Reusable(o)
  BY DEF Reusable, Resolved, KeyExpired
<1>3. \A i : PreparedImage(i)' <=> PreparedImage(i)
  BY DEF PreparedImage
<1> QED
  BY <1>1, <1>2, <1>3, Types DEF Grows

\* and keys.
LEMMA KeysUntouched ==
  ASSUME AdmissionHold, UNCHANGED <<keys, orders>>
  PROVE KeysKept' /\ Superseded' /\ keys' \in [Callers -> [Keys -> KeyType]]
<1>1. \A o : Reusable(o)' <=> Reusable(o)
  BY DEF Reusable, Resolved, KeyExpired
<1>2. Superseded'
  BY <1>1 DEF AdmissionHold, Superseded, Followed
<1> QED
  BY <1>2, Types DEF AdmissionHold, KeysKept, KeyKept

-----------------------------------------------------------------------------
(* Steps of a request *)

\* One request goes on, and the tables keep their keys.
LEMMA OneRequestMoves ==
  ASSUME AdmissionHold, NEW r \in Requests, NEW h \in HandlerType,
         request' = [request EXCEPT ![r] = h], RequestKept(h), h.found <= Len(orders),
         UNCHANGED <<orders, image, object, cleaner>>, RestTyped',
         KeysKept', Superseded', keys' \in [Callers -> [Keys -> KeyType]]
  PROVE AdmissionHold'
<1>1. ImagesTyped' /\ ImageRowsKept' /\ OrderImagesKept' /\ Grows /\ OrdersValid'
  BY ImagesUntouched
<1>2. RequestKept(h)' /\ h.found <= Len(orders')
  BY <1>1, RequestStays
<1>3. /\ RequestsKept' /\ request' \in [Requests -> HandlerType]
      /\ \A q \in Requests : request'[q].found <= Len(orders')
  BY <1>1, <1>2, RequestsStay
<1>4. TablesTyped'
  BY <1>3 DEF AdmissionHold, TablesTyped
<1> QED
  BY <1>1, <1>3, <1>4 DEF AdmissionHold

\* A request that is under way goes on at pc.
LEMMA AtKeeps ==
  ASSUME AdmissionHold, NEW r \in Requests, Active(request[r]),
         NEW pc \in {"locating", "preparing", "admitting", "rechecking", "resuming", "done"},
         NEW found \in 0..Len(orders), NEW cause \in {"none"} \cup Phases \cup Refusals,
         At(r, pc, found, cause),
         pc = "admitting" => \A i \in request[r].body.images : PreparedImage(i),
         pc = "rechecking" => cause \in Failures,
         pc = "resuming" => found # 0 /\ orders[found].caller = request[r].caller,
         pc = "done" /\ cause \in Phases =>
           /\ found # 0 /\ orders[found].caller = request[r].caller /\ orders[found].body = request[r].body
  PROVE \E h \in HandlerType :
          request' = [request EXCEPT ![r] = h] /\ RequestKept(h) /\ h.found <= Len(orders)
<1>1. PICK h : h = Handler(pc, request[r].caller, request[r].key, request[r].body, found, cause)
  OBVIOUS
<1>2. /\ h.pc = pc /\ h.caller = request[r].caller /\ h.key = request[r].key
      /\ h.body = request[r].body /\ h.found = found /\ h.cause = cause
  BY <1>1 DEF Handler
<1>3. request' = [request EXCEPT ![r] = h]
  BY <1>1 DEF At
<1>4. Active(h)
  BY <1>2 DEF Active
<1>5. h \in HandlerType
  BY <1>1, Types DEF Handler, HandlerType, Active
<1>6. Len(orders) \in Nat
  BY Types
<1>7. RequestKept(h)
  BY <1>2, <1>4, <1>6 DEF RequestKept, OwnOrder
<1>8. h.found <= Len(orders)
  BY <1>2, <1>6
<1> QED
  BY <1>3, <1>5, <1>7, <1>8

\* FindCreationKey finds an order of the caller and the key, or the key is
\* free: every order made with it may be followed by another.
LEMMA Finds ==
  ASSUME AdmissionHold, NEW c \in Callers, NEW k \in Keys
  PROVE /\ Found(c, k) \in KeyType
        /\ \/ Found(c, k) = NoKey
           \/ /\ Found(c, k).resource \in 1..Len(orders)
              /\ orders[Found(c, k).resource].caller = c /\ orders[Found(c, k).resource].key = k
              /\ Found(c, k) = keys[c][k]
        /\ Found(c, k) = NoKey =>
             \A o \in 1..Len(orders) : orders[o].caller = c /\ orders[o].key = k => Reusable(o)
<1>1. NoKey \in KeyType /\ NoKey.resource = 0
  BY DEF NoKey, Key, KeyType, NoOrder
<1>2. keys[c][k] \in KeyType /\ KeyKept(c, k)
  BY Types DEF AdmissionHold, KeysKept
<1>3. Found(c, k) \in {NoKey, keys[c][k]}
  BY DEF Found, Stored
<1>4. ASSUME NEW o \in 1..Len(orders), orders[o].caller = c, orders[o].key = k, Found(c, k) = NoKey
      PROVE Reusable(o)
  <2>1. Followed(o, keys[c][k].resource)
    BY <1>4 DEF AdmissionHold, Superseded
  <2>2. keys[c][k] = NoKey \/ Reusable(keys[c][k].resource)
    BY <1>4 DEF Found, Stored
  <2>3. o # 0
    BY Types
  <2> QED
    BY <1>1, <2>1, <2>2, <2>3 DEF Followed
<1> QED
  BY <1>1, <1>2, <1>3, <1>4 DEF KeyKept

\* An expired key is removed as it is read.
LEMMA KeysForgotten ==
  ASSUME AdmissionHold, NEW c \in Callers, NEW k \in Keys, keys' = FoundKeys(c, k), UNCHANGED orders
  PROVE /\ KeysKept' /\ Superseded' /\ keys' \in [Callers -> [Keys -> KeyType]]
        /\ keys'[c][k] = Found(c, k)
<1>1. keys \in [Callers -> [Keys -> KeyType]] /\ Found(c, k) \in KeyType
      /\ \A o \in 1..Len(orders) : orders[o] \in OrderType /\ o \in Nat
  BY Types, Finds
<1>2. /\ keys' \in [Callers -> [Keys -> KeyType]] /\ keys'[c][k] = Found(c, k)
      /\ \A d \in Callers, l \in Keys : d # c \/ l # k => keys'[d][l] = keys[d][l]
  BY <1>1 DEF FoundKeys
<1>3. ASSUME NEW d \in Callers, NEW l \in Keys PROVE KeyKept(d, l)'
  BY <1>2, Finds DEF KeyKept, AdmissionHold, KeysKept
<1>4. \A o : Reusable(o)' <=> Reusable(o)
  BY DEF Reusable, Resolved, KeyExpired
<1>5. ASSUME NEW o \in 1..Len(orders) PROVE Followed(o, keys[orders[o].caller][orders[o].key].resource)'
  <2>1. CASE orders[o].caller = c /\ orders[o].key = k
    <3>1. Found(c, k) = NoKey \/ Found(c, k) = keys[c][k]
      BY Finds
    <3>2. CASE Found(c, k) = NoKey
      <4>1. Reusable(o) /\ NoKey.resource = NoOrder
        BY <2>1, <3>2, Finds DEF NoKey, Key
      <4> QED
        BY <1>2, <1>4, <2>1, <3>2, <4>1 DEF Followed
    <3>3. CASE Found(c, k) = keys[c][k]
      BY <1>2, <1>4, <2>1, <3>3 DEF Followed, AdmissionHold, Superseded
    <3> QED
      BY <3>1, <3>2, <3>3
  <2>2. CASE ~(orders[o].caller = c /\ orders[o].key = k)
    <3>1. orders[o].caller \in Callers /\ orders[o].key \in Keys
      BY <1>1 DEF OrderType
    <3> QED
      BY <1>2, <1>4, <2>2, <3>1 DEF Followed, AdmissionHold, Superseded
  <2> QED
    BY <2>1, <2>2
<1> QED
  BY <1>2, <1>3, <1>5 DEF KeysKept, Superseded

\* What a request that is under way knows of itself.
LEMMA UnderWay ==
  ASSUME AdmissionHold, NEW r \in Requests, request[r].pc \notin {"idle", "done"}
  PROVE /\ Active(request[r]) /\ RequestKept(request[r]) /\ request[r] \in HandlerType
        /\ request[r].found \in 0..Len(orders)
        /\ request[r].caller \in Callers /\ request[r].key \in Keys
        /\ request[r].cause \in {"none"} \cup Phases \cup Refusals
<1>1. RequestKept(request[r]) /\ request[r] \in HandlerType /\ request[r].found <= Len(orders)
      /\ Len(orders) \in Nat
  BY Types DEF AdmissionHold, RequestsKept, TablesTyped
<1>2. request[r].found \in 0..Len(orders)
  BY <1>1 DEF HandlerType
<1> QED
  BY <1>1, <1>2 DEF RequestKept, Active, HandlerType

\* A request begins, and is refused at once or looks for its key.
LEMMA BeginStep ==
  ASSUME AdmissionHold, NEW r \in Requests, NEW c \in Callers, NEW k \in Keys, NEW b \in Bodies,
         Begin(r, c, k, b)
  PROVE AdmissionHold'
<1>1. PICK h : h = IF c \in Suspended THEN Handler("done", c, k, b, NoOrder, "forbidden")
                   ELSE IF ~Canonical(b) THEN Handler("done", c, k, b, NoOrder, "invalid")
                   ELSE Handler("finding", c, k, b, NoOrder, "none")
  OBVIOUS
<1>2. request' = [request EXCEPT ![r] = h]
      /\ UNCHANGED <<keys, orders, image, object, late, selectable, cleaner, faults>>
  BY <1>1 DEF Begin
<1>3. h \in HandlerType /\ h.found = 0
  BY <1>1 DEF Handler, HandlerType, Refusals, NoOrder
<1>4. /\ h.caller = c /\ h.key = k /\ h.body = b
      /\ \/ h.pc = "done" /\ h.cause \in {"forbidden", "invalid"}
         \/ h.pc = "finding" /\ c \notin Suspended /\ Canonical(b)
  BY <1>1 DEF Handler
<1>5. RequestKept(h)
  BY <1>4 DEF RequestKept, Active, Phases
<1>6. RestTyped'
  BY <1>2, Types DEF RestTyped
<1>7. h.found <= Len(orders)
  BY <1>3, Types
<1> QED
  BY <1>2, <1>3, <1>5, <1>6, <1>7, KeysUntouched, OneRequestMoves

\* A request goes on at pc while nothing else changes.
LEMMA AtStep ==
  ASSUME AdmissionHold, NEW r \in Requests, Active(request[r]),
         NEW pc \in {"locating", "preparing", "admitting", "rechecking", "resuming", "done"},
         NEW found \in 0..Len(orders), NEW cause \in {"none"} \cup Phases \cup Refusals,
         At(r, pc, found, cause),
         pc = "admitting" => \A i \in request[r].body.images : PreparedImage(i),
         pc = "rechecking" => cause \in Failures,
         pc = "resuming" => found # 0 /\ orders[found].caller = request[r].caller,
         pc = "done" /\ cause \in Phases =>
           /\ found # 0 /\ orders[found].caller = request[r].caller /\ orders[found].body = request[r].body,
         UNCHANGED <<orders, image, object, late, selectable, cleaner>>, faults' \in 0..MaxFaults,
         keys' = keys \/ keys' = FoundKeys(request[r].caller, request[r].key)
  PROVE AdmissionHold'
<1>1. PICK h \in HandlerType :
        request' = [request EXCEPT ![r] = h] /\ RequestKept(h) /\ h.found <= Len(orders)
  BY AtKeeps
<1>2. RestTyped'
  BY Types DEF RestTyped
<1>3. KeysKept' /\ Superseded' /\ keys' \in [Callers -> [Keys -> KeyType]]
  BY KeysUntouched, KeysForgotten DEF Active
<1> QED
  BY <1>1, <1>2, <1>3, OneRequestMoves

\* The key is looked up before anything else.
LEMMA FindFirstStep ==
  ASSUME AdmissionHold, NEW r \in Requests, FindFirst(r) PROVE AdmissionHold'
<1>1. PICK c, k : c = request[r].caller /\ k = request[r].key
  OBVIOUS
<1>2. /\ request[r].pc = "finding" /\ keys' = FoundKeys(c, k)
      /\ UNCHANGED <<orders, image, object, late, selectable, cleaner, faults>>
      /\ \/ Found(c, k) # NoKey /\ Resuming(r, Found(c, k))
         \/ Answer(r, "unavailable") \/ Failing(r, "invalid") \/ Goto(r, "locating")
  BY <1>1 DEF FindFirst
<1>3. /\ Active(request[r]) /\ request[r].found \in 0..Len(orders) /\ c \in Callers /\ k \in Keys
      /\ request[r].cause \in {"none"} \cup Phases \cup Refusals
  BY <1>1, <1>2, UnderWay
<1>4. faults' \in 0..MaxFaults
  BY <1>2, Types DEF RestTyped
<1>5. CASE Found(c, k) # NoKey /\ Resuming(r, Found(c, k))
  <2>1. PICK found : found = Found(c, k).resource
    OBVIOUS
  <2>2. found \in 0..Len(orders) /\ found # 0 /\ orders[found].caller = request[r].caller
    BY <1>1, <1>3, <1>5, <2>1, Finds, Types
  <2>3. At(r, "resuming", found, request[r].cause)
    BY <1>5, <2>1 DEF Resuming
  <2> QED
    BY <1>1, <1>2, <1>3, <1>4, <2>2, <2>3, AtStep
<1>6. CASE Answer(r, "unavailable")
  BY <1>1, <1>2, <1>3, <1>4, <1>6, AtStep DEF Answer, Refusals, Phases
<1>7. CASE Failing(r, "invalid")
  BY <1>1, <1>2, <1>3, <1>4, <1>7, AtStep DEF Failing, Refusals, Failures
<1>8. CASE Goto(r, "locating")
  BY <1>1, <1>2, <1>3, <1>4, <1>8, AtStep DEF Goto
<1> QED
  BY <1>2, <1>5, <1>6, <1>7, <1>8

\* Both locations are snapshot, or one is archived or not to be had.
LEMMA LocateStep ==
  ASSUME AdmissionHold, NEW r \in Requests, Locate(r) \/ LocateFails(r) PROVE AdmissionHold'
<1>1. /\ request[r].pc = "locating" /\ UNCHANGED <<keys, orders, image, object, late, selectable, cleaner>>
      /\ \/ Failing(r, "archived") \/ Failing(r, "unavailable")
         \/ request[r].body.images = {} /\ Goto(r, "admitting")
         \/ Goto(r, "preparing")
  BY DEF Locate, LocateFails, tables
<1>2. faults' \in 0..MaxFaults
  BY Types, AdmissionAssumption DEF RestTyped, Locate, LocateFails, Fault
<1>3. /\ Active(request[r]) /\ request[r].found \in 0..Len(orders)
      /\ request[r].cause \in {"none"} \cup Phases \cup Refusals
  BY <1>1, UnderWay
<1>4. CASE Failing(r, "archived")
  BY <1>1, <1>2, <1>3, <1>4, AtStep DEF Failing, Refusals, Failures
<1>5. CASE Failing(r, "unavailable")
  BY <1>1, <1>2, <1>3, <1>5, AtStep DEF Failing, Refusals, Failures
<1>6. CASE request[r].body.images = {} /\ Goto(r, "admitting")
  BY <1>1, <1>2, <1>3, <1>6, AtStep DEF Goto
<1>7. CASE Goto(r, "preparing")
  BY <1>1, <1>2, <1>3, <1>7, AtStep DEF Goto
<1> QED
  BY <1>1, <1>4, <1>5, <1>6, <1>7

\* Prepare has seen row and object of every image it goes on with.
LEMMA PrepareStep ==
  ASSUME AdmissionHold, NEW r \in Requests, Prepare(r) PROVE AdmissionHold'
<1>1. /\ request[r].pc = "preparing"
      /\ UNCHANGED <<keys, orders, image, object, late, selectable, cleaner, faults>>
      /\ \/ Failing(r, "images")
         \/ (\A i \in request[r].body.images : PreparedImage(i)) /\ Goto(r, "admitting")
  BY DEF Prepare, Prepared, ItemImage, Inspect, PreparedImage
<1>2. faults' \in 0..MaxFaults
  BY <1>1, Types DEF RestTyped
<1>3. /\ Active(request[r]) /\ request[r].found \in 0..Len(orders)
      /\ request[r].cause \in {"none"} \cup Phases \cup Refusals
  BY <1>1, UnderWay
<1>4. CASE Failing(r, "images")
  BY <1>1, <1>2, <1>3, <1>4, AtStep DEF Failing, Refusals, Failures
<1>5. CASE (\A i \in request[r].body.images : PreparedImage(i)) /\ Goto(r, "admitting")
  BY <1>1, <1>2, <1>3, <1>5, AtStep DEF Goto
<1> QED
  BY <1>1, <1>4, <1>5

\* A failure is returned only behind another look for the key.
LEMMA RecheckStep ==
  ASSUME AdmissionHold, NEW r \in Requests, Recheck(r) PROVE AdmissionHold'
<1>1. PICK c, k : c = request[r].caller /\ k = request[r].key
  OBVIOUS
<1>2. /\ request[r].pc = "rechecking" /\ keys' = FoundKeys(c, k)
      /\ UNCHANGED <<orders, image, object, late, selectable, cleaner, faults>>
      /\ \/ Found(c, k) # NoKey /\ Resuming(r, Found(c, k))
         \/ Answer(r, request[r].cause)
  BY <1>1 DEF Recheck, RecheckFinds
<1>3. /\ Active(request[r]) /\ request[r].found \in 0..Len(orders) /\ c \in Callers /\ k \in Keys
      /\ request[r].cause \in {"none"} \cup Phases \cup Refusals /\ request[r].cause \in Failures
  BY <1>1, <1>2, UnderWay DEF RequestKept
<1>4. faults' \in 0..MaxFaults
  BY <1>2, Types DEF RestTyped
<1>5. CASE Found(c, k) # NoKey /\ Resuming(r, Found(c, k))
  <2>1. PICK found : found = Found(c, k).resource
    OBVIOUS
  <2>2. found \in 0..Len(orders) /\ found # 0 /\ orders[found].caller = request[r].caller
    BY <1>1, <1>3, <1>5, <2>1, Finds, Types
  <2>3. At(r, "resuming", found, request[r].cause)
    BY <1>5, <2>1 DEF Resuming
  <2> QED
    BY <1>1, <1>2, <1>3, <1>4, <2>2, <2>3, AtStep
<1>6. CASE Answer(r, request[r].cause)
  <2>1. request[r].cause \notin Phases
    BY <1>3 DEF Failures, Phases
  <2> QED
    BY <1>1, <1>2, <1>3, <1>4, <1>6, <2>1, AtStep DEF Answer
<1> QED
  BY <1>2, <1>5, <1>6

\* The order that was found answers the request if the body is the same.
LEMMA ResumeStep ==
  ASSUME AdmissionHold, NEW r \in Requests, Resume(r) PROVE AdmissionHold'
<1>1. PICK what : what = IF SameRequest(r) THEN orders[request[r].found].phase ELSE "already_exists"
  OBVIOUS
<1>2. /\ request[r].pc = "resuming" /\ Answer(r, what)
      /\ UNCHANGED <<keys, orders, image, object, late, selectable, cleaner, faults>>
  BY <1>1 DEF Resume
<1>3. /\ Active(request[r]) /\ request[r].found \in 0..Len(orders) /\ OwnOrder(request[r])
  BY <1>2, UnderWay DEF RequestKept
<1>4. faults' \in 0..MaxFaults
  BY <1>2, Types DEF RestTyped
<1>5. request[r].found # 0 /\ orders[request[r].found].caller = request[r].caller
      /\ orders[request[r].found].phase \in Phases
  BY <1>3, Types DEF OwnOrder, OrderType
<1>6. what \in Phases \cup Refusals /\ (what \in Phases => orders[request[r].found].body = request[r].body)
  BY <1>1, <1>5 DEF SameRequest, Phases, Refusals
<1>7. At(r, "done", request[r].found, what)
  BY <1>2 DEF Answer
<1> QED
  BY <1>2, <1>3, <1>4, <1>5, <1>6, <1>7, AtStep

\* A request is given up; a transaction it was in is not applied.
LEMMA AbandonStep ==
  ASSUME AdmissionHold, NEW r \in Requests, Abandon(r) PROVE AdmissionHold'
<1>1. request' = [request EXCEPT ![r] = Idle]
      /\ UNCHANGED <<keys, orders, image, object, late, selectable, cleaner>>
  BY DEF Abandon
<1>2. RestTyped'
  BY <1>1, Types, AdmissionAssumption DEF Abandon, Fault, RestTyped
<1>3. Idle \in HandlerType /\ Idle.found = 0 /\ Idle.pc = "idle"
  BY DEF Idle, Handler, HandlerType, NoOrder
<1>4. RequestKept(Idle) /\ Idle.found <= Len(orders)
  BY <1>3, Types DEF RequestKept
<1> QED
  BY <1>1, <1>2, <1>3, <1>4, KeysUntouched, OneRequestMoves

\* The transaction finds the key taken, the deadline passed, the caller beyond
\* the limit or an image used, and writes nothing.
LEMMA AdmitRefusedStep ==
  ASSUME AdmissionHold, NEW r \in Requests, request[r].pc = "admitting",
         UNCHANGED <<keys, orders, image, object, late, selectable, cleaner, faults>>,
         \/ /\ Found(request[r].caller, request[r].key) # NoKey
            /\ Resuming(r, Found(request[r].caller, request[r].key))
         \/ Answer(r, "invalid") \/ Answer(r, "rate_limited") \/ Answer(r, "images")
  PROVE AdmissionHold'
<1>1. PICK c, k : c = request[r].caller /\ k = request[r].key
  OBVIOUS
<1>2. /\ Active(request[r]) /\ request[r].found \in 0..Len(orders) /\ c \in Callers /\ k \in Keys
      /\ request[r].cause \in {"none"} \cup Phases \cup Refusals
  BY <1>1, UnderWay
<1>3. faults' \in 0..MaxFaults
  BY Types DEF RestTyped
<1>4. CASE Found(c, k) # NoKey /\ Resuming(r, Found(c, k))
  <2>1. PICK found : found = Found(c, k).resource
    OBVIOUS
  <2>2. found \in 0..Len(orders) /\ found # 0 /\ orders[found].caller = request[r].caller
    BY <1>1, <1>2, <1>4, <2>1, Finds, Types
  <2>3. At(r, "resuming", found, request[r].cause)
    BY <1>4, <2>1 DEF Resuming
  <2> QED
    BY <1>2, <1>3, <2>2, <2>3, AtStep
<1>5. CASE Answer(r, "invalid") \/ Answer(r, "rate_limited") \/ Answer(r, "images")
  <2>1. PICK what \in {"invalid", "rate_limited", "images"} : At(r, "done", request[r].found, what)
    BY <1>5 DEF Answer
  <2>2. what \in Refusals /\ what \notin Phases
    BY DEF Refusals, Phases
  <2> QED
    BY <1>2, <1>3, <2>1, <2>2, AtStep
<1> QED
  BY <1>1, <1>4, <1>5

\* The transaction writes the order, its key and its images together.
Admits(r, o) ==
  LET c == request[r].caller  k == request[r].key  b == request[r].body IN
  /\ request[r].pc = "admitting" /\ o = Len(orders) + 1 /\ o <= MaxOrders
  /\ Found(c, k) = NoKey /\ \A i \in b.images : Attachable(c, i)
  /\ InsertCreation(c, k, b) /\ InsertIdempotencyKey(c, k, o, b)
  /\ AttachImages(r, o) /\ Resuming(r, Key(o, b))
  /\ UNCHANGED <<object, late, selectable, cleaner, faults>>

\* The new order is the last, and the others are as they were.
LEMMA OrderInserted ==
  ASSUME AdmissionHold, NEW r \in Requests, NEW o, Admits(r, o)
  PROVE /\ Active(request[r]) /\ o = Len(orders) + 1 /\ o \in Nat
        /\ orders' \in Seq(OrderType) /\ Len(orders') = o /\ o <= MaxOrders
        /\ \A p \in 1..Len(orders) : orders'[p] = orders[p] /\ (Reusable(p)' <=> Reusable(p))
        /\ orders'[o].caller = request[r].caller /\ orders'[o].key = request[r].key
        /\ orders'[o].body = request[r].body
<1>1. Active(request[r]) /\ o = Len(orders) + 1 /\ o <= MaxOrders
  BY UnderWay DEF Admits
<1>2. PICK new : new = Admitted(request[r].caller, request[r].key, request[r].body)
  OBVIOUS
<1>3. orders' = Append(orders, new)
  BY <1>2 DEF Admits, InsertCreation
<1>4. /\ new \in OrderType /\ new.caller = request[r].caller /\ new.key = request[r].key
      /\ new.body = request[r].body
  BY <1>1, <1>2 DEF Admitted, OrderType, Active, Phases, Ages
<1>5. orders \in Seq(OrderType) /\ Len(orders) \in Nat
  BY Types
<1>6. /\ orders' \in Seq(OrderType) /\ Len(orders') = o /\ orders'[o] = new /\ o \in Nat
      /\ \A p \in 1..Len(orders) : orders'[p] = orders[p]
  BY <1>1, <1>3, <1>4, <1>5
<1>7. \A p \in 1..Len(orders) : Reusable(p)' <=> Reusable(p)
  BY <1>6 DEF Reusable, Resolved, KeyExpired
<1> QED
  BY <1>1, <1>4, <1>6, <1>7

\* Its key names it; the orders the key made before may be followed.
LEMMA KeyInserted ==
  ASSUME AdmissionHold, NEW r \in Requests, NEW o, Admits(r, o)
  PROVE KeysKept' /\ Superseded' /\ keys' \in [Callers -> [Keys -> KeyType]]
<1>1. PICK c, k, b : c = request[r].caller /\ k = request[r].key /\ b = request[r].body
  OBVIOUS
<1>2. /\ o = Len(orders) + 1 /\ o \in Nat /\ Len(orders') = o /\ Len(orders) \in Nat
      /\ \A p \in 1..Len(orders) : orders'[p] = orders[p] /\ (Reusable(p)' <=> Reusable(p))
      /\ orders'[o].caller = c /\ orders'[o].key = k /\ orders'[o].body = b
      /\ c \in Callers /\ k \in Keys /\ b \in Bodies
  BY <1>1, OrderInserted, Types DEF Active
<1>3. PICK key : key = Key(o, b)
  OBVIOUS
<1>4. key \in KeyType /\ key.resource = o /\ key.hash = b
  BY <1>2, <1>3 DEF Key, KeyType
<1>5. keys' = [keys EXCEPT ![c][k] = key] /\ Found(c, k) = NoKey
  BY <1>1, <1>3 DEF Admits, InsertIdempotencyKey
<1>6. keys \in [Callers -> [Keys -> KeyType]] /\ \A p \in 1..Len(orders) : orders[p] \in OrderType
  BY Types
<1>7. /\ keys' \in [Callers -> [Keys -> KeyType]] /\ keys'[c][k] = key
      /\ \A d \in Callers, l \in Keys : d # c \/ l # k => keys'[d][l] = keys[d][l]
  BY <1>2, <1>4, <1>5, <1>6
<1>8. ASSUME NEW d \in Callers, NEW l \in Keys PROVE KeyKept(d, l)'
  <2>1. CASE d = c /\ l = k
    BY <1>2, <1>4, <1>7, <2>1 DEF KeyKept
  <2>2. CASE ~(d = c /\ l = k)
    BY <1>2, <1>7, <2>2 DEF KeyKept, AdmissionHold, KeysKept
  <2> QED
    BY <2>1, <2>2
<1>9. ASSUME NEW p \in 1..Len(orders')
      PROVE Followed(p, keys[orders[p].caller][orders[p].key].resource)'
  <2>1. CASE p = o
    BY <1>2, <1>4, <1>7, <2>1 DEF Followed
  <2>2. CASE p # o
    <3>1. p \in 1..Len(orders) /\ p < o
      BY <1>2, <2>2
    <3>2. CASE orders[p].caller = c /\ orders[p].key = k
      <4>1. Reusable(p)
        BY <1>2, <1>5, <3>1, <3>2, Finds
      <4> QED
        BY <1>2, <1>4, <1>7, <3>1, <3>2, <4>1 DEF Followed
    <3>3. CASE ~(orders[p].caller = c /\ orders[p].key = k)
      <4>1. orders[p].caller \in Callers /\ orders[p].key \in Keys
        BY <1>6, <3>1 DEF OrderType
      <4> QED
        BY <1>2, <1>7, <3>1, <3>3, <4>1 DEF Followed, AdmissionHold, Superseded
    <3> QED
      BY <3>2, <3>3
  <2> QED
    BY <2>1, <2>2
<1> QED
  BY <1>7, <1>8, <1>9 DEF KeysKept, Superseded

\* Its images are attached as they were prepared; nobody else's are touched.
LEMMA ImagesAttached ==
  ASSUME AdmissionHold, NEW r \in Requests, NEW o, Admits(r, o)
  PROVE /\ ImagesTyped' /\ ImageRowsKept' /\ OrderImagesKept'
        /\ \A i \in Images : PreparedImage(i) => PreparedImage(i)'
<1>1. PICK c, b : c = request[r].caller /\ b = request[r].body
  OBVIOUS
<1>2. /\ o = Len(orders) + 1 /\ o \in Nat /\ Len(orders') = o
      /\ \A p \in 1..Len(orders) : orders'[p] = orders[p]
      /\ orders'[o].caller = c /\ orders'[o].body = b /\ b \in Bodies
  BY <1>1, OrderInserted DEF Active
<1>3. /\ image \in [Images -> UploadType] /\ object \in [Images -> {"absent", "good", "other"}]
      /\ cleaner \subseteq Images /\ b.images \subseteq Images /\ Len(orders) \in Nat
  BY <1>2, Types
<1>4. UNCHANGED <<object, cleaner>>
      /\ \A i \in b.images : image[i].owner = c /\ image[i].state = "uploading"
  BY <1>1 DEF Admits, Attachable
<1>5. \A i \in b.images : object[i] = "good"
  <2>1. RequestKept(request[r]) /\ request[r].pc = "admitting"
    BY UnderWay DEF Admits
  <2> QED
    BY <1>1, <1>4, <2>1 DEF RequestKept, PreparedImage
<1>6. image' = [i \in Images |->
        IF i \in b.images THEN Upload("attached", image[i].owner, image[i].granted, image[i].age, o)
        ELSE image[i]]
  BY <1>1 DEF Admits, AttachImages
<1>7. ASSUME NEW i \in b.images
      PROVE /\ image'[i] \in UploadType /\ image'[i].state = "attached" /\ image'[i].order = o
            /\ image'[i].owner = c
  <2>1. image[i] \in UploadType
    BY <1>3
  <2>2. image'[i] = Upload("attached", image[i].owner, image[i].granted, image[i].age, o)
    BY <1>3, <1>6
  <2> QED
    BY <1>2, <1>4, <2>1, <2>2 DEF Upload, UploadType
<1>8. \A i \in Images \ b.images : image'[i] = image[i]
  BY <1>6
<1>9. ImagesTyped'
  BY <1>3, <1>4, <1>6, <1>7, <1>8 DEF ImagesTyped
<1>10. ASSUME NEW i \in Images PROVE ImageKept(i)' /\ (PreparedImage(i) => PreparedImage(i)')
  <2>1. ImageKept(i)
    BY DEF AdmissionHold, ImageRowsKept
  <2>2. CASE i \in b.images
    BY <1>4, <1>7, <2>1, <2>2 DEF ImageKept, PreparedImage
  <2>3. CASE i \notin b.images
    BY <1>4, <1>8, <2>1, <2>3 DEF ImageKept, PreparedImage
  <2> QED
    BY <2>2, <2>3
<1>11. OrderImagesKept'
  <2> SUFFICES ASSUME NEW p \in 1..Len(orders'), NEW i \in orders'[p].body.images
               PROVE /\ image'[i].state = "attached" /\ image'[i].order = p
                     /\ image'[i].owner = orders'[p].caller /\ object'[i] = "good"
    BY DEF OrderImagesKept
  <2>1. CASE p = o
    BY <1>2, <1>4, <1>5, <1>7, <2>1
  <2>2. CASE p # o
    <3>1. p \in 1..Len(orders) /\ orders'[p] = orders[p] /\ orders[p].body \in Bodies
      BY <1>2, <1>3, <2>2, Types DEF OrderType
    <3>2. /\ image[i].state = "attached" /\ image[i].order = p
          /\ image[i].owner = orders[p].caller /\ object[i] = "good"
      BY <3>1 DEF AdmissionHold, OrderImagesKept
    <3>3. i \in Images /\ i \notin b.images
      BY <1>4, <3>1, <3>2, Types
    <3> QED
      BY <1>4, <1>8, <3>1, <3>2, <3>3
  <2> QED
    BY <2>1, <2>2
<1> QED
  BY <1>9, <1>10, <1>11 DEF ImageRowsKept

\* An order is admitted.
LEMMA AdmitsStep ==
  ASSUME AdmissionHold, NEW r \in Requests, NEW o, Admits(r, o) PROVE AdmissionHold'
<1>1. /\ Active(request[r]) /\ o = Len(orders) + 1 /\ o \in Nat /\ Len(orders) \in Nat
      /\ orders' \in Seq(OrderType) /\ Len(orders') = o /\ o <= MaxOrders
      /\ \A p \in 1..Len(orders) : orders'[p] = orders[p] /\ (Reusable(p)' <=> Reusable(p))
      /\ orders'[o].caller = request[r].caller /\ orders'[o].body = request[r].body
  BY OrderInserted, Types
<1>2. KeysKept' /\ Superseded' /\ keys' \in [Callers -> [Keys -> KeyType]]
  BY KeyInserted
<1>3. /\ ImagesTyped' /\ ImageRowsKept' /\ OrderImagesKept'
      /\ \A i \in Images : PreparedImage(i) => PreparedImage(i)'
  BY ImagesAttached
<1>4. Grows
  BY <1>1, <1>3 DEF Grows
<1>5. OrdersValid'
  <2> SUFFICES ASSUME NEW p \in 1..o PROVE Canonical(orders'[p].body)
    BY <1>1 DEF OrdersValid, Canonical
  <2>1. CASE p = o
    BY <1>1, <2>1 DEF Active
  <2>2. CASE p # o
    BY <1>1, <2>2 DEF AdmissionHold, OrdersValid
  <2> QED
    BY <2>1, <2>2
<1>6. PICK h : h = Handler("resuming", request[r].caller, request[r].key, request[r].body, o, request[r].cause)
  OBVIOUS
<1>7. request' = [request EXCEPT ![r] = h]
  <2>1. Key(o, request[r].body).resource = o
    BY DEF Key
  <2> QED
    BY <1>6, <2>1 DEF Admits, Resuming, At
<1>8. /\ h \in HandlerType /\ h.pc = "resuming" /\ h.caller = request[r].caller /\ h.key = request[r].key
      /\ h.body = request[r].body /\ h.found = o
  BY <1>1, <1>6, Types DEF Handler, HandlerType, Active
<1>9. RequestKept(h)'
  BY <1>1, <1>8 DEF RequestKept, Active, OwnOrder, Canonical
<1>10. /\ RequestsKept' /\ request' \in [Requests -> HandlerType]
       /\ \A q \in Requests : request'[q].found <= Len(orders')
  <2>1. h.found <= Len(orders')
    BY <1>1, <1>8
  <2> QED
    BY <1>4, <1>7, <1>8, <1>9, <2>1, RequestsStay
<1>11. TablesTyped'
  BY <1>1, <1>2, <1>10 DEF TablesTyped
<1>12. RestTyped'
  BY Types DEF Admits, RestTyped
<1> QED
  BY <1>2, <1>3, <1>5, <1>10, <1>11, <1>12 DEF AdmissionHold

\* Admit, whatever it finds.
LEMMA AdmitStep ==
  ASSUME AdmissionHold, NEW r \in Requests, Admit(r) PROVE AdmissionHold'
<1>1. CASE Admits(r, Len(orders) + 1)
  BY <1>1, AdmitsStep
<1>2. CASE /\ request[r].pc = "admitting"
           /\ UNCHANGED <<keys, orders, image, object, late, selectable, cleaner, faults>>
           /\ \/ /\ Found(request[r].caller, request[r].key) # NoKey
                 /\ Resuming(r, Found(request[r].caller, request[r].key))
              \/ Answer(r, "invalid") \/ Answer(r, "rate_limited") \/ Answer(r, "images")
  BY <1>2, AdmitRefusedStep
<1> QED
  BY <1>1, <1>2 DEF Admit, Admits, Admissible

-----------------------------------------------------------------------------
(* Images, and what happens meanwhile *)

\* What a step may do to an image: one that was attached stays, and one that
\* was prepared stays so.
Attached(i) == image[i].state = "attached" /\ object[i] = "good"
ImageStays(i) ==
  /\ ImageKept(i)' /\ (PreparedImage(i) => PreparedImage(i)')
  /\ Attached(i) => /\ Attached(i)' /\ image'[i].order = image[i].order
                    /\ image'[i].owner = image[i].owner

\* A step of an upload or of the cleaner.
LEMMA ImagesMove ==
  ASSUME AdmissionHold, UNCHANGED <<keys, orders, request, late, selectable>>, faults' \in 0..MaxFaults,
         ImagesTyped', \A i \in Images : ImageStays(i)
  PROVE AdmissionHold'
<1>1. \A o : Reusable(o)' <=> Reusable(o)
  BY DEF Reusable, Resolved, KeyExpired
<1>2. Grows
  BY <1>1, Types DEF Grows, ImageStays
<1>3. /\ RequestsKept' /\ request' \in [Requests -> HandlerType]
      /\ \A q \in Requests : request'[q].found <= Len(orders')
  BY <1>2, RequestsUntouched
<1>4. KeysKept' /\ Superseded' /\ keys' \in [Callers -> [Keys -> KeyType]]
  BY KeysUntouched
<1>5. TablesTyped' /\ RestTyped' /\ OrdersValid'
  BY <1>3, <1>4 DEF AdmissionHold, TablesTyped, RestTyped, OrdersValid, Canonical
<1>6. ImageRowsKept'
  BY DEF ImageRowsKept, ImageStays
<1>7. OrderImagesKept'
  <2> SUFFICES ASSUME NEW o \in 1..Len(orders), NEW i \in orders[o].body.images
               PROVE /\ image'[i].state = "attached" /\ image'[i].order = o
                     /\ image'[i].owner = orders[o].caller /\ object'[i] = "good"
    BY DEF OrderImagesKept
  <2>1. i \in Images
    BY Types DEF OrderType
  <2> QED
    BY <2>1 DEF AdmissionHold, OrderImagesKept, ImageStays, Attached
<1> QED
  BY <1>3, <1>4, <1>5, <1>6, <1>7 DEF AdmissionHold

\* An image whose row and object stay, and that is not claimed anew.
LEMMA ImageUntouched ==
  ASSUME AdmissionHold, NEW j \in Images, image'[j] = image[j], object'[j] = object[j],
         j \in cleaner' => image[j].state = "deleting"
  PROVE ImageStays(j)
  BY DEF AdmissionHold, ImageRowsKept, ImageKept, PreparedImage, Attached, ImageStays

\* One row changes to u, and no object.
LEMMA RowMoves ==
  ASSUME AdmissionHold, UNCHANGED <<keys, orders, request, object, late, selectable, cleaner, faults>>,
         NEW i \in Images, NEW u \in UploadType, image' = [image EXCEPT ![i] = u], ImageStays(i)
  PROVE AdmissionHold'
<1>1. /\ image \in [Images -> UploadType] /\ object \in [Images -> {"absent", "good", "other"}]
      /\ cleaner \subseteq Images /\ faults \in 0..MaxFaults
  BY Types DEF RestTyped
<1>2. ImagesTyped' /\ \A j \in Images \ {i} : image'[j] = image[j]
  BY <1>1 DEF ImagesTyped
<1>3. ASSUME NEW j \in Images \ {i} PROVE ImageStays(j)
  BY <1>2, ImageUntouched DEF AdmissionHold, ImageRowsKept, ImageKept
<1> QED
  BY <1>1, <1>2, <1>3, ImagesMove

\* CreateUpload saves its row.
LEMMA SaveItemImageStep ==
  ASSUME AdmissionHold, NEW c \in Callers, NEW i \in Images, SaveItemImage(c, i) PROVE AdmissionHold'
<1>1. /\ image[i] = NoUpload /\ image' = [image EXCEPT ![i] = NewUpload(c)]
      /\ UNCHANGED <<keys, orders, request, object, late, selectable, cleaner, faults>>
  BY DEF SaveItemImage
<1>2. NewUpload(c) \in UploadType /\ NewUpload(c).state = "uploading"
  BY DEF NewUpload, Upload, UploadType, NoOrder, Ages
<1>3. image[i].state = "none"
  BY <1>1 DEF NoUpload, Upload
<1>4. image'[i].state = "uploading" /\ i \notin cleaner
  BY <1>1, <1>2, <1>3, Types DEF AdmissionHold, ImageRowsKept, ImageKept
<1>5. ImageStays(i)
  BY <1>1, <1>3, <1>4 DEF ImageStays, ImageKept, PreparedImage, Attached
<1> QED
  BY <1>1, <1>2, <1>5, RowMoves

\* The storage grants the upload.
LEMMA GrantStep ==
  ASSUME AdmissionHold, NEW i \in Images, Grant(i) PROVE AdmissionHold'
<1>1. /\ image[i].state = "uploading" /\ image' = [image EXCEPT ![i] = [image[i] EXCEPT !.granted = TRUE]]
      /\ UNCHANGED <<keys, orders, request, object, late, selectable, cleaner, faults>>
  BY DEF Grant
<1>2. PICK u : u = [image[i] EXCEPT !.granted = TRUE]
  OBVIOUS
<1>3. image[i] \in UploadType /\ image \in [Images -> UploadType]
  BY Types
<1>4. u \in UploadType /\ u.state = "uploading"
  BY <1>1, <1>2, <1>3 DEF UploadType
<1>5. image' = [image EXCEPT ![i] = u] /\ image'[i] = u
  BY <1>1, <1>2, <1>3
<1>6. ImageStays(i)
  BY <1>1, <1>4, <1>5 DEF AdmissionHold, ImageRowsKept, ImageStays, ImageKept, PreparedImage, Attached
<1> QED
  BY <1>1, <1>4, <1>5, <1>6, RowMoves

\* Time passes for an upload.
LEMMA ImageAgesStep ==
  ASSUME AdmissionHold, NEW i \in Images, ImageAges(i) PROVE AdmissionHold'
<1>1. /\ image[i].state # "none" /\ image[i].age # "day"
      /\ image' = [image EXCEPT ![i] = [image[i] EXCEPT !.age = Later(image[i].age)]]
      /\ UNCHANGED <<keys, orders, request, object, late, selectable, cleaner, faults>>
  BY DEF ImageAges
<1>2. PICK u : u = [image[i] EXCEPT !.age = Later(image[i].age)]
  OBVIOUS
<1>3. image[i] \in UploadType /\ image \in [Images -> UploadType] /\ Later(image[i].age) \in Ages
  BY Types DEF Later, Ages
<1>4. u \in UploadType /\ u.state = image[i].state /\ u.order = image[i].order /\ u.owner = image[i].owner
  BY <1>2, <1>3 DEF UploadType
<1>5. image' = [image EXCEPT ![i] = u] /\ image'[i] = u
  BY <1>1, <1>2, <1>3
<1>6. ImageStays(i)
  BY <1>1, <1>4, <1>5 DEF AdmissionHold, ImageRowsKept, ImageStays, ImageKept, PreparedImage, Attached
<1> QED
  BY <1>1, <1>4, <1>5, <1>6, RowMoves

\* A PUT stores a new object: its row is neither absent nor fenced.
LEMMA PutStep ==
  ASSUME AdmissionHold, NEW i \in Images, NEW what \in {"good", "other"}, Put(i, what) PROVE AdmissionHold'
<1>1. /\ image[i].granted /\ image[i].age = "new" /\ object[i] = "absent"
      /\ object' = [object EXCEPT ![i] = what]
      /\ UNCHANGED <<keys, orders, request, image, late, selectable, cleaner, faults>>
  BY DEF Put, PutAllowed
<1>2. /\ image \in [Images -> UploadType] /\ object \in [Images -> {"absent", "good", "other"}]
      /\ cleaner \subseteq Images /\ faults \in 0..MaxFaults
  BY Types DEF RestTyped
<1>3. ImagesTyped' /\ object'[i] = what /\ \A j \in Images \ {i} : object'[j] = object[j]
  BY <1>1, <1>2 DEF ImagesTyped
<1>4. image[i].state \notin {"none", "deleting", "gone"}
  <2>1. ImageKept(i)
    BY DEF AdmissionHold, ImageRowsKept
  <2>2. image[i] # NoUpload
    BY <1>1 DEF NoUpload, Upload
  <2> QED
    BY <1>1, <2>1, <2>2 DEF ImageKept
<1>5. ImageStays(i)
  BY <1>1, <1>4 DEF AdmissionHold, ImageRowsKept, ImageStays, ImageKept, PreparedImage, Attached
<1>6. ASSUME NEW j \in Images \ {i} PROVE ImageStays(j)
  BY <1>1, <1>3, ImageUntouched DEF AdmissionHold, ImageRowsKept, ImageKept
<1> QED
  BY <1>1, <1>2, <1>3, <1>5, <1>6, ImagesMove

\* The cleaner fences rows that are a day old and not attached.
LEMMA ClaimStep ==
  ASSUME AdmissionHold, Claim PROVE AdmissionHold'
<1>1. /\ cleaner' = {i \in Images : Claimable(i)}
      /\ image' = [i \in Images |-> IF i \in cleaner' THEN [image[i] EXCEPT !.state = "deleting"] ELSE image[i]]
      /\ UNCHANGED <<keys, orders, request, object, late, selectable, faults>>
  BY DEF Claim
<1>2. /\ image \in [Images -> UploadType] /\ object \in [Images -> {"absent", "good", "other"}]
      /\ faults \in 0..MaxFaults
  BY Types DEF RestTyped
<1>3. ASSUME NEW i \in Images, i \in cleaner'
      PROVE /\ image'[i] \in UploadType /\ image'[i].state = "deleting" /\ image'[i].age = "day"
            /\ image[i].state \in {"uploading", "deleting"}
  <2>1. image'[i] = [image[i] EXCEPT !.state = "deleting"] /\ image[i] \in UploadType
    BY <1>1, <1>2, <1>3
  <2>2. image[i].state \in {"uploading", "deleting"} /\ image[i].age = "day"
    BY <1>1, <1>3 DEF Claimable
  <2> QED
    BY <2>1, <2>2 DEF UploadType
<1>4. ASSUME NEW i \in Images, i \notin cleaner' PROVE image'[i] = image[i] /\ image'[i] \in UploadType
  BY <1>1, <1>2, <1>4
<1>5. ImagesTyped'
  BY <1>1, <1>2, <1>3, <1>4 DEF ImagesTyped
<1>6. ASSUME NEW i \in Images PROVE ImageStays(i)
  <2>1. CASE i \in cleaner'
    <3>1. object'[i] = object[i]
      BY <1>1
    <3>2. /\ image'[i].state = "deleting" /\ image'[i].age = "day"
          /\ image[i].state \in {"uploading", "deleting"}
      BY <1>3, <2>1
    <3> QED
      BY <3>1, <3>2 DEF ImageStays, ImageKept, PreparedImage, Attached
  <2>2. CASE i \notin cleaner'
    BY <1>1, <1>4, <2>2, ImageUntouched
  <2> QED
    BY <2>1, <2>2
<1> QED
  BY <1>1, <1>2, <1>5, <1>6, ImagesMove

\* The cleaner deletes an object it has fenced,
LEMMA DeleteObjectStep ==
  ASSUME AdmissionHold, NEW i \in Images, DeleteObject(i) PROVE AdmissionHold'
<1>1. /\ i \in cleaner /\ object' = [object EXCEPT ![i] = "absent"]
      /\ UNCHANGED <<keys, orders, request, image, late, selectable, cleaner, faults>>
  BY DEF DeleteObject
<1>2. /\ image \in [Images -> UploadType] /\ object \in [Images -> {"absent", "good", "other"}]
      /\ cleaner \subseteq Images /\ faults \in 0..MaxFaults
  BY Types DEF RestTyped
<1>3. ImagesTyped' /\ object'[i] = "absent" /\ \A j \in Images \ {i} : object'[j] = object[j]
  BY <1>1, <1>2 DEF ImagesTyped
<1>4. ImageStays(i)
  BY <1>1, <1>3 DEF AdmissionHold, ImageRowsKept, ImageStays, ImageKept, PreparedImage, Attached
<1>5. ASSUME NEW j \in Images \ {i} PROVE ImageStays(j)
  BY <1>1, <1>3, ImageUntouched DEF AdmissionHold, ImageRowsKept, ImageKept
<1> QED
  BY <1>1, <1>2, <1>3, <1>4, <1>5, ImagesMove

\* and then its row.
LEMMA DeleteRowStep ==
  ASSUME AdmissionHold, NEW i \in Images, DeleteRow(i) PROVE AdmissionHold'
<1>1. /\ i \in cleaner /\ object[i] = "absent" /\ cleaner' = cleaner \ {i}
      /\ UNCHANGED <<keys, orders, request, object, late, selectable, faults>>
  BY DEF DeleteRow, RowDeletable
<1>2. /\ image \in [Images -> UploadType] /\ object \in [Images -> {"absent", "good", "other"}]
      /\ cleaner \subseteq Images /\ faults \in 0..MaxFaults
  BY Types DEF RestTyped
<1>3. image[i].state = "deleting" /\ image[i].age = "day"
  BY <1>1 DEF AdmissionHold, ImageRowsKept, ImageKept
<1>4. PICK u : u = [image[i] EXCEPT !.state = "gone"]
  OBVIOUS
<1>5. image' = [image EXCEPT ![i] = u]
  BY <1>3, <1>4 DEF DeleteRow
<1>6. u \in UploadType /\ u.state = "gone" /\ u.age = "day"
  <2>1. image[i] \in UploadType
    BY <1>2
  <2> QED
    BY <1>3, <1>4, <2>1 DEF UploadType
<1>7. ImagesTyped' /\ image'[i] = u /\ \A j \in Images \ {i} : image'[j] = image[j]
  BY <1>1, <1>2, <1>5, <1>6 DEF ImagesTyped
<1>8. ImageStays(i)
  BY <1>1, <1>3, <1>6, <1>7 DEF ImageStays, ImageKept, PreparedImage, Attached
<1>9. ASSUME NEW j \in Images \ {i} PROVE ImageStays(j)
  BY <1>1, <1>7, ImageUntouched DEF AdmissionHold, ImageRowsKept, ImageKept
<1> QED
  BY <1>1, <1>2, <1>7, <1>8, <1>9, ImagesMove

\* The rest of a batch is left; the rows stay fenced.
LEMMA CleanupFailsStep ==
  ASSUME AdmissionHold, CleanupFails PROVE AdmissionHold'
<1>1. cleaner' = {} /\ UNCHANGED <<keys, orders, request, image, object, late, selectable>>
  BY DEF CleanupFails
<1>2. faults' \in 0..MaxFaults
  BY Types, AdmissionAssumption DEF CleanupFails, Fault, RestTyped
<1>3. ImagesTyped'
  BY <1>1, Types DEF ImagesTyped
<1>4. \A j \in Images : ImageStays(j)
  BY <1>1, ImageUntouched
<1> QED
  BY <1>1, <1>2, <1>3, <1>4, ImagesMove

\* An order is resolved or grows older: its key may be reused, or not yet.
LEMMA OrderMoves ==
  ASSUME AdmissionHold, NEW o \in 1..Len(orders), NEW new \in OrderType, orders' = [orders EXCEPT ![o] = new],
         new.caller = orders[o].caller, new.key = orders[o].key, new.body = orders[o].body,
         Reusable(o) => Reusable(o)',
         UNCHANGED <<keys, request, image, object, late, selectable, cleaner, faults>>
  PROVE AdmissionHold'
<1>1. orders \in Seq(OrderType) /\ Len(orders) \in Nat
      /\ \A p \in 1..Len(orders) : orders[p] \in OrderType /\ p \in Nat
  BY Types
<1>2. /\ orders' \in Seq(OrderType) /\ Len(orders') = Len(orders) /\ orders'[o] = new
      /\ \A p \in 1..Len(orders) : p # o => orders'[p] = orders[p]
  BY <1>1
<1>3. \A p \in 1..Len(orders) :
        /\ orders'[p].caller = orders[p].caller /\ orders'[p].key = orders[p].key
        /\ orders'[p].body = orders[p].body
  BY <1>2
<1>4. \A p \in 1..Len(orders) : Reusable(p) => Reusable(p)'
  BY <1>2 DEF Reusable, Resolved, KeyExpired
<1>5. \A i : PreparedImage(i)' <=> PreparedImage(i)
  BY DEF PreparedImage
<1>6. Grows
  BY <1>1, <1>2, <1>3, <1>4, <1>5 DEF Grows
<1>7. /\ RequestsKept' /\ request' \in [Requests -> HandlerType]
      /\ \A q \in Requests : request'[q].found <= Len(orders')
  BY <1>6, RequestsUntouched
<1>8. TablesTyped' /\ RestTyped' /\ ImagesTyped'
  BY <1>2, <1>7 DEF AdmissionHold, TablesTyped, RestTyped, ImagesTyped
<1>9. KeysKept'
  BY <1>2, <1>3 DEF AdmissionHold, KeysKept, KeyKept
<1>10. Superseded'
  BY <1>2, <1>3, <1>4 DEF AdmissionHold, Superseded, Followed
<1>11. OrdersValid' /\ ImageRowsKept' /\ OrderImagesKept'
  BY <1>2, <1>3 DEF AdmissionHold, OrdersValid, Canonical, ImageRowsKept, ImageKept, OrderImagesKept
<1> QED
  BY <1>7, <1>8, <1>9, <1>10, <1>11 DEF AdmissionHold

\* The creation saga resolves the order.
LEMMA ResolveStep ==
  ASSUME AdmissionHold, NEW o \in DOMAIN orders, NEW phase \in {"opened", "rejected"}, Resolve(o, phase)
  PROVE AdmissionHold'
<1>1. orders \in Seq(OrderType) /\ o \in 1..Len(orders) /\ orders[o] \in OrderType
  BY Types
<1>2. PICK new : new = [orders[o] EXCEPT !.phase = phase]
  OBVIOUS
<1>3. /\ orders' = [orders EXCEPT ![o] = new] /\ ~Resolved(o)
      /\ UNCHANGED <<keys, request, image, object, late, selectable, cleaner, faults>>
  BY <1>2 DEF Resolve
<1>4. new \in OrderType /\ new.caller = orders[o].caller /\ new.key = orders[o].key /\ new.body = orders[o].body
  BY <1>1, <1>2 DEF OrderType, Phases
<1> QED
  BY <1>1, <1>3, <1>4, OrderMoves DEF Reusable

\* Time passes for an order.
LEMMA OrderAgesStep ==
  ASSUME AdmissionHold, NEW o \in DOMAIN orders, OrderAges(o) PROVE AdmissionHold'
<1>1. orders \in Seq(OrderType) /\ o \in 1..Len(orders) /\ orders[o] \in OrderType
  BY Types
<1>2. PICK new : new = [orders[o] EXCEPT !.age = Later(orders[o].age)]
  OBVIOUS
<1>3. /\ orders' = [orders EXCEPT ![o] = new] /\ orders[o].age # "day"
      /\ UNCHANGED <<keys, request, image, object, late, selectable, cleaner, faults>>
  BY <1>2 DEF OrderAges
<1>4. new \in OrderType /\ new.caller = orders[o].caller /\ new.key = orders[o].key /\ new.body = orders[o].body
  BY <1>1, <1>2 DEF OrderType, Later, Ages
<1> QED
  BY <1>1, <1>3, <1>4, OrderMoves DEF Reusable, KeyExpired

\* Deadlines pass and locations are archived.
LEMMA OutsideStep ==
  ASSUME AdmissionHold, UNCHANGED <<keys, orders, request, image, object, cleaner>>, RestTyped'
  PROVE AdmissionHold'
<1>1. ImagesTyped' /\ ImageRowsKept' /\ OrderImagesKept' /\ Grows /\ OrdersValid'
  BY ImagesUntouched
<1>2. /\ RequestsKept' /\ request' \in [Requests -> HandlerType]
      /\ \A q \in Requests : request'[q].found <= Len(orders')
  BY <1>1, RequestsUntouched
<1>3. KeysKept' /\ Superseded' /\ keys' \in [Callers -> [Keys -> KeyType]]
  BY KeysUntouched
<1>4. TablesTyped'
  BY <1>2, <1>3 DEF AdmissionHold, TablesTyped
<1> QED
  BY <1>1, <1>2, <1>3, <1>4 DEF AdmissionHold

-----------------------------------------------------------------------------
(* Theorems *)

\* Every step preserves the invariant.
LEMMA AdmissionStep ==
  ASSUME AdmissionHold, [AdmissionNext]_vars PROVE AdmissionHold'
<1>1. ASSUME NEW r \in Requests, NEW c \in Callers, NEW k \in Keys, NEW b \in Bodies, Begin(r, c, k, b)
      PROVE AdmissionHold'
  BY <1>1, BeginStep
<1>2. ASSUME NEW r \in Requests,
             FindFirst(r) \/ Locate(r) \/ LocateFails(r) \/ Prepare(r)
               \/ Admit(r) \/ Recheck(r) \/ Resume(r) \/ Abandon(r)
      PROVE AdmissionHold'
  BY <1>2, FindFirstStep, LocateStep, PrepareStep, AdmitStep, RecheckStep, ResumeStep, AbandonStep
<1>3. ASSUME NEW i \in Images, NEW c \in Callers, SaveItemImage(c, i) PROVE AdmissionHold'
  BY <1>3, SaveItemImageStep
<1>4. ASSUME NEW i \in Images, NEW what \in {"good", "other"}, Put(i, what) PROVE AdmissionHold'
  BY <1>4, PutStep
<1>5. ASSUME NEW i \in Images, Grant(i) \/ DeleteObject(i) \/ DeleteRow(i) \/ ImageAges(i)
      PROVE AdmissionHold'
  BY <1>5, GrantStep, DeleteObjectStep, DeleteRowStep, ImageAgesStep
<1>6. ASSUME Claim \/ CleanupFails PROVE AdmissionHold'
  BY <1>6, ClaimStep, CleanupFailsStep
<1>7. ASSUME NEW o \in DOMAIN orders, NEW phase \in {"opened", "rejected"}, Resolve(o, phase)
      PROVE AdmissionHold'
  BY <1>7, ResolveStep
<1>8. ASSUME NEW o \in DOMAIN orders, OrderAges(o) PROVE AdmissionHold'
  BY <1>8, OrderAgesStep
<1>9. ASSUME NEW b \in Bodies, DeadlinePasses(b) PROVE AdmissionHold'
  <2>1. RestTyped'
    BY <1>9, Types DEF DeadlinePasses, RestTyped
  <2> QED
    BY <1>9, <2>1, OutsideStep DEF DeadlinePasses
<1>10. ASSUME LocationArchived \/ UNCHANGED vars PROVE AdmissionHold'
  <2>1. RestTyped'
    BY <1>10, Types DEF LocationArchived, RestTyped, vars
  <2> QED
    BY <1>10, <2>1, OutsideStep DEF LocationArchived, vars
<1> QED
  BY <1>1, <1>2, <1>3, <1>4, <1>5, <1>6, <1>7, <1>8, <1>9, <1>10 DEF AdmissionNext

\* In every behaviour of the admission the keys, the orders, what requests
\* know and the images hold together.
THEOREM AdmissionSafe == AdmissionSpec => []AdmissionHold
<1>1. AdmissionHold /\ [AdmissionNext]_vars => AdmissionHold'
  BY AdmissionStep
<1> QED
  BY <1>1, AdmissionBegins, PTL DEF AdmissionSpec

\* A key makes one order, however many requests look it up, locate and admit
\* at the same time and however old orders and keys become (creation.go).
THEOREM KeysMakeOneOrder == AdmissionSpec => []OneOrderPerKey
  BY AdmissionSafe, HoldImplies, PTL

\* The images of an order stay its own and in the storage, and no object is
\* left without a row, whatever the cleaner claims meanwhile (itemimages.go).
THEOREM ImagesStay == AdmissionSpec => []ImagesKept
  BY AdmissionSafe, HoldImplies, PTL

-----------------------------------------------------------------------------
(* Refusals *)

\* A key that is free, or is forgotten as it is read, is not the key of b.
LEMMA FreeKey ==
  ASSUME AdmissionHold, NEW c \in Callers, NEW k \in Keys, NEW b \in Bodies,
         Found(c, k) = NoKey, keys'[c][k] \in {keys[c][k], Found(c, k)}
  PROVE keys'[c][k].hash # b \/ Reusable(keys'[c][k].resource)
<1>1. NoKey.hash # b
  BY AdmissionAssumption DEF NoKey, Key
<1> QED
  BY <1>1 DEF Found, Stored

\* A request that is refused by Begin has no canonical body, and no order was
\* ever made of one.
LEMMA InvalidHasNoKey ==
  ASSUME AdmissionHold, NEW c \in Callers, NEW k \in Keys, NEW b \in Bodies, ~Canonical(b)
  PROVE keys[c][k].hash # b
<1>1. NoKey.hash # b
  BY AdmissionAssumption DEF NoKey, Key
<1>2. KeyKept(c, k) /\ OrdersValid
  BY DEF AdmissionHold, KeysKept
<1> QED
  BY <1>1, <1>2 DEF KeyKept, OrdersValid

\* Five steps end a request; none of them refuses it while the stored key is
\* that of its own body.
LEMMA RefusedRightly ==
  ASSUME AdmissionHold, [AdmissionNext]_vars, NEW q \in Requests,
         request[q].pc # "done", request'[q].pc = "done",
         request'[q].cause \in {"invalid", "archived", "images"}
  PROVE \/ keys'[request'[q].caller][request'[q].key].hash # request'[q].body
        \/ Reusable(keys'[request'[q].caller][request'[q].key].resource)
<1> DEFINE Right == \/ keys'[request'[q].caller][request'[q].key].hash # request'[q].body
                    \/ Reusable(keys'[request'[q].caller][request'[q].key].resource)
<1>1. request \in [Requests -> HandlerType] /\ keys \in [Callers -> [Keys -> KeyType]]
  BY Types
<1>2. \A r \in Requests : RequestKept(request[r])
  BY DEF AdmissionHold, RequestsKept
<1>3. ASSUME NEW r \in Requests, NEW h, request' = [request EXCEPT ![r] = h] PROVE q = r /\ request'[q] = h
  BY <1>1, <1>3
<1>4. ASSUME UNCHANGED request PROVE FALSE
  BY <1>4
<1>5. ASSUME NEW r \in Requests, NEW pc, NEW found, NEW cause, At(r, pc, found, cause),
             Active(request[r])
      PROVE /\ q = r /\ pc = "done" /\ request'[q].cause = cause
            /\ cause \in {"invalid", "archived", "images"}
            /\ request'[q].caller = request[r].caller /\ request'[q].caller \in Callers
            /\ request'[q].key = request[r].key /\ request'[q].key \in Keys
            /\ request'[q].body = request[r].body /\ request'[q].body \in Bodies
  <2>1. PICK h : h = Handler(pc, request[r].caller, request[r].key, request[r].body, found, cause)
    OBVIOUS
  <2>2. /\ h.pc = pc /\ h.caller = request[r].caller /\ h.key = request[r].key
        /\ h.body = request[r].body /\ h.cause = cause
    BY <2>1 DEF Handler
  <2>3. q = r /\ request'[q] = h
    BY <1>3, <1>5, <2>1 DEF At
  <2> QED
    BY <1>5, <2>2, <2>3 DEF Active
<1>6. ASSUME NEW r \in Requests, NEW c \in Callers, NEW k \in Keys, NEW b \in Bodies, Begin(r, c, k, b)
      PROVE Right
  <2>1. PICK h : h = (IF c \in Suspended THEN Handler("done", c, k, b, NoOrder, "forbidden")
                      ELSE IF ~Canonical(b) THEN Handler("done", c, k, b, NoOrder, "invalid")
                      ELSE Handler("finding", c, k, b, NoOrder, "none"))
    OBVIOUS
  <2>2. request'[q] = h
    BY <1>3, <1>6, <2>1 DEF Begin
  <2>3. ~Canonical(b) /\ h.caller = c /\ h.key = k /\ h.body = b
    BY <2>1, <2>2 DEF Handler
  <2> QED
    BY <1>6, <2>2, <2>3, InvalidHasNoKey DEF Begin
<1>7. ASSUME NEW r \in Requests, FindFirst(r) PROVE FALSE
  <2>1. Active(request[r])
    BY <1>2, <1>7 DEF RequestKept, FindFirst
  <2> QED
    BY <1>5, <1>7, <2>1 DEF FindFirst, Resuming, Answer, Failing, Goto
<1>8. ASSUME NEW r \in Requests, Locate(r) \/ LocateFails(r) PROVE FALSE
  <2>1. Active(request[r])
    BY <1>2, <1>8 DEF RequestKept, Locate, LocateFails
  <2> QED
    BY <1>5, <1>8, <2>1 DEF Locate, LocateFails, Failing, Goto
<1>9. ASSUME NEW r \in Requests, Prepare(r) PROVE FALSE
  <2>1. Active(request[r])
    BY <1>2, <1>9 DEF RequestKept, Prepare
  <2> QED
    BY <1>5, <1>9, <2>1 DEF Prepare, Failing, Goto
<1>10. ASSUME NEW r \in Requests, Admit(r) PROVE Right
  <2>1. Active(request[r])
    BY <1>2, <1>10 DEF RequestKept, Admit
  <2>2. ~ \E key : Resuming(r, key)
    BY <1>5, <2>1 DEF Resuming
  <2>3. Found(request[r].caller, request[r].key) = NoKey /\ UNCHANGED keys /\ \E what : Answer(r, what)
    BY <1>10, <2>2 DEF Admit
  <2>4. PICK what : Answer(r, what)
    BY <2>3
  <2>5. /\ request'[q].caller = request[r].caller /\ request'[q].caller \in Callers
        /\ request'[q].key = request[r].key /\ request'[q].key \in Keys /\ request'[q].body \in Bodies
    BY <1>5, <2>1, <2>4 DEF Answer
  <2>6. PICK c \in Callers, k \in Keys, b \in Bodies :
          c = request'[q].caller /\ k = request'[q].key /\ b = request'[q].body
    BY <2>5
  <2> QED
    BY <2>3, <2>5, <2>6, FreeKey
<1>11. ASSUME NEW r \in Requests, Recheck(r) PROVE Right
  <2>1. Active(request[r])
    BY <1>2, <1>11 DEF RequestKept, Recheck
  <2>2. ~ \E key : Resuming(r, key)
    BY <1>5, <2>1 DEF Resuming
  <2>3. Found(request[r].caller, request[r].key) = NoKey /\ \E what : Answer(r, what)
    BY <1>11, <2>2 DEF Recheck, RecheckFinds
  <2>4. PICK what : Answer(r, what)
    BY <2>3
  <2>5. /\ request'[q].caller = request[r].caller /\ request'[q].caller \in Callers
        /\ request'[q].key = request[r].key /\ request'[q].key \in Keys /\ request'[q].body \in Bodies
    BY <1>5, <2>1, <2>4 DEF Answer
  <2>6. PICK c \in Callers, k \in Keys, b \in Bodies :
          c = request'[q].caller /\ k = request'[q].key /\ b = request'[q].body
    BY <2>5
  <2>7. keys'[c][k] = Found(c, k)
    BY <1>11, <2>5, <2>6, KeysForgotten DEF Recheck
  <2> QED
    BY <2>3, <2>5, <2>6, <2>7, FreeKey
<1>12. ASSUME NEW r \in Requests, Resume(r) PROVE FALSE
  <2>1. Active(request[r]) /\ OwnOrder(request[r])
    BY <1>2, <1>12 DEF RequestKept, Resume
  <2>2. orders[request[r].found].phase \in Phases
    BY <2>1, Types DEF OwnOrder, OrderType
  <2> QED
    BY <1>5, <1>12, <2>1, <2>2 DEF Resume, Answer, Phases
<1>13. ASSUME NEW r \in Requests, Abandon(r) PROVE FALSE
  <2>1. request'[q] = Idle
    BY <1>3, <1>13 DEF Abandon
  <2> QED
    BY <2>1 DEF Idle, Handler
<1>14. ASSUME NEW i \in Images,
              \/ \E c \in Callers : SaveItemImage(c, i)
              \/ \E what \in {"good", "other"} : Put(i, what)
              \/ Grant(i) \/ DeleteObject(i) \/ DeleteRow(i) \/ ImageAges(i)
       PROVE FALSE
  BY <1>4, <1>14 DEF SaveItemImage, Put, Grant, DeleteObject, DeleteRow, ImageAges
<1>15. ASSUME \/ Claim \/ CleanupFails \/ LocationArchived \/ UNCHANGED vars
              \/ \E b \in Bodies : DeadlinePasses(b)
              \/ \E o \in DOMAIN orders :
                   OrderAges(o) \/ \E phase \in {"opened", "rejected"} : Resolve(o, phase)
       PROVE FALSE
  BY <1>4, <1>15 DEF Claim, CleanupFails, LocationArchived, vars, DeadlinePasses, OrderAges, Resolve
<1>16. Right
  BY <1>6, <1>7, <1>8, <1>9, <1>10, <1>11, <1>12, <1>13, <1>14, <1>15 DEF AdmissionNext
<1> QED
  BY <1>16

\* A request is not refused for its deadline, its locations or its images
\* while an order of the same key and body stands: the key is read again under
\* the lock before the refusal (recheckCreation).
THEOREM TwinsNotRefused == AdmissionSpec => NotRefused
<1> DEFINE A == \A r \in Requests :
       request[r].pc # "done" /\ request'[r].pc = "done"
         /\ request'[r].cause \in {"invalid", "archived", "images"} =>
       LET key == keys'[request'[r].caller][request'[r].key]
       IN key.hash # request'[r].body \/ Reusable(key.resource)
<1>1. AdmissionHold /\ [AdmissionNext]_vars => [A]_vars
  BY RefusedRightly
<1>2. NotRefused <=> [][A]_vars
  BY DEF NotRefused
<1> HIDE DEF A
<1> QED
  BY <1>1, <1>2, AdmissionSafe, PTL DEF AdmissionSpec
=============================================================================
