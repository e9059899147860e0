----------------------------- MODULE Admission -----------------------------
(***************************************************************************)
(* The admission of an order: CreateOrder of the order service, from the   *)
(* idempotency key of the caller to the answer, and the item images an     *)
(* order takes over from the upload flow.                                  *)
(*                                                                         *)
(* A body is the canonical input without its key; the hash of a request is *)
(* its body. What resolves an admitted workflow is OrderCreation; here it  *)
(* resolves at some time, either way. Orders are numbered as admitted.     *)
(*                                                                         *)
(* An object of the storage is absent, or good, or other: not of the size  *)
(* and type the upload row names.                                          *)
(***************************************************************************)
EXTENDS Integers, Sequences, FiniteSets

CONSTANTS Callers, Keys, Requests, Images,
          Bodies,     \* records: valid, and the images the item comes with
          Suspended,  \* callers whose token says they are suspended
          Disabled,   \* requests served where admissions are not configured
          MaxRecent,  \* creations a caller may have within a minute
          MaxOrders,  \* bound on admitted orders
          MaxFaults   \* bound on failures, lost answers and crashes

VARIABLES
  keys,       \* order_idempotency_keys, by caller and key
  orders,     \* the orders and their workflows, as admitted
  request,    \* the handler of every request
  image,      \* order_item_images
  object,     \* the object storage
  late,       \* bodies whose deadline has passed
  selectable, \* the locations of the bodies are not archived
  cleaner,    \* the images CleanupOnce claimed
  faults      \* faults so far

\* The tables of the admissions.
tables == <<keys, orders>>
vars == <<keys, orders, request, image, object, late, selectable, cleaner, faults>>

Nobody == 0
NoOrder == 0
NoBody == [valid |-> FALSE, images |-> {}]

ASSUME AdmissionAssumption ==
  /\ MaxRecent \in Nat /\ MaxOrders \in Nat /\ MaxFaults \in Nat
  /\ NoBody \notin Bodies /\ \A b \in Bodies : b.images \subseteq Images

Key(resource, hash) == [resource |-> resource, hash |-> hash]
NoKey == Key(NoOrder, NoBody)

\* age is new, then past the minute of the rate limit, then past the day of
\* the key.
Admitted(caller, key, body) ==
  [caller |-> caller, key |-> key, body |-> body, phase |-> "reserve_pending", age |-> "new"]

\* state is none before the upload is created; age as its two deadlines pass.
Upload(state, owner, granted, age, order) ==
  [state |-> state, owner |-> owner, granted |-> granted, age |-> age, order |-> order]
NoUpload == Upload("none", Nobody, FALSE, "new", NoOrder)

\* cause is the failure a recheck returns if it finds nothing.
Handler(pc, caller, key, body, found, cause) ==
  [pc |-> pc, caller |-> caller, key |-> key, body |-> body, found |-> found, cause |-> cause]
Idle == Handler("idle", Nobody, Nobody, NoBody, NoOrder, "none")

AdmissionInit ==
  /\ keys = [c \in Callers |-> [k \in Keys |-> NoKey]]
  /\ orders = <<>>
  /\ request = [r \in Requests |-> Idle]
  /\ image = [i \in Images |-> NoUpload]
  /\ object = [i \in Images |-> "absent"]
  /\ late = {}
  /\ selectable = TRUE
  /\ cleaner = {}
  /\ faults = 0

Fault == faults < MaxFaults /\ faults' = faults + 1

-----------------------------------------------------------------------------
(* The key of a caller.                                                    *)

Resolved(o) == orders[o].phase \in {"opened", "rejected"}
KeyExpired(o) == orders[o].age = "day"

\* The resource is loaded before expiry is considered: an unresolved workflow
\* keeps its key.
Reusable(o) == Resolved(o) /\ KeyExpired(o)

\* FindCreationKey, under the lock of the caller: what it finds, and the keys
\* it leaves.
Stored(c, k) == keys[c][k]
Found(c, k) ==
  IF Stored(c, k) = NoKey \/ Reusable(Stored(c, k).resource) THEN NoKey ELSE Stored(c, k)
FoundKeys(c, k) == [keys EXCEPT ![c][k] = Found(c, k)]

-----------------------------------------------------------------------------
(* Create.                                                                 *)

\* The request goes on at pc.
At(r, pc, found, cause) ==
  request' = [request EXCEPT ![r] =
    Handler(pc, request[r].caller, request[r].key, request[r].body, found, cause)]
Goto(r, pc) == At(r, pc, request[r].found, request[r].cause)
Answer(r, what) == At(r, "done", request[r].found, what)
Failing(r, cause) == At(r, "rechecking", request[r].found, cause)
Resuming(r, key) == At(r, "resuming", key.resource, request[r].cause)

\* canonicalCreation: the canonical body, or none.
Canonical(b) == b.valid
\* newCreator has the clients and the storage that admissions need.
Configured(r) == r \notin Disabled

Begin(r, c, k, b) ==
  /\ request[r].pc \in {"idle", "done"}
  /\ request' = [request EXCEPT ![r] =
       IF c \in Suspended THEN Handler("done", c, k, b, NoOrder, "forbidden")
       ELSE IF ~Canonical(b) THEN Handler("done", c, k, b, NoOrder, "invalid")
       ELSE Handler("finding", c, k, b, NoOrder, "none")]
  /\ UNCHANGED <<keys, orders, image, object, late, selectable, cleaner, faults>>

FindFirst(r) ==
  /\ request[r].pc = "finding"
  /\ LET c == request[r].caller k == request[r].key IN
     /\ keys' = FoundKeys(c, k)
     /\ IF Found(c, k) # NoKey THEN Resuming(r, Found(c, k))
        ELSE IF ~Configured(r) THEN Answer(r, "unavailable")
        ELSE IF request[r].body \in late THEN Failing(r, "invalid")
        ELSE Goto(r, "locating")
  /\ UNCHANGED <<orders, image, object, late, selectable, cleaner, faults>>

\* Both locations are snapshot by RPC; an archived one fails the request.
Locate(r) ==
  /\ request[r].pc = "locating"
  /\ IF ~selectable THEN Failing(r, "archived")
     ELSE Goto(r, IF request[r].body.images = {} THEN "admitting" ELSE "preparing")
  /\ UNCHANGED <<keys, orders, image, object, late, selectable, cleaner, faults>>

LocateFails(r) ==
  /\ request[r].pc = "locating"
  /\ Fault
  /\ Failing(r, "unavailable")
  /\ UNCHANGED <<tables, image, object, late, selectable, cleaner>>

\* Prepare inspects the row and the object of every image.
ItemImage(c, i) == image[i].owner = c /\ image[i].state = "uploading"
Inspect(i) == object[i] = "good"
Prepared(c, i) == ItemImage(c, i) /\ Inspect(i)
Prepare(r) ==
  /\ request[r].pc = "preparing"
  /\ IF \A i \in request[r].body.images : Prepared(request[r].caller, i)
       THEN Goto(r, "admitting") ELSE Failing(r, "images")
  /\ UNCHANGED <<keys, orders, image, object, late, selectable, cleaner, faults>>

\* Mutant: the state of the row is not checked when it is attached.
AttachableAnyState(c, i) == image[i].owner = c

\* AttachItemImage: the row is updated only as it was prepared.
Attachable(c, i) == image[i].owner = c /\ image[i].state = "uploading"
AttachImages(r, o) ==
  image' = [i \in Images |->
    IF i \in request[r].body.images
      THEN Upload("attached", image[i].owner, image[i].granted, image[i].age, o) ELSE image[i]]

Recent(c) == {o \in DOMAIN orders : orders[o].caller = c /\ orders[o].age = "new"}

\* Mutant: the key is not looked up again under the lock.
AdmissibleUnchecked(c, k) == Cardinality(Recent(c)) < MaxRecent

\* Under the lock of the caller: nobody else admitted the key, and the caller
\* is within the limit.
Admissible(c, k) == Found(c, k) = NoKey /\ Cardinality(Recent(c)) < MaxRecent

InsertIdempotencyKey(c, k, o, b) == keys' = [keys EXCEPT ![c][k] = Key(o, b)]
InsertCreation(c, k, b) == orders' = Append(orders, Admitted(c, k, b))

\* The transaction writes the order, its images, its workflow and its key, or
\* nothing: a refusal rolls back the removal of an expired key too.
Admit(r) ==
  /\ request[r].pc = "admitting"
  /\ LET c == request[r].caller  k == request[r].key  b == request[r].body
         o == Len(orders) + 1
         attaches == \A i \in b.images : Attachable(c, i)
     IN \/ /\ Admissible(c, k) /\ b \notin late /\ attaches
           /\ o <= MaxOrders
           /\ InsertCreation(c, k, b) /\ InsertIdempotencyKey(c, k, o, b)
           /\ AttachImages(r, o)
           /\ Resuming(r, Key(o, b))
        \/ /\ ~Admissible(c, k) /\ Found(c, k) # NoKey
           /\ Resuming(r, Found(c, k))
           /\ UNCHANGED <<keys, orders, image>>
        \/ /\ Found(c, k) = NoKey
           /\ \/ b \in late /\ Answer(r, "invalid")
              \/ /\ b \notin late /\ Cardinality(Recent(c)) >= MaxRecent
                 /\ Answer(r, "rate_limited")
              \/ Admissible(c, k) /\ b \notin late /\ ~attaches /\ Answer(r, "images")
           /\ UNCHANGED <<keys, orders, image>>
  /\ UNCHANGED <<object, late, selectable, cleaner, faults>>

\* Mutant: a failure is returned without looking for the key.
RecheckFindsNothing(r) == NoKey

\* recheckCreation: the same request may have been admitted meanwhile.
RecheckFinds(r) == Found(request[r].caller, request[r].key)
Recheck(r) ==
  /\ request[r].pc = "rechecking"
  /\ keys' = FoundKeys(request[r].caller, request[r].key)
  /\ IF RecheckFinds(r) # NoKey THEN Resuming(r, RecheckFinds(r))
     ELSE Answer(r, request[r].cause)
  /\ UNCHANGED <<orders, image, object, late, selectable, cleaner, faults>>

\* CheckRequestHash.
SameRequest(r) == orders[request[r].found].body = request[r].body
Resume(r) ==
  /\ request[r].pc = "resuming"
  /\ Answer(r, IF SameRequest(r) THEN orders[request[r].found].phase ELSE "already_exists")
  /\ UNCHANGED <<keys, orders, image, object, late, selectable, cleaner, faults>>

\* The database fails, or the process stops; a transaction is not applied.
Abandon(r) ==
  /\ request[r].pc \notin {"idle", "done"}
  /\ Fault
  /\ request' = [request EXCEPT ![r] = Idle]
  /\ UNCHANGED <<keys, orders, image, object, late, selectable, cleaner>>

-----------------------------------------------------------------------------
(* Item images.                                                            *)

\* The row of an upload as it is saved.
NewUpload(c) == Upload("uploading", c, FALSE, "new", NoOrder)

\* CreateUpload saves the row, then asks the storage for a grant.
SaveItemImage(c, i) ==
  /\ c \notin Suspended /\ image[i] = NoUpload
  /\ image' = [image EXCEPT ![i] = NewUpload(c)]
  /\ UNCHANGED <<keys, orders, request, object, late, selectable, cleaner, faults>>

Grant(i) ==
  /\ image[i].state = "uploading" /\ image[i].age = "new" /\ ~image[i].granted
  /\ image' = [image EXCEPT ![i].granted = TRUE]
  /\ UNCHANGED <<keys, orders, request, object, late, selectable, cleaner, faults>>

\* The grant is for a new object (If-None-Match), and for ten minutes.
PutAllowed(i) == image[i].granted /\ image[i].age = "new" /\ object[i] = "absent"
Put(i, what) ==
  /\ PutAllowed(i)
  /\ object' = [object EXCEPT ![i] = what]
  /\ UNCHANGED <<keys, orders, request, image, late, selectable, cleaner, faults>>

\* ClaimOrphanImages: neither attached nor still in the time of an upload.
Claimable(i) == image[i].state \in {"uploading", "deleting"} /\ image[i].age = "day"
Claim ==
  /\ cleaner = {}
  /\ \E i \in Images : Claimable(i)
  /\ cleaner' = {i \in Images : Claimable(i)}
  /\ image' = [i \in Images |->
       IF i \in cleaner' THEN [image[i] EXCEPT !.state = "deleting"] ELSE image[i]]
  /\ UNCHANGED <<keys, orders, request, object, late, selectable, faults>>

\* The object first, then the row.
DeleteObject(i) ==
  /\ i \in cleaner /\ object[i] # "absent"
  /\ object' = [object EXCEPT ![i] = "absent"]
  /\ UNCHANGED <<keys, orders, request, image, late, selectable, cleaner, faults>>

RowDeletable(i) == i \in cleaner /\ object[i] = "absent"
DeleteRow(i) ==
  /\ RowDeletable(i)
  /\ image' = IF image[i].state = "deleting"
                THEN [image EXCEPT ![i].state = "gone"] ELSE image
  /\ cleaner' = cleaner \ {i}
  /\ UNCHANGED <<keys, orders, request, object, late, selectable, faults>>

\* The storage fails: the rest of the batch is left for the next time.
CleanupFails ==
  /\ cleaner # {}
  /\ Fault
  /\ cleaner' = {}
  /\ UNCHANGED <<keys, orders, request, image, object, late, selectable>>

-----------------------------------------------------------------------------
(* What happens meanwhile.                                                 *)

Resolve(o, phase) ==
  /\ o \in DOMAIN orders /\ ~Resolved(o)
  /\ orders' = [orders EXCEPT ![o].phase = phase]
  /\ UNCHANGED <<keys, request, image, object, late, selectable, cleaner, faults>>

Later(age) == IF age = "new" THEN "minutes" ELSE "day"
OrderAges(o) ==
  /\ o \in DOMAIN orders /\ orders[o].age # "day"
  /\ orders' = [orders EXCEPT ![o].age = Later(@)]
  /\ UNCHANGED <<keys, request, image, object, late, selectable, cleaner, faults>>
ImageAges(i) ==
  /\ image[i].state # "none" /\ image[i].age # "day"
  /\ image' = [image EXCEPT ![i].age = Later(@)]
  /\ UNCHANGED <<keys, orders, request, object, late, selectable, cleaner, faults>>
DeadlinePasses(b) ==
  /\ b.valid /\ b \notin late
  /\ late' = late \cup {b}
  /\ UNCHANGED <<keys, orders, request, image, object, selectable, cleaner, faults>>
LocationArchived ==
  /\ selectable
  /\ selectable' = FALSE
  /\ UNCHANGED <<keys, orders, request, image, object, late, cleaner, faults>>

AdmissionNext ==
  \/ \E r \in Requests :
       \/ \E c \in Callers, k \in Keys, b \in Bodies : Begin(r, c, k, b)
       \/ FindFirst(r) \/ Locate(r) \/ LocateFails(r) \/ Prepare(r)
       \/ Admit(r) \/ Recheck(r) \/ Resume(r) \/ Abandon(r)
  \/ \E i \in Images :
       \/ \E c \in Callers : SaveItemImage(c, i)
       \/ \E what \in {"good", "other"} : Put(i, what)
       \/ Grant(i) \/ DeleteObject(i) \/ DeleteRow(i) \/ ImageAges(i)
  \/ Claim \/ CleanupFails \/ LocationArchived
  \/ \E o \in DOMAIN orders :
       OrderAges(o) \/ \E phase \in {"opened", "rejected"} : Resolve(o, phase)
  \/ \E b \in Bodies : DeadlinePasses(b)

\* The cleaner runs every minute, and time passes.
CleanupOnce == Claim \/ \E i \in Images : DeleteObject(i) \/ DeleteRow(i)
AdmissionFairness == WF_vars(CleanupOnce) /\ \A i \in Images : WF_vars(ImageAges(i))

AdmissionSpec == AdmissionInit /\ [][AdmissionNext]_vars /\ AdmissionFairness

-----------------------------------------------------------------------------
(* Properties.                                                             *)

Ages == {"new", "minutes", "day"}
Phases == {"reserve_pending", "opened", "rejected"}
Refusals == {"invalid", "archived", "images", "unavailable", "forbidden", "rate_limited", "already_exists"}
KeyType == [resource : Nat, hash : Bodies \cup {NoBody}]
OrderType ==
  [caller : Callers \ Suspended, key : Keys, body : Bodies, phase : Phases, age : Ages]
HandlerType ==
  [pc : {"idle", "finding", "locating", "preparing", "admitting", "rechecking", "resuming", "done"},
   caller : Callers \cup {Nobody}, key : Keys \cup {Nobody}, body : Bodies \cup {NoBody},
   found : Nat, cause : {"none"} \cup Phases \cup Refusals]
UploadType ==
  [state : {"none", "uploading", "attached", "deleting", "gone"}, owner : Callers \cup {Nobody},
   granted : BOOLEAN, age : Ages, order : Nat]

\* The shape of the tables and of the requests under way.
AdmissionTypeOK ==
  /\ keys \in [Callers -> [Keys -> KeyType]] /\ orders \in Seq(OrderType)
  /\ Len(orders) <= MaxOrders
  /\ request \in [Requests -> HandlerType] /\ \A r \in Requests : request[r].found <= Len(orders)
  /\ image \in [Images -> UploadType] /\ object \in [Images -> {"absent", "good", "other"}]
  /\ late \subseteq Bodies /\ selectable \in BOOLEAN
  /\ cleaner \subseteq Images /\ faults \in 0..MaxFaults

\* A second order under the same key of the same caller is admitted only when
\* the first is resolved and a day old.
KeyMakesOneOrder ==
  \A o, p \in 1..Len(orders) :
    o < p /\ orders[o].caller = orders[p].caller /\ orders[o].key = orders[p].key => Reusable(o)

\* The key of a workflow that is still pending is never lost, even when its
\* day is over: a retry always reaches that workflow.
PendingIsPinned ==
  \A o \in 1..Len(orders) :
    orders[o].phase = "reserve_pending" => keys[orders[o].caller][orders[o].key].resource = o

\* A request is only ever answered with the outcome of an order that was
\* admitted for the same caller with the same body.
AnsweredWithOwn ==
  \A r \in Requests :
    request[r].pc = "done" /\ request[r].cause \in Phases =>
      /\ request[r].found \in 1..Len(orders)
      /\ orders[request[r].found].caller = request[r].caller
      /\ orders[request[r].found].body = request[r].body

\* A key makes one order, however many requests look it up, locate and admit
\* at the same time; the key of a pending workflow is never lost, and a
\* request is answered with the order of the same caller and body.
OneOrderPerKey == AdmissionTypeOK /\ KeyMakesOneOrder /\ PendingIsPinned /\ AnsweredWithOwn

\* The images of an order are its own and their objects are in the storage as
\* they were inspected: neither the cleaner, nor a second order that names the
\* same image, nor a second upload takes them away.
OrderImagesKept ==
  \A o \in 1..Len(orders) : \A i \in orders[o].body.images :
    /\ image[i].state = "attached" /\ image[i].order = o
    /\ image[i].owner = orders[o].caller /\ object[i] = "good"

\* No object outlives its row: what is not in order_item_images is not in the
\* storage and will not be put there.
NoOrphanObject ==
  \A i \in Images : image[i].state \in {"none", "gone"} => object[i] = "absent"

\* The images of an order stay its own and in the storage, and no object is
\* left there without a row: cleaner, second order and second upload included.
ImagesKept == OrderImagesKept /\ NoOrphanObject

\* A deadline, an archived location or used images never fail a request whose
\* identical twin was admitted: the answer "invalid", "archived" or "images" is
\* given only while no key within its day, or of a pending workflow, is stored
\* for this very body.
NotRefused ==
  [][\A r \in Requests :
       request[r].pc # "done" /\ request'[r].pc = "done"
         /\ request'[r].cause \in {"invalid", "archived", "images"} =>
       LET key == keys'[request'[r].caller][request'[r].key]
       IN key.hash # request'[r].body \/ Reusable(key.resource)]_vars
=============================================================================
