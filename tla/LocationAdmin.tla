---------------------------- MODULE LocationAdmin ---------------------------
(***************************************************************************)
(* Locations of the supplier service: administrators create, edit and      *)
(* archive them, and the campus dataset is imported over them. Edits run   *)
(* on a READ COMMITTED database, one statement sees what is committed when *)
(* it starts; the import is one SERIALIZABLE transaction, all of whose     *)
(* statements see the database as it was at the first, and which fails     *)
(* when a row it writes has changed since.                                 *)
(***************************************************************************)
EXTENDS Integers, Sequences, FiniteSets

CONSTANTS Locations,
          Dataset,      \* the import: what it gives some of the locations
          Texts,        \* name, building, floor, hours, contact and details
          Categories, Known,
          Inputs,       \* complete inputs of a create call
          Patches,      \* edits: an input and the fields taken from it
          Keys, Servers,
          MaxRevision,  \* bound on edits
          None

VARIABLES
  loc,     \* locations
  linked,  \* location_categories
  keys,    \* supplier_idempotency
  tx,      \* the transaction of every server
  done     \* what the step that was just taken has committed

vars == <<loc, linked, keys, tx, done>>

Fields == {"text", "supplier", "cats"}
Input == [text : Texts, supplier : BOOLEAN, cats : SUBSET Categories]
Seeded == DOMAIN Dataset
\* A row of locations.
LocationRow == [text : Texts, supplier : BOOLEAN, archived : BOOLEAN, revision : Nat \ {0}]

Idle == [pc |-> "idle", id |-> None]
Exists(l) == loc[l] # None
Content(l) == [text |-> loc[l].text, supplier |-> loc[l].supplier, cats |-> linked[l]]

LocationsInit ==
  /\ loc = [l \in Locations |-> None]
  /\ linked = [l \in Locations |-> {}]
  /\ keys = [k \in Keys |-> None]
  /\ tx = [s \in Servers |-> Idle]
  /\ done = None

-----------------------------------------------------------------------------
(* Inputs *)

\* normalizeInput: a supplier has categories, and nothing else has. Every
\* category must exist.
Valid(in) == in.supplier = (in.cats # {})
ExistingCategoryIDs(cats) == cats \cap Known
ValidReferences(in) == ExistingCategoryIDs(in.cats) = in.cats

\* mergeInput: the fields of the mask over the current location.
Merged(current, patch) == [f \in Fields |-> IF f \in patch.paths THEN patch.in[f] ELSE current[f]]

Row(in, revision, archived) ==
  [text |-> in.text, supplier |-> in.supplier, archived |-> archived, revision |-> revision]

-----------------------------------------------------------------------------
(* CreateLocation *)

\* InsertLocation and insertCategories.
StoreLocation(l, in) ==
  /\ loc' = [loc EXCEPT ![l] = Row(in, 1, FALSE)]
  /\ linked' = [linked EXCEPT ![l] = in.cats]

\* InsertIdempotency
Remember(k, in, l) == keys' = [keys EXCEPT ![k] = [hash |-> in, id |-> l]]

\* The location and the retry record, in one transaction under the lock of the
\* key.
Create(k, in) ==
  /\ keys[k] = None /\ Valid(in) /\ ValidReferences(in)
  /\ \E l \in Locations \ Seeded :
       /\ ~Exists(l)
       /\ StoreLocation(l, in) /\ Remember(k, in, l)
  /\ done' = None
  /\ UNCHANGED tx

KeyExpires(k) ==
  /\ keys[k] # None
  /\ keys' = [keys EXCEPT ![k] = None]
  /\ done' = None
  /\ UNCHANGED <<loc, linked, tx>>

-----------------------------------------------------------------------------
(* Edits and archiving: lock, read, write *)

Set(s, t) == tx' = [tx EXCEPT ![s] = t]
Step(s, t) == Set(s, t) /\ done' = None /\ UNCHANGED <<loc, linked, keys>>
\* Within: the transaction commits.
Commit(s, what) == Set(s, Idle) /\ done' = what

\* The import has locked l when it has written it.
Locks(s, l) == IF tx[s].pc = "import" THEN l \in DOMAIN tx[s].wrote
               ELSE tx[s].pc \notin {"idle", "waiting"} /\ tx[s].id = l
LockFree(s, l) == \A q \in Servers \ {s} : ~Locks(q, l)

\* The locking statement has started.
Begin(s, l, call) ==
  /\ tx[s] = Idle /\ Exists(l)
  /\ Step(s, [pc |-> "waiting", id |-> l, call |-> call])

LockLocation(s) ==
  LET t == tx[s] IN
  /\ t.pc = "waiting" /\ LockFree(s, t.id)
  /\ Step(s, [t EXCEPT !.pc = "locked"])

\* ListLocationCategories: a statement after the lock, so it sees what the
\* transaction that held the row has committed.
CategoriesNow(t) == linked[t.id]

\* GetForUpdate: the row and its categories, with the row locked.
GetForUpdate(s) ==
  LET t == tx[s]
      row == loc[t.id]
      current == [text |-> row.text, supplier |-> row.supplier, cats |-> CategoriesNow(t)]
  IN /\ t.pc = "locked"
     /\ Step(s, [pc |-> "read", id |-> t.id, call |-> t.call, row |-> row, current |-> current])

\* UpdateLocation, DeleteLocationCategories and insertCategories.
SaveLocation(t, in) ==
  /\ loc' = [loc EXCEPT ![t.id] = Row(in, t.row.revision + 1, t.row.archived)]
  /\ linked' = [linked EXCEPT ![t.id] = in.cats]

\* The edit and its commit. A stale revision, an invalid result or a missing category changes nothing.
Update(s) ==
  LET t == tx[s]
      in == Merged(t.current, t.call.patch)
  IN /\ t.pc = "read" /\ t.call.op = "update"
     /\ t.row.revision = t.call.revision /\ Valid(in) /\ ValidReferences(in)
     /\ SaveLocation(t, in)
     /\ Commit(s, [op |-> "update", id |-> t.id, patch |-> t.call.patch])
     /\ UNCHANGED keys

\* setArchived: a location that is already so is left alone.
SetArchived(s) ==
  LET t == tx[s]
      archived == t.call.op = "archive"
  IN /\ t.pc = "read" /\ t.call.op \in {"archive", "unarchive"}
     /\ t.row.archived # archived
     /\ loc' = [loc EXCEPT ![t.id] = [t.row EXCEPT !.archived = archived, !.revision = @ + 1]]
     /\ Commit(s, [op |-> "archive", id |-> t.id])
     /\ UNCHANGED <<linked, keys>>

\* A check refuses the call, a statement fails or the process stops.
Rollback(s) == tx[s] # Idle /\ Step(s, Idle)

-----------------------------------------------------------------------------
(* The import: one serializable transaction over the dataset *)

\* parseLocation and loadSuppliers: a supplier has categories, each with a
\* stable key; an ordinary location has none.
Parses(in) == in.cats \subseteq Categories /\ in.supplier = (in.cats # {})
\* load: one malformed record fails the import before anything is written.
Loads == \A l \in Seeded : Parses(Dataset[l])

\* Its first statement fixes what it sees.
BeginSeed(s) ==
  /\ tx[s] = Idle /\ Loads
  /\ Step(s, [pc |-> "import", id |-> None, loc |-> loc, linked |-> linked, wrote |-> <<>>])

SeesLatest(t, l) == FALSE
\* The row has changed since: "could not serialize access".
Conflicts(t, l) == t.loc[l] # loc[l]

\* UpsertLocation writes only a row that differs.
Differs(row, in) == row.text # in.text \/ row.supplier # in.supplier

\* UpsertLocation locks the row even when it leaves it alone.
Upserted(row, in) ==
  IF row = None THEN Row(in, 1, FALSE)
  ELSE IF Differs(row, in) THEN Row(in, row.revision + 1, row.archived) ELSE row

\* syncLocationCategories: the missing ones are added, the stale ones that the
\* transaction saw are removed. An ordinary location loses all of them.
ListLocationCategoryIDs(t, l) == t.linked[l]
Added(t, l) == Dataset[l].cats \ ListLocationCategoryIDs(t, l)
Removed(t, l) == ListLocationCategoryIDs(t, l) \ Dataset[l].cats

UpsertLocation(s, l) ==
  LET t == tx[s] IN
  /\ t.pc = "import" /\ l \in Seeded \ DOMAIN t.wrote /\ LockFree(s, l)
  /\ Step(s, IF Conflicts(t, l) THEN Idle
             ELSE [t EXCEPT !.wrote = [x \in DOMAIN @ \cup {l} |->
                     IF x = l THEN [row |-> Upserted(t.loc[l], Dataset[l]),
                                    add |-> Added(t, l), remove |-> Removed(t, l)]
                     ELSE @[x]]])

CommitSeed(s) ==
  LET w == tx[s].wrote IN
  /\ tx[s].pc = "import" /\ DOMAIN w = Seeded
  /\ loc' = [l \in Locations |-> IF l \in Seeded THEN w[l].row ELSE loc[l]]
  /\ linked' = [l \in Locations |->
                  IF l \in Seeded THEN (linked[l] \cup w[l].add) \ w[l].remove ELSE linked[l]]
  /\ Commit(s, [op |-> "seed"])
  /\ UNCHANGED keys

-----------------------------------------------------------------------------
(* The specification *)

\* The calls of administrators.
UpdateCalls == {[op |-> "update", patch |-> p, revision |-> r] : p \in Patches, r \in 1..(MaxRevision - 1)}
ArchiveCalls == {[op |-> "archive"], [op |-> "unarchive"]}
Creating(k) == \E in \in Inputs : Create(k, in)
Calling(s, l) ==
  /\ Exists(l) /\ loc[l].revision < MaxRevision
  /\ \E call \in UpdateCalls \cup ArchiveCalls : Begin(s, l, call)

LocationsNext ==
  \/ \E k \in Keys : KeyExpires(k) \/ Creating(k)
  \/ \E s \in Servers :
       \/ \E l \in Locations : Calling(s, l)
       \/ LockLocation(s) \/ GetForUpdate(s) \/ Update(s) \/ SetArchived(s) \/ Rollback(s)
       \/ BeginSeed(s) \/ \E l \in Seeded : UpsertLocation(s, l)
       \/ CommitSeed(s)

LocationsSpec == LocationsInit /\ [][LocationsNext]_vars

-----------------------------------------------------------------------------
(* Properties *)

\* The shape of the state, and the rule no constraint of the database states: a
\* location has categories exactly when it is a supplier. Row and categories
\* are written by different statements, of administrators and of the import.
LocationsTypeOK ==
  \A l \in Locations :
    IF Exists(l)
    THEN loc[l] \in LocationRow /\ linked[l] \subseteq Known /\ loc[l].supplier = (linked[l] # {})
    ELSE linked[l] = {}

\* An edit changes the fields of its mask and no other, relative to what was
\* committed right before it: an edit of categories or an import that it waited
\* for is not undone (admin/postgresstore.go GetForUpdate, "avoiding a stale
\* relationship snapshot").
MaskedOnly ==
  done' # None /\ done'.op = "update" =>
    \A l \in {done'.id} : Content(l)' = Merged(Content(l), done'.patch)

\* An import leaves every location of the dataset as the dataset has it, though
\* administrators edit at the same time, and keeps the archive state. A location
\* that it does not change keeps its revision, so a repeated import makes no
\* open form stale.
ImportIsExact ==
  done' # None /\ done'.op = "seed" =>
    \A l \in Seeded :
      /\ Content(l)' = Dataset[l]
      /\ Exists(l) => loc'[l].archived = loc[l].archived
      /\ Exists(l) /\ Content(l) = Dataset[l] => loc'[l].revision = loc[l].revision
=============================================================================
