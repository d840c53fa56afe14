------------------------------ MODULE Catalog ------------------------------
(***************************************************************************)
(* The CWE tables of cwe.db as class Repository (src/data/Repository.cpp)  *)
(* reads and writes them: categories, cwes and the cwe_categories join     *)
(* table.  The notifications table is not part of this module.             *)
(*                                                                         *)
(* A row's text columns are abstracted to the EDITION of the upstream      *)
(* catalogue its content was fetched from; 0 means that there is no row.   *)
(* Every operation below is one SQL statement run outside a transaction,   *)
(* so each is atomic and durable on its own.                               *)
(***************************************************************************)
EXTENDS Integers

CONSTANTS
  Cat,   \* category ids (categories.id)
  Cwe    \* weakness ids (cwes.id)

CatalogType ==
  [cats : [Cat -> Nat], cwes : [Cwe -> Nat], links : SUBSET (Cwe \X Cat)]

\* initialize_schema() on a fresh file: the tables exist and are empty.
EmptyCatalog ==
  [cats |-> [c \in Cat |-> 0], cwes |-> [w \in Cwe |-> 0], links |-> {}]

StoredCats(db) == {c \in Cat : db.cats[c] > 0}

\* Mutant of UpsertCategory: INSERT OR REPLACE, which deletes the old row, over
\* a join table declared ON DELETE CASCADE, which deletes its links with it.
ReplaceCategory(db, c, edition) ==
  [db EXCEPT !.cats[c] = edition, !.links = {l \in @ : l[2] # c}]

\* INSERT ... ON CONFLICT(id) DO UPDATE: the new content replaces the old.
UpsertCategory(db, c, edition) == [db EXCEPT !.cats[c] = edition]

UpsertCwe(db, w, edition) == [db EXCEPT !.cwes[w] = edition]

\* PRAGMA foreign_keys=ON: both rows must exist; OR IGNORE does not cover a
\* foreign key, so a missing row makes the statement fail.
LinkAllowed(db, w, c) == db.cwes[w] > 0 /\ db.cats[c] > 0

\* INSERT OR IGNORE INTO cwe_categories.
LinkCweCategory(db, w, c) == [db EXCEPT !.links = @ \cup {<<w, c>>}]

\* SELECT COUNT(*) FROM categories.
HasData(db) == StoredCats(db) # {}

\* Every link joins two stored rows.
ReferencesStored(db) == \A l \in db.links : LinkAllowed(db, l[1], l[2])
=============================================================================
