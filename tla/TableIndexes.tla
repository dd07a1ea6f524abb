---------------------------- MODULE TableIndexes ----------------------------
(***************************************************************************)
(* TableIndexes: for every id and unique field of a model, the map from a  *)
(* field value to the id of the live row that holds it.  One map is a set  *)
(* of <<value, row id>> pairs; the indexes of a model give every field its *)
(* map, or NoMap where the field is not indexed.                           *)
(***************************************************************************)
EXTENDS TableRows

CONSTANT None           \* an Option that is None

Entries == SUBSET (Values \X RowIds)

(* A value that is no map, since 0 is no row id: what stands for the map of *)
(* a field that is not indexed and for an index file that does not load.   *)
NoMap == {<<Null, 0>>}

Indexes == [Fields -> Entries \cup {NoMap}]

ASSUME IndexAssumption ==
          /\ None \notin Indexes
          /\ None \notin TableFiles

NoIndexes == [f \in Fields |-> NoMap]

IndexedFields(indexes) == {f \in Fields : indexes[f] # NoMap}

(* The row ids the map of a field holds for a value: at most one.          *)
Hits(entries, v) == {id \in RowIds : <<v, id>> \in entries}

(* HashMap::insert replaces the row id of a value already in the map.      *)
PutEntry(entries, v, id) == {p \in entries : p[1] # v} \cup {<<v, id>>}

(* Seeded defects: a field that is not unique gets an entry all the same,  *)
(* and an old value is left behind.                                        *)
InsertAllFields(indexes, id, row) ==
    [f \in Fields |->
        IF f \in DOMAIN row THEN PutEntry(indexes[f], row[f], id)
                            ELSE indexes[f]]

RemoveNothing(indexes, id, row) == indexes

(* TableIndexes::insert and TableIndexes::remove                           *)
IndexInsert(indexes, id, row) ==
    [f \in Fields |->
        IF f \in IndexedFields(indexes) \cap DOMAIN row
        THEN PutEntry(indexes[f], row[f], id)
        ELSE indexes[f]]

IndexRemove(indexes, id, row) ==
    [f \in Fields |->
        IF f \in IndexedFields(indexes) \cap DOMAIN row
        THEN indexes[f] \ {<<row[f], id>>}
        ELSE indexes[f]]

(* Seeded defect: an update is not checked.                                *)
InsertConflict(indexes, row, ignore) ==
    /\ ignore = 0
    /\ \E f \in IndexedFields(indexes) \cap DOMAIN row :
          Hits(indexes[f], row[f]) # {}

(* TableIndexes::check_unique fails: another row holds a unique value of   *)
(* the row; ignore is the id of the row being updated, 0 for an insert.    *)
UniqueConflict(indexes, row, ignore) ==
    \E f \in IndexedFields(indexes) \cap DOMAIN row :
        \E id \in Hits(indexes[f], row[f]) : id # ignore

(***************************************************************************)
(* TableIndexes::build visits the live rows in order: it fails exactly     *)
(* when two of them share a unique value, and otherwise holds one entry    *)
(* for each of them and each unique field.                                 *)
(***************************************************************************)
SameUnique(schema, table, i, j) ==
    \E f \in UniqueFields(schema) :
        /\ f \in DOMAIN table[i].record
        /\ f \in DOMAIN table[j].record
        /\ table[i].record[f] = table[j].record[f]

BuildFails(schema, table) ==
    \E i, j \in LiveIds(table) : i # j /\ SameUnique(schema, table, i, j)

EntriesOf(table, f) ==
    {<<table[id].record[f], id>> :
        id \in {i \in LiveIds(table) : f \in DOMAIN table[i].record}}

IndexOf(schema, table) ==
    [f \in Fields |->
        IF f \in UniqueFields(schema) THEN EntriesOf(table, f) ELSE NoMap]
=============================================================================
