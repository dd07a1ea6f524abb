# CrustDB in TLA+

A model of the CrustDB storage engine, its model-checking runs and its proofs.
Paths are relative to the repository; `core/` stands for
`crates/crustdb_core/src/`.

## 1. The system

CrustDB is an embedded database. Python classes describe models, and a Rust
engine keeps the rows of every model in a directory:

| component | state | operations | interacts with |
|---|---|---|---|
| Engine (`core/engine.rs`) | `schemas`, `rows`, `indexes`, `next_row_ids` | `open`, `register_schema`, `insert`, `find`, `update`, `delete` | calls everything below, holds the only in-memory copy |
| Schemas and values (`core/schema.rs`, `core/value.rs`) | none | validation, normalisation | `engine.rs` |
| Table log (`core/storage/table_file.rs`) | `tables/<model>.tbl` | append one operation, replay, migrate a legacy file | the source of truth for rows |
| Record codec (`core/storage/record.rs`) | none | encode, decode | table log, schema file |
| Schema file (`core/storage/schema_file.rs`) | `schema.crust` | load all, save all | written by `register_schema` |
| Storage manifest (`core/storage/manifest.rs`) | `manifest.crust` | load or create | read by `open` |
| In-memory indexes (`core/index/memory.rs`) | a map per id or unique field | build, check_unique, insert, remove | decide uniqueness |
| Index manifest (`core/index/manifest.rs`) | `indexes/manifest.crustix` | mark dirty, mark clean, is_clean | one flag for the whole database |
| Index loading (`core/index/disk.rs`) | none | load or rebuild all / one model, save a model | manifest, index files, table rows |
| Index files (`core/index/file.rs`, `core/index/key.rs`) | `indexes/<model>/<field>.idx`, B-tree pages | save, load, exact lookup | `find` reads them directly |
| Binding (`crates/crustdb_py/src/lib.rs`) | a mutex around an engine | one method per call | makes calls of threads atomic |
| Python adapter, API (`python/crustdb/`) | registered models | forwards calls | binding or JSON engine |
| JSON engine (`python/crustdb/engine.py`) | rows and schemas as JSON files | the same operations | development substitute |

What makes it correct, and what is hard about it:

* A call writes several files (index manifest, table log, one file per indexed
  field, index manifest again) with no transaction around them. The process may
  stop between any two writes or inside one, and a write may fail and return an
  error while the engine stays up. The dirty flag is the only thing that tells
  the next open which of the derived files to believe.
* The flag is one per database, the things it speaks for are many.
* `find` takes an index file as the answer, without comparing it with the rows;
  `check_unique` takes indexes loaded from files as the truth about the rows.
* The table log must always be one its own replay accepts, or the database is
  gone: the row id counter, rebuilt at each open, has to keep it so.
* Handlers change memory before or after a file write that may fail, so an error
  answer does not mean that nothing happened.
* Files are rewritten in place (`schema.crust`, a migrated table) or appended to (a
  table log), and read back by a cursor that must refuse whatever a write that was
  cut short has left, at any byte.
* The JSON engine has no log and no contract on disk: it rewrites all rows of a
  model at each change, reads them again when a model is registered, under whatever
  schema that is, and goes on after a failed write with memory ahead of the file.

`PROJECT.json` lists these as hazards, each at its line with the properties that
would notice it going wrong.

## 2. Modules

| module | what it holds |
|---|---|
| `Schema` | values, field schemas, `ValidValue`, `NormalizeRow`, `Normalizes`, `Accepts`, `AcceptsUpdate`, filters |
| `TableRows` | the rows of a table, `NextRowId`, `FirstMatch`, and one operator per operation of the log as replay takes it |
| `TableIndexes` | indexes as sets of `<<value, row id>>`, `IndexInsert`, `IndexRemove`, `UniqueConflict`, `BuildFails`, `IndexOf` |
| `Engine` | the state machine: files, memory and the running handler; its properties |
| `MCEngine` | small instances for TLC |
| `IndexKey` | the byte keys of an index: `encode_key`, `decode_key`, their order |
| `IndexFile` | one index file page by page: `save_index` as a state machine, `load_index` and `lookup_index` as operators |
| `IndexCell` | what an index file promises: one map, or nothing that loads |
| `StorageBytes` | the bytes of integers, strings, values and records, as they are written and as a `Cursor` reads them |
| `TableLog` | one table file, byte by byte: its operations and their replay, the old format and its migration, writes that stop after any byte |
| `TableCell` | what a table file promises: one table that operations change as replay does, or `Torn` |
| `SchemaFile` | `schema.crust`, byte by byte, and the schemas the engine has in memory |
| `SchemaCell` | what the schema file promises: the contracts of one save, or nothing that loads |
| `TableStore` | what the engine promises its caller: contracts and rows that each call changes at most once |
| `EngineStore` | the mapping from `Engine` to `TableStore` |
| `JsonEngine` | the JSON engine: rows and schemas in memory and in files, its calls and its properties |
| `MCIndexFile`, `MCTableLog`, `MCSchemaFile`, `MCJsonEngine` | small instances of these |
| `TableProofs` | lemmas about the operators of `TableRows` |
| `EngineInvariant` | the inductive invariants of the engine: `SafetyInv`, of `Spec`, and `FaultInv`, of `FaultySpec` |
| `EngineProofs` | lemmas about the operators of `TableIndexes` and the tables indexes describe; the proofs that every step keeps the types, that `SafetyInv` and `FaultInv` are inductive, and that `Engine` implements `TableStore` |
| `JsonProofs` | proofs of the JSON engine's properties |
| `KeyProofs` | recursive functions and numbers in digits; the order of keys, and that a key decodes to its value |
| `IndexFileProofs` | proofs of the properties of `IndexFile`, and that it implements `IndexCell` |
| `ByteProofs` | lemmas about what `StorageBytes` writes and reads, up to the round trip of a record |
| `TableLogProofs` | proofs of the properties of `TableLog`, and that it implements `TableCell` |
| `SchemaFileProofs` | proofs of the properties of `SchemaFile`, and that it implements `SchemaCell` |

### How `Engine` corresponds to the code

The files are `meta` (`manifest.crust`), `schemaFile`, `table`, `ixClean` (the
index manifest exists and says clean) and `ixFile`; the memory is `schemas`,
`rows`, `next_row_ids` and `indexes`, as in `struct Engine`; `pc`, `call` and
`outcome` are where the running handler is, what it has in hand and what it
returned. A handler runs from one file write to the next in one action:

| code | actions |
|---|---|
| `Engine::open` | `Open`, `LoadOrCreateManifest`, `LoadTables`, `LoadOrRebuildAll` |
| `rebuild_all` | `MarkDirty`, (`RebuildModel`, `SaveIndex`*, `SaveModelDone`)*, `RebuildDone`, `MarkClean` |
| `load_or_rebuild_model` | `LoadOrRebuildModel`, `MarkDirty`, `SaveIndex`*, `SaveModelDone`, `MarkClean` |
| `register_schema` | `RegisterSchema` or `RegisterIncompatible`, `SaveSchemas` or `SaveSchemasRefused`, `LoadRows`, `load_or_rebuild_model` |
| `insert` | `Insert`, (`load_or_rebuild_model`), `ValidateUnique`, `MarkDirty`, `AppendInsert` or `AppendRefused`, `SaveIndex`*, `SaveModelDone`, `MarkClean` |
| `update` | `Update`, then as `insert` with `AppendUpdate` |
| `delete` | `Delete`, `MarkDirty`, `AppendDelete`, `SaveIndex`*, `SaveModelDone`, `MarkClean` |
| `find` | the operators `FindFails` and `FindRowId`: it changes nothing |
| the process stops | `Crash`, at any `pc` but `"down"`, with `PartialWrite` |
| a file operation fails | `IoError`, with `PartialWrite`, only in `FaultySpec` |

`PartialWrite` says what the write the handler is about to make can leave when it
does not complete: nothing, a manifest or schema file cut short, an index
manifest that does not say clean, a log that does not parse, an index file that
does not load. A new table file gets its magic before the row is encoded
(`table_file.rs:81`, `:88`), so it may be cut there for a row that is going to be
refused, too; any other append writes nothing before the row is encoded. A write that completed and whose handler then stops is the next
action followed by `Crash`.

### How `IndexFile` corresponds to the code

`pages` and `torn` are the bytes of one `.idx` file: its whole pages, and whether
a part of another follows. The rest is `save_index`'s own: `pc` says where it is,
`sorted` what `sorted_encoded_entries` gave it, `built` and `level` are `pages` and
`current_level` of `build_index_pages`.

| code | actions and operators |
|---|---|
| `sorted_encoded_entries` | `SortEntries` |
| `build_leaf_level` | `BuildLeafLevel`, with `LeafGroups`, `LeafPages`, `LeafRefs` |
| one turn of the loop of `build_index_pages` | `BuildLevel`, with `InternalGroups`, `InternalPages`, `InternalRefs` |
| `encode_header_page`, `File::create` | `CreateFile` |
| `write_all` of the header and of each page | `WritePage`* |
| `flush` and return | `Flush` |
| the process stops, or a file operation fails | `Interrupt` |
| `read_header`, `read_page`, `parse_*_page` | `HeaderOk`, `ReadPage`, `IsLeaf`, `IsInternal` |
| `load_index` | `LoadIndex`: `Descent` by the first child, then the leaf chain |
| `lookup_index` | `LookupIndex`: `Descent` by `child_for_key`, then `FindInLeaf` |

### How `TableStore` corresponds to what a caller sees

`TableStore` has no files, no indexes and no manifest. A call is a `request`; `Ask*`
is where it starts, `Register`, `Insert`, `Update` and `Delete` are where it takes
effect, `AnswerOk` and `AnswerErr` where it returns, `Stop` where the process does.
The mapping of `EngineStore` takes `schemaFile` for the contracts and `table` for the
store, and a call for done when its write to one of them is done (`TakenEffect`).
Everything between, on both sides, is a stutter: marking dirty, loading or rebuilding
indexes, saving them, marking clean. What the mapping demands is thus what the
handlers have to bring about: that a row found through an index file is the oldest
matching row of the log; that a row `check_unique` lets pass has no double there and
one it refuses has; that Ok is answered only after the effect and an error only
without it; and that a stop leaves the effect of the running call, all of it or none,
or a file that does not load.

### How `TableLog`, `SchemaFile` and `StorageBytes` correspond to the code

`StorageBytes` writes as `encode_record` and `write_*` do, and reads as `Cursor` does:
a reader takes the bytes and a position and gives the position behind what it read
and the value, or fails; `Then` is the `?` of the code. Counts, lengths and integers
have a width that is a parameter, and bytes any base. The loops of the code that read
a map or all items of a file are functions of the number of turns (`ReadMap`,
`ReadAll`), and take the reader of one entry or item as a function of its position.

In `TableLog`, `bytes` is one `.tbl` file; `pc`, `pending` and `rows` belong to the
engine that has it loaded.

| code | actions and operators |
|---|---|
| `replay_operations`, `load_legacy_records` | `Contents`: what the bytes load as |
| `load_rows` | `LoadRows`, and `RewriteAsOperationLog` when the file has the old format |
| `append_insert`, `append_update`, `append_delete` | `AppendInsert`, `AppendUpdate`, `AppendDelete`, called as the engine calls them: a new row id, or a live row |
| `append_operation` | `EnsureOperationFile`, `AppendOperation` |
| the process stops, or a file operation fails | `Crash`, `IoError`, with `CutWrite`: any strict prefix of what was to be written |

In `SchemaFile`, `file` is `schema.crust`, `schemas` the engine's memory.

| code | actions and operators |
|---|---|
| `load_schemas` at `Engine::open` | `Open`, with `load_schemas` |
| `register_schema` of a new model, up to `save_schemas` | `Register` |
| `save_schemas` | `save_schemas`, refused as a whole when `SchemasFit` does not hold |
| the process stops, or `fs::write` fails | `Crash`, `IoError`, with `CutWrite` |

`Engine` uses none of these modules: it has a table where `TableCell` has one,
contracts where `SchemaCell` has them and a set of entries where `IndexCell` has one.
The three runs that check `ImplementsTable`, `ImplementsContracts` and `ImplementsCell`
say that the files may be taken for these.

### How `JsonEngine` corresponds to the code

`schemas` and `rows` are `_schemas` and `_rows`; `rowsFile` and `schemaJson` the files;
`tables` the models whose `Table` the caller has, since `CrustDB.register` makes it
only after the engine returned. A call stops once per file operation:

| code | actions |
|---|---|
| `CrustDB(path, engine="json")` | `Open` |
| `register_schema` | `Register`, `LoadRows`, `WriteSchema` |
| `insert`, `update`, `delete` | `Insert`, `Update` or `Delete`, then `SaveRows` |
| `find` | `Position`: it changes nothing |
| the process stops, or `read_text` or `write_text` raises | `Crash`, `IoError`, with `PartialWrite` |

A row is what `json.loads` gives back of it: integers, strings, booleans and None
keep their value, and a strict prefix of a list or an object does not parse.
`given` and `unsaved` are not in the code; they name, for the properties, the
contracts a model ever had and the models whose last save failed.

### Abstractions

* A table log is what `replay_operations` makes of it: a table, `Torn` (cut short
  in an append) or `Corrupt` (it parses, and replay refuses an operation). In `Engine`
  a torn table stays torn. `TableLog` has the bytes: what is appended behind half an
  operation is swallowed or does not parse, except in rare alignments, where a short
  operation happens to complete the string that was cut (`io_append`, section 4).
* An index file is the set of entries `load_index` returns, or `NoMap` when it is
  missing or does not load; `IndexFile` shows that this is what a file is.
* In `IndexFile` a page is the list of what it holds, with its length computed from
  the lengths of the keys. Magic, version, page size and names in the header are the
  same in every file the program writes, and are left out, as is the UTF-8 check of
  `decode_key`. Damage done to a file from outside the program is not modelled.
* A string holds bytes of a set `TextBytes`: UTF-8 is a language of bytes, here one
  byte per letter. Counts, record lengths and model names are taken to fit the four
  and two bytes they have; `MaxLen` bounds the bytes a file may have when an
  operation is begun. A migration holds every row it rewrites in memory.
* A default too long for its length field is refused by `save_schemas` with the schema
  in memory already, and again at every later registration: in `SchemaFile` that is
  an action of its own, in `Engine` it is `SaveSchemasRefused`, which leaves the
  model in memory with a schema and no rows. A schema that never reached the file
  does not bind the contract of a later session, while the rows written under it stay
  in the log: number 6 of section 4. The two contracts of `engine_io` that can follow
  each other this way (`UserSchema`, `LongSchema`) have rows the other refuses.
* Values are abstract: their type, an integer's magnitude, whether the key fits an
  index page (`Oversized`), whether a record or the schema file can hold it
  (`Unencodable`).
* The record of a deleted row is dropped: the code keeps and never reads it.
* `RebuildModel` and `SaveIndex` take models and fields in any order. The models
  do come from a `HashMap`; the fields come in name order, so the model allows
  more than the code does.
* A call that validation refuses, that finds no row or whose lookup fails returns
  without a trace and is not a step. `RegisterIncompatible` is one, since the
  test suite speaks of it.
* A completed write survives: the model stops the process, not the machine. The
  code calls `flush`, never `fsync`; nothing is claimed about a power loss.
* One engine per directory and one call at a time: the binding's mutex gives the
  second, nothing in the code gives the first (`SPEC.md:44` excludes it).

Definitions whose comment says "seeded defect" are not part of the model. Each is
a definition of the model with one plausible mistake, and `PROJECT.json` pairs it
with the property that fails when it takes the place of the original.

## 3. Runs

| run | instance | question |
|---|---|---|
| `engine_crash` | 1 model, fields `id` and an optional unique `nick`, 2 schemas of which one is incompatible, ids 1..4, `FairSpec` | do index files, memory and log agree at every point a stop can reach? does every call do what it was asked, once, and return? |
| `engine_two` | 2 models, each may get either of 2 schemas, ids 1..3 | does the shared flag or schema file let one model harm the other? does open always succeed? |
| `engine_io` | 1 model, `FaultySpec`, 2 contracts of which each has rows the other refuses, a value too large for an index page and one too large for a record and, as a default, for the schema file, ids 1..3 | what survives when writes fail or are refused and the engine stays up? |
| `index_file` | bytes of 2 bits, integers of 1 byte, 12 values, pages of 36 bytes, 30 maps saved over each other any number of times | what can a reader find in an index file, wherever a save stopped? do levels, page boundaries and key order fit? |
| `table_log` | bytes of 2 bits, integers of 2 bytes, 3 records of which one does not encode, files up to 48 bytes and one operation more, 4 row ids, new or old format | does memory stay what the file gives, through migrations and stops after any byte of any write? |
| `schema_file` | the same bytes, 2 models, 5 schemas with and without range and with an integer, boolean, text and too long default | is what loads always what was saved, whichever byte a save stopped at? |
| `json_engine` | 1 model, 2 contracts, lists of up to 3 rows, 5 records, 3 changes, 4 filters | what do rows and files of the JSON engine keep through re-registration, failed saves and stops? |
| `long_open`, `long_two_unique`, `long_default`, `io_register`, `io_append` | as above | five counterexamples, section 4 |

Properties:

* `SafetyInv`, `FaultInv`: the inductive invariants of section 5, of `Spec` and of
  `FaultySpec`, checked on `engine_two` and `engine_io`.
* `TypeOK`: every variable holds a value of its kind.
* `CleanImpliesFresh`: when the index manifest says clean, every index file that
  loads holds exactly the entries of the live rows in the log. This is what lets
  `open` skip the rebuild.
* `UniqueInLog`: no two live rows of a log share a unique value.
* `FindMatchesLog`: between calls, `find` gives what a scan of the log would,
  through an index file or not, and does not fail.
* `MemoryMatchesLog`: the rows in memory are what replay of the log gives, and the
  next row id is new to it, also after a failed write.
* `LogReplays`: the engine never writes a log its own replay refuses.
* `StoredRowsValid`: live rows are valid under the persisted schema. It does not hold
  once a schema was used that could not be persisted (section 4).
* `RowsOfOneSchema`: live rows are valid, as a whole, under one of the schemas a caller
  may register, also where an update met a row of another schema than its own.
* `CleanKeepsUp`: while the index manifest says clean, the index files of a model fall
  behind its indexes in memory only if they lagged before the write of another model
  marked the database clean. A write that fails in `save_model`, behind its append,
  must not leave the manifest clean.
* `OpenSucceeds`: open fails only on a damaged manifest, schema file or log.
* `SchemaLocked`: a persisted schema is never replaced or dropped.
* `RegisterOkPersists`: `register_schema` returns Ok only when the schema is on disk.
* `CallsReturn`: once crashes stop, calls return and open succeeds, unless a file
  was damaged before.
* `LookupMatchesLoad`: in any state of an index file, the descent from the root and
  the leaf chain agree about every value; they fail together.
* `ImplementsCell`: an index file implements `IndexCell`. It loads as a map that was
  saved, the last one or (until the next save reaches `File::create`) the one before,
  or not at all; a save that returned Ok can be loaded; only a key or names too long
  for a page are refused, and before the file is touched.
* `LevelsShrink`: the loop that builds internal levels ends.
* `IntegersInOrder`: a file gives integers back in their order, negative ones first.
* `MemoryMatchesFile`: while an engine is up its rows are what the file gives, so
  what it acknowledged is there at the next open.
* `ImplementsTable`: a table file implements `TableCell`, which names the one loss
  there is: a migration cut short leaves the first rows, or a file that does not
  load, of the only copy. Half an operation, at whatever byte, is never read as a
  whole one.
* `AcknowledgedLoads`: an append that returned Ok is what the next open reads. It does
  not hold after a failed append (section 4).
* `MemoryCoversFile`: after a call that returned Ok `schema.crust` gives what the
  engine knows, after one that failed a part of it, if it loads.
* `ImplementsContracts`: the schema file implements `SchemaCell`, so half a save never
  loads as fewer models, a model with fewer fields or a field without its range.
* `ImplementsStore`: the engine implements `TableStore` (section 2).
* `RowsValid`: every row of the JSON engine is valid as a whole under one contract its
  model was given, though rows outlive contracts and updates start from such rows.
* `UniqueRows`: a model that only ever had one contract keeps its unique values unique,
  in memory and in its file.
* `FileMatchesMemory`: memory and file agree, but while a save runs or after it failed.

Why the bounds are enough. Two rows are needed for a uniqueness conflict, a third
id for an insert after a delete and a reopen; `MaxRowId` 4 gives three usable ids,
3 gives two (`Insert` stops below the largest id, where the real counter would
saturate at 2^64 - 1). Two indexed fields are needed for a stop between two index
files, two models for the shared flag. Record and filter sets hold equal and
different values of a unique field, an absent optional value, an invalid record
and a filter on one indexed field, on two fields and on a value no row has.
In `engine_io` id 3 is out of the range of one contract and a null nickname is refused
by the other, and the changes an update may ask include one that only one of them
accepts.
Crashes are not bounded: a run explores any number of them.

Page headers have 13 bytes as in the code, keys 1 to 13 (and one 14), so that a leaf
holds one or two entries and an internal page two or three children: files of up to five
levels, where real pages of 4096 bytes would need very many rows. One string key fills a
leaf to the last byte and another is a byte too long; two keys share a page exactly and
two miss it by a byte. `HeaderLen` fills its page exactly; longer names are refused as
they are before the file is created. The thirty maps are every choice of four keys of
different lengths, all values, all but one of them, the integers, and one that is
refused: a save meets files with more pages, with fewer and with other keys. In
`table_log` 48 bytes hold three to six operations, so that an insert follows a delete of
the newest row and a reopen, and row id 4 is the bound `Engine` uses too; at the bound
the caller can still crash and load, so nothing blocks. The strings are as long as a
length byte of base 4 allows, and one longer; integers have both signs. In `schema_file`
two models and every kind of schema fill the file in any order, so that a cut can fall
between two models, two fields and the two bounds of a range. In `json_engine` three
rows are a first, a middle and a last one: an update or a delete has rows before and
behind it. The second contract makes `nick`, unique and optional in the first, required
and not unique, and knows no `id`, so that rows of each are invalid under the other.

Fairness. `Fairness` is weak fairness of `Work`, the steps of the handler that
runs: a call is synchronous code that does not wait for anything. `WF_vars(Open)`
says that somebody reopens a database whose process stopped. Calls themselves and
crashes have no fairness. `CallsReturn` assumes that crashes stop at some time,
and allows open to fail forever when a file it needs was cut short, which the
code does not repair.

## 4. Disagreements found

1. `long_open`: a unique value of more than about 4 KB is appended to the log
   before its index page refuses it; every later open tries to rebuild that index
   and fails, though `SPEC.md:81` and `SPEC.md:408` call indexes rebuildable. Until
   then the row is live in memory and log, and `find` on a unique field, which asks
   the old index file, does not see it.
2. `long_two_unique`: a write of another model then marks the database clean, the
   stale index is loaded by a later open, and a duplicate is accepted
   (`README.md:40`).
3. `io_register`: registering again after a failed write of `schema.crust` returns
   Ok without writing it (`tests/test_persistence.py:31`).
4. `long_default`: a model whose register failed half way, because a write failed or,
   without any failure, because a default is longer than 65535 bytes, is known with no
   rows in memory. The engine takes inserts for it; after a reopen and another such
   register an insert starts at row id 1 again and the log refuses its own replay
   (`README.md:18`): not at the next open, which does not know the model while its
   schema is in no file, but where `load_rows` runs for it, in the next register that
   gets as far, or in open once the schema is in `schema.crust`. It concerns callers of
   the `Engine` itself: `database.py` makes a model's table only after its register
   returned.
5. `io_append`: an append that failed half way leaves its first bytes in the log, and
   the next append goes behind them and returns Ok. The table does not load any more,
   the acknowledged row included (`tests/test_persistence.py:26`, `SPEC.md:81`). In a
   rare alignment it does load: the nine bytes of a delete complete a string that was
   cut, and the row of the insert that had failed comes up with that text in it.
6. What number 3 costs (no run of its own: TLC finds it in seconds on
   `long_default.cfg` with `StoredRowsValid`, `UniqueInLog` or `OpenSucceeds` in place of
   `LogReplays`).
   Registering again after the failure gives the caller a table, and the rows it inserts
   are in the log under a contract that is in no file. After a reopen the model is
   unknown, so that another contract may be registered and persisted for it, and
   `load_rows` validates nothing: the table holds rows its persisted contract forbids
   (`SPEC.md:453`, `README.md:45`). If two of them share a value that contract calls
   unique, no later open succeeds.

Under `FaultySpec` numbers 4 and 6 also break `CleanImpliesFresh`, `UniqueInLog` and
`OpenSucceeds`, so `engine_io` checks what is left: memory against the log, rows whole
under one contract, and index files that do not fall behind unnoticed.

## 5. Proofs

TLAPS checks, for every value of the constants that meets the named assumptions
(`ValuesAssumption`, `TableAssumption`, `IndexAssumption`, `EngineAssumption`,
`JsonAssumption`, `KeyAssumption`, `FormatAssumption`, `LogAssumption`,
`MagicAssumption`, `SchemaAssumption`, `FileAssumption`):

* `TableProofs`: a set of row ids has a least and a greatest element, so that
  `NextRowId` and `FirstMatch` are what they say; the operations of a log give logs.
* `EngineProofs`, types: the operators of the indexes give indexes, and `TypeCorrect ==
  FaultySpec => []TypeOK`. `TypeOK` alone is not inductive: `ReplayUpdate` needs a row
  id and a row in memory, `RebuildModel` a schema for every model left to visit.
  `CallInv` says what the running handler has in hand at each `pc`, and `TypeInv` is the
  two together. `TypeInvStep` has one case per action.

* `EngineProofs`, safety: what `insert` and `remove` make of the indexes of a table are
  the indexes of the table the log then replays to (`InsertIndexes`, `UpdateIndexes`,
  `RemoveIndexes`); a row `check_unique` lets pass keeps the table unique
  (`CheckUnique`, `UniqueAfterWrite`); the id counter stays above the ids in use. With
  these, `SafetyInvariant == Spec => [](TypeInv /\ SafetyInv)` and from it
  `CleanImpliesFresh`, `UniqueInLog`, `FindMatchesLog`, `LogReplays`,
  `StoredRowsValid`, `OpenSucceeds`, `SchemaLocked` and `RegisterOkPersists`, each a
  theorem of `Spec`.
* `EngineProofs`, failures: `FaultInvariant == FaultySpec => [](TypeInv /\ FaultInv)`
  and from it `RowsHaveOneSchema`, `MemoryIsTheLog` and `CleanNeverLags`, the properties
  `RowsOfOneSchema`, `MemoryMatchesLog` and `CleanKeepsUp`, with every file operation
  allowed to fail and whatever does not fit.
* `EngineProofs`, refinement: `EngineImplementsStore`, that every behaviour of `Spec` is
  one of `TableStore` under the mapping of `EngineStore`. `InitIsEmptyStore` and
  `StepsAreStoreSteps` are its two halves; there is one lemma per step a caller can see
  (`InsertAsked`, `UpdateTakesEffect`, `UniqueRefused`, `Stopped`, ...) and one for each
  kind a caller cannot. The abstract guards come from `SafetyInv`: that an update's
  target is the first match of the log from `HitIsFirstMatch`, that the row in hand
  conflicts with none from `RowInHand`, that a refused row does from the index being
  that of the log.
* `JsonProofs`: `JsonTypes`, `JsonRowsValid`, `JsonUniqueRows` and
  `JsonFileMatchesMemory`, under every failure the model has. `TypeOK` needs `CallInv`:
  a call in its later steps has a schema, and rows where it saves them. Valid rows need
  that the schema in memory is one of the contracts given; unique rows need valid ones,
  because a model without a contract has then no rows to differ. `NoNewLists` is the
  step they share: every step but the first of an insert, update or delete only
  copies, clears or spoils a list.
* `KeyProofs`: `KeyReadBack`, that `decode_key` gives a value back from its key, and
  `IntegerOrder`, that keys have the order of the integers, because the digits of
  `to_be_bytes` compare as numbers do (`BigEndianOrder`). The order of keys is a strict
  total order, and the elements of a finite set have ranks in it (`EveryRank`): this is
  what `sorted_encoded_entries` sorts by.
* `IndexFileProofs`: `IndexFileTypes`, `LookupIsLoad`, `LoopEnds`, `LoadedInOrder` and
  `PagesImplementCell`, the properties `TypeOK`, `LookupMatchesLoad`, `LevelsShrink`,
  `IntegersInOrder` and `ImplementsCell` of `IndexFile`, for every page size, every set
  of keys and trees of any height.
* `ByteProofs`: `RecordReadBack`, the round trip of `encode_record` and
  `decode_record`, from the round trips of numbers, strings and values. Every lemma of
  a reader has two parts: it reads a part back where it stands (`At`), and it fails
  where the input ends inside of the part (`CutAt`). The second is what a write that
  was cut short leaves, and what the two modules below need. `CountedMap` and
  `AllItems` are the two loops, for whatever their entries and items are.
* `TableLogProofs`: `LogTypes`, `MemoryIsTheFile` and `BytesImplementTable`, the
  properties `TypeOK`, `MemoryMatchesFile` and `ImplementsTable` of `TableLog`.
* `SchemaFileProofs`: `SchemasReadBack`, that `load_schemas` gives back what
  `save_schemas` wrote, and `SchemaTypes`, `MemoryCoversTheFile` and
  `BytesImplementContracts`, the properties `TypeOK`, `MemoryCoversFile` and
  `ImplementsContracts` of `SchemaFile`.

`SafetyInvariant`, the eight theorems that follow from it and `EngineImplementsStore`
assume `Storable`: every value fits an index page and every default the schema file.
Both parts are needed: without the first `long_open` and
`long_two_unique` refute two of them, without the second numbers 4 and 6 of section 4
others. They
are theorems of `Spec`, where the process may stop anywhere but file operations do
not fail; with failing ones
(`FaultySpec`) `io_register` refutes one. `TypeCorrect` and the four theorems of
`FaultySpec` need neither.

None of the safety properties is inductive. Take `CleanImpliesFresh`: that
`MarkClean` may say clean needs every index file of every model to be in step,
though the handler has only written one model's. `SafetyInv` is the argument, in
named parts:

* `Placed` says which operation and task can be where.
* `RowsKept` and `SchemasKept`: once loaded, the rows in memory are those of the
  log and the schemas those of the file, but for a model in the middle of its
  first registration. This is where `NothingUnnamed` is needed: a model the schema
  file does not name has no log and no index files, so that registering it finds
  an empty table.
* `RowInHand`: from `ValidateUnique` to the append, the row in hand is valid and
  conflicts with no row of the log but the one it replaces, and the row id is new
  (insert) or live (update, delete). `Above` bounds the ids in use by the counter.
* `OthersSteady` and `BuiltInHand`: every model is steady (the indexes in memory
  and in its files are those of its log) but for those the handler has still to
  see to, and for these what it has built is right.
* `MarkedDirty`: from `mark_dirty` to `mark_clean` the manifest does not say
  clean. With the two before, a crash anywhere leaves `CleanImpliesFresh`.

`FaultInv` is what is left of this when a handler may return at every file operation,
with an error, and the engine goes on. Its parts do not need each other, so that each
has a lemma of its own through all steps.

* `RowsChecked`: the row on its way to a log was checked as a whole against the schema
  in memory, whichever contract the rows around it come from.
* `MemoryKept`: rows and counter of a model with rows in memory are those of its log,
  if that can be read. A model without rows in memory has its counter at the first id,
  which a log with operations has used: where its insert goes behind such a log
  (number 4 of section 4) replay refuses the log, and nothing is claimed about it.
* `IndexesInHand` and `MarkedDirty`: what the handler has not saved yet it still has to
  save, and before it marks the database clean nothing of its model is left. It can say
  so of its own model only, which is what `CleanKeepsUp` claims.

`SafetyInvStep` has one lemma per action. `FindAnswersTheLog` needs one step more:
a log with unique values has at most one row for a value, so the hit of the index
is the first match of the scan (`HitIsFirstMatch`).

The properties of the two files are about what any bytes in them load as, so their
invariants say which bytes there are. In `TableLog` (`LogInv`, in `FileInv` and
`CallInv`) they are `Stored`, no bytes or the bytes of operations whose replay is a
table; `Old`, the records of a legacy file; or `HalfDone`, bytes that do not load, which
only a caller that is down has. That `MemoryMatchesFile` alone is not inductive shows at
`AppendOperation`: memory and file stay equal only because the operation in hand applies
to the table (`Applicable`: a new id, or a live row) and because bytes that loaded are a
log that ends with an operation. `LogCut` is the heart of it: a log cut inside of its last
operation does not load. In `SchemaFile` (`SchemaInv`) the bytes are those of some
contracts or do not load, since `SchemasReadBack` covers what was written and
`CutSchemas` what was cut.

In `IndexFile` the invariant (`FileInv`) says what the pages are, at every turn of
`build_index_pages` and in the file. Each page stands for a span `lo[id]..hi[id]` of the
sorted entries. `Forest` says that a leaf holds the entries of its span and links to the
leaf behind it, and that an internal page has over its children, all built before it, a
`Row` of spans, each beginning where the one before ends. `Grown` says that the level on
top is such a row over all entries, which one turn keeps (`InternalLevel`) and the leaf
level begins (`LeafLevel`). A file is `Whole` when it has all pages of a forest whose
root spans everything. `Written` says that the file, while it is written, is the first
pages of that image, which do not load because the header counts more of them. Reading
is proved from the spans alone: `child_for_key` keeps the position of a key within the
span of the page (`ChildAround`), a child has a smaller id than its parent, so that a
descent ends within `page_count` pages (`DescentReaches`), and the leaf chain goes through
the spans from left to right (`ChainFound`). `LookupIsLoad` and `PagesImplementCell`
follow from these (`WholeFinds`, `WholeLoads`). The packing needs an invariant of its
own (`PackInv`): no group is longer than a page, and every group but the last has two
children or more (`PackingShrinks`), which is why `LoopEnds` holds. That rests on
`internal_separator_len` and `leaf_entry_len` counting alike: a key that fits a leaf
fits an internal page beside a first child.

The assumptions about constants are what the code has: an integer of the table log
has room for every row id (`LogAssumption`); the magic `CRUSTTB1`, read as the length of a
legacy record, is more than the bytes that follow in a file as short as it
(`MagicAssumption`; the four bytes `CRUS` are a length of more than a gigabyte); the
bounds of a range are `i64` and a `u32` counts the models and the fields of a model
(`SchemaAssumption`, `FormatAssumption`). An index is given at most one row for a value,
as `TableIndexes` keeps it in a map, and finitely many of them; row ids start at 1; the
header of a page fits the page; and what stands for no map is none
(`FileAssumption`). A byte has an even number of values and the tags fit in one
(`KeyAssumption`).

Only model-checked: `CallsReturn` (liveness and `ENABLED` are out of the prover's
reach).

Induction over data is done with the library's fact that a set of numbers has a least
element (`NatSetInduction`, `UpToInduction`), because its induction theorems take an
operator as a parameter, which no prover at hand instantiates. `Recursion` and
`PowerValues` show in this way that recursive functions are what their definitions say.

## 6. Not modelled

* The Python binding (`crates/crustdb_py/src/lib.rs`): one mutex around every call, so
  that the threads of a process run one handler at a time, which is what `Engine`
  has. It translates JSON and errors. A panic would poison the mutex; the `expect`s
  one could come from are unreachable in the core (`TypeCorrect` and the guards of
  `Update` and `Delete`).
* The native adapter and the public API (`python/crustdb/`): they describe models,
  forward calls and keep no state of their own, except that a `Table` is made when
  `register` has returned, which `JsonEngine` has as `tables`.
* Two engines open on one directory: there is no lock, and `SPEC.md:44` excludes it.
  The same goes for threads that share a JSON engine.
* A power loss: the code flushes and never syncs, and promises nothing.
* Files damaged from outside, and a model named `schema`, whose JSON rows would be in
  the file of the schemas.

## 7. What is left

1. A comparison of the two engines: the answers of `JsonEngine` and of `TableStore` to
   the same calls differ where the JSON engine forgets contracts and where Python
   holds values equal that Rust does not.
2. The composition of `Engine` with `TableLog` in place of its abstract table, under
   `FaultySpec`, so that numbers 4 and 5 of section 4 meet in one behaviour.
