----------------------------- MODULE IndexFile -----------------------------
(***************************************************************************)
(* One index file, page by page.  save_index sorts the entries by key,     *)
(* packs them into leaf pages, builds internal pages over them until one   *)
(* page is left, creates the file anew and writes the header and the pages *)
(* one after the other; the process may stop, or a write fail, at any      *)
(* point.  load_index walks the leaf chain, lookup_index descends from the *)
(* root.                                                                   *)
(*                                                                         *)
(* A page is the list of what it holds, and its length is computed from    *)
(* the key lengths.  The header's magic, version, page size and names are  *)
(* those every file of this program has and are left out.                  *)
(***************************************************************************)
EXTENDS IndexKey, FiniteSets

CONSTANTS Values,       \* the values an index may hold
          RowIds,       \* row ids
          NoMap,        \* stands for no entries: the file does not load
          PageSize,     \* PAGE_SIZE
          PageHeader,   \* LEAF_HEADER_LEN, INTERNAL_HEADER_LEN
          HeaderLen,    \* the used length of the header page
          Saves         \* the sets of <<value, row id>> save_index is called with

ASSUME FileAssumption ==
          /\ \A v \in Values : IsKeyValue(v)
          /\ RowIds \subseteq Nat \ {0}
          /\ PageSize \in Nat /\ PageHeader \in 0..PageSize /\ HeaderLen \in Nat
          /\ \A map \in Saves :
                /\ map \subseteq Values \X RowIds /\ IsFiniteSet(map)
                /\ \A p, q \in map : p[1] = q[1] => p = q
          /\ NoMap \notin Saves /\ NoMap \notin Nat
          /\ NoMap \notin Seq(Values \X RowIds)

VARIABLES
    pages,      \* the whole pages in the file, the header first
    torn,       \* some bytes of another page follow them
    pc,         \* where save_index is
    entries,    \* the entries it was called with
    sorted,     \* the same, encoded and in the order of their keys
    built,      \* the pages built so far
    level,      \* PageRefs of the level built last
    outcome     \* how the last save ended

vars == <<pages, torn, pc, entries, sorted, built, level, outcome>>

file == <<pages, torn>>

EncodedEntry == [key : Seq(Bytes), row_id : RowIds]

NoPage == -1

(* key length, key, and a row id or a page id                              *)
EntryLen(key) == 2 + Len(key) + 8

-----------------------------------------------------------------------------
(***************************************************************************)
(* sorted_encoded_entries                                                  *)
(***************************************************************************)
Encoded(map) == {[key |-> encode_key(p[1]), row_id |-> p[2]] : p \in map}

DuplicateKeys(map) ==
    \E p, q \in map : p # q /\ encode_key(p[1]) = encode_key(q[1])

Rank(entry, encoded) == Cardinality({e \in encoded : KeyLess(e.key, entry.key)})

SortedEntries(map) ==
    [i \in 1..Cardinality(map) |->
        CHOOSE entry \in Encoded(map) : Rank(entry, Encoded(map)) = i - 1]

-----------------------------------------------------------------------------
(***************************************************************************)
(* Packing items into groups that fit a page: an item starts a new group   *)
(* when the current one has no room left for it.  The entries of a leaf    *)
(* all cost their length, the first child of an internal page has no       *)
(* separator and costs nothing.  A packing is where its groups start.      *)
(***************************************************************************)
(* Seeded defect: one byte too many.                                       *)
NoRoomBut(used, cost) == used + cost > PageSize + 1

NoRoom(used, cost) == used + cost > PageSize

Packings == [starts : Seq(Nat), used : Nat]

(* One turn of the loop, for item i.                                       *)
Pack(i, first, cost) ==
    [packing \in Packings |->
        IF packing.starts = <<>> \/ NoRoom(packing.used, cost)
        THEN [starts |-> Append(packing.starts, i), used |-> PageHeader + first]
        ELSE [starts |-> packing.starts, used |-> packing.used + cost]]

Starts(firsts, costs) ==
    LET after[i \in 0..Len(costs)] ==
            IF i = 0 THEN [starts |-> <<>>, used |-> PageHeader]
            ELSE Pack(i, firsts[i], costs[i])[after[i - 1]]
    IN  after[Len(costs)].starts

Groups(items, starts) ==
    [g \in DOMAIN starts |->
        SubSeq(items, starts[g],
               IF g = Len(starts) THEN Len(items) ELSE starts[g + 1] - 1)]

LeafGroups(items) ==
    LET lens == [i \in DOMAIN items |-> EntryLen(items[i].key)]
    IN  Groups(items, Starts(lens, lens))

SeparatorLens(children) == [i \in DOMAIN children |-> EntryLen(children[i].first_key)]

(* Seeded defect: the first child pays for a separator it does not have.   *)
SeparatedGroups(children) ==
    Groups(children, Starts(SeparatorLens(children), SeparatorLens(children)))

(* group_internal_children                                                 *)
InternalGroups(children) ==
    Groups(children, Starts([i \in DOMAIN children |-> 0], SeparatorLens(children)))

-----------------------------------------------------------------------------
(***************************************************************************)
(* Pages                                                                   *)
(***************************************************************************)
LeafPage(group, next) == [kind |-> "leaf", next |-> next, entries |-> group]

Separators(children) ==
    [i \in 1..(Len(children) - 1) |->
        [key |-> children[i + 1].first_key, child |-> children[i + 1].page_id]]

InternalPage(children) ==
    [kind |-> "internal", first |-> children[1].page_id,
     separators |-> Separators(children)]

UsedLen(page) ==
    LET items == IF page.kind = "leaf" THEN page.entries ELSE page.separators
        upTo[i \in 0..Len(items)] ==
            IF i = 0 THEN PageHeader ELSE upTo[i - 1] + EntryLen(items[i].key)
    IN  upTo[Len(items)]

(* finish_page                                                             *)
TooLarge(page) == UsedLen(page) > PageSize

PageRef(id, key) == [page_id |-> id, first_key |-> key]

NextLeaf(groups, i) == IF i < Len(groups) THEN i ELSE NoPage

(* An index without entries is one empty leaf, whose ref has no key.       *)
LeafPages(groups) ==
    IF groups = <<>>
    THEN <<LeafPage(<<>>, NoPage)>>
    ELSE [i \in DOMAIN groups |-> LeafPage(groups[i], NextLeaf(groups, i))]

LeafRefs(groups) ==
    IF groups = <<>>
    THEN <<PageRef(0, <<>>)>>
    ELSE [i \in DOMAIN groups |-> PageRef(i - 1, groups[i][1].key)]

InternalPages(groups) == [i \in DOMAIN groups |-> InternalPage(groups[i])]

(* Seeded defect: the id is taken after the page was pushed.               *)
LaterRefs(groups, firstId) ==
    [i \in DOMAIN groups |-> PageRef(firstId + i, groups[i][1].first_key)]

InternalRefs(groups, firstId) ==
    [i \in DOMAIN groups |-> PageRef(firstId + i - 1, groups[i][1].first_key)]

Header ==
    [kind |-> "header", root |-> level[1].page_id,
     page_count |-> Len(built), entry_count |-> Len(sorted)]

Image == <<Header>> \o built

-----------------------------------------------------------------------------
(***************************************************************************)
(* save_index                                                              *)
(***************************************************************************)
Return(result) ==
    /\ pc' = "idle" /\ outcome' = result /\ entries' = NoMap
    /\ sorted' = <<>> /\ built' = <<>> /\ level' = <<>>

Init ==
    /\ pages = <<>> /\ torn = FALSE
    /\ pc = "idle" /\ outcome = "none" /\ entries = NoMap
    /\ sorted = <<>> /\ built = <<>> /\ level = <<>>

SaveIndex(map) ==
    /\ pc = "idle"
    /\ pc' = "sort" /\ entries' = map /\ outcome' = "none"
    /\ UNCHANGED <<pages, torn, sorted, built, level>>

SortEntries ==
    /\ pc = "sort"
    /\ IF DuplicateKeys(entries)
       THEN Return("refused")
       ELSE /\ sorted' = SortedEntries(entries) /\ pc' = "leaves"
            /\ UNCHANGED <<entries, built, level, outcome>>
    /\ UNCHANGED file

BuildLeafLevel ==
    /\ pc = "leaves"
    /\ \E groups \in {LeafGroups(sorted)} : \E leaves \in {LeafPages(groups)} :
          IF \/ \E i \in DOMAIN sorted : NoRoom(PageHeader, EntryLen(sorted[i].key))
             \/ \E i \in DOMAIN leaves : TooLarge(leaves[i])
          THEN Return("refused")
          ELSE /\ built' = leaves /\ level' = LeafRefs(groups)
               /\ pc' = "build"
               /\ UNCHANGED <<entries, sorted, outcome>>
    /\ UNCHANGED file

(* One turn of the loop of build_index_pages.                              *)
BuildLevel ==
    /\ pc = "build" /\ Len(level) > 1
    /\ \E groups \in {InternalGroups(level)} : \E internal \in {InternalPages(groups)} :
          IF \/ \E i \in 2..Len(level) : NoRoom(PageHeader, EntryLen(level[i].first_key))
             \/ \E i \in DOMAIN internal : TooLarge(internal[i])
          THEN Return("refused")
          ELSE /\ built' = built \o internal
               /\ level' = InternalRefs(groups, Len(built))
               /\ UNCHANGED <<pc, entries, sorted, outcome>>
    /\ UNCHANGED file

(* encode_header_page, then File::create                                   *)
CreateFile ==
    /\ pc = "build" /\ Len(level) = 1
    /\ IF HeaderLen > PageSize
       THEN Return("refused") /\ UNCHANGED file
       ELSE /\ pages' = <<>> /\ torn' = FALSE /\ pc' = "write"
            /\ UNCHANGED <<entries, sorted, built, level, outcome>>

WritePage ==
    /\ pc = "write" /\ Len(pages) < Len(Image)
    /\ pages' = Append(pages, Image[Len(pages) + 1])
    /\ UNCHANGED <<torn, pc, entries, sorted, built, level, outcome>>

Flush ==
    /\ pc = "write" /\ Len(pages) = Len(Image)
    /\ Return("ok")
    /\ UNCHANGED file

(* The process stops, or a file operation fails: the page being written    *)
(* may be there in part.                                                   *)
Interrupt ==
    /\ pc # "idle"
    /\ Return("interrupted")
    /\ torn' \in IF pc = "write" /\ Len(pages) < Len(Image) THEN BOOLEAN ELSE {torn}
    /\ UNCHANGED pages

Next ==
    \/ \E map \in Saves : SaveIndex(map)
    \/ SortEntries \/ BuildLeafLevel \/ BuildLevel \/ CreateFile \/ WritePage \/ Flush
    \/ Interrupt

Spec == Init /\ [][Next]_vars

-----------------------------------------------------------------------------
(***************************************************************************)
(* Reading: read_header, read_page, load_index and lookup_index of a file  *)
(* with the whole pages P and, if partial, some bytes more.  NoMap is an   *)
(* error.                                                                  *)
(***************************************************************************)
(* Seeded defect: the length of the file is not compared with the header.  *)
HeaderThere(P, partial) == P # <<>>

HeaderOk(P, partial) ==
    /\ P # <<>>
    /\ P[1].page_count # 0
    /\ P[1].root < P[1].page_count
    /\ ~partial /\ Len(P) = 1 + P[1].page_count

NotAPage == [kind |-> "none"]

ReadPage(P, id) ==
    IF id \in 0..(P[1].page_count - 1) /\ id + 2 <= Len(P) THEN P[id + 2] ELSE NotAPage

(* parse_leaf_page, parse_internal_page: the kind, and keys that rise.     *)
Rising(items) ==
    \A i \in 1..(Len(items) - 1) : KeyLess(items[i].key, items[i + 1].key)

IsLeaf(page) == page.kind = "leaf" /\ Rising(page.entries)
IsInternal(page) == page.kind = "internal" /\ Rising(page.separators)

(* The leaf reached from the root when down[id] is the page below the page *)
(* id, which for a page that is not internal is itself; NoPage when there  *)
(* is none among page_count pages.                                         *)
Descent(P, down) ==
    LET deepest == P[1].page_count - 1
        at[n \in 0..deepest] == IF n = 0 THEN P[1].root ELSE down[at[n - 1]]
    IN  IF ReadPage(P, at[deepest]).kind = "leaf" THEN at[deepest] ELSE NoPage

(* Seeded defect: a key equal to the separator goes left.                  *)
ChildBefore(page, key) ==
    LET passed == {i \in DOMAIN page.separators : KeyLess(page.separators[i].key, key)}
    IN  IF passed = {} THEN page.first ELSE page.separators[Max(passed)].child

(* The child of the last separator that is not greater than the key.       *)
child_for_key(page, key) ==
    LET passed == {i \in DOMAIN page.separators : ~KeyLess(key, page.separators[i].key)}
    IN  IF passed = {} THEN page.first ELSE page.separators[Max(passed)].child

(* leftmost_leaf_page_id                                                   *)
Leftmost(P) ==
    [id \in Int |->
        IF IsInternal(ReadPage(P, id)) THEN ReadPage(P, id).first ELSE id]

Toward(P, key) ==
    [id \in Int |->
        IF IsInternal(ReadPage(P, id)) THEN child_for_key(ReadPage(P, id), key) ELSE id]

(* One turn of the loop of load_index; it stays where there is no leaf.    *)
Chains == [at : Int, found : Seq(EncodedEntry)]

NextInChain(P) ==
    [chain \in Chains |->
        IF IsLeaf(ReadPage(P, chain.at))
        THEN [at |-> ReadPage(P, chain.at).next,
              found |-> chain.found \o ReadPage(P, chain.at).entries]
        ELSE chain]

(* The entries of the leaf chain, and NoPage when that is all of it.       *)
LeafChain(P) ==
    LET after[n \in 0..P[1].page_count] ==
            IF n = 0 THEN [at |-> Descent(P, Leftmost(P)), found |-> <<>>]
            ELSE NextInChain(P)[after[n - 1]]
    IN  after[P[1].page_count]

(* What load_index makes of the entries found: an error when the keys do   *)
(* not rise over the whole chain, are not entry_count or do not decode.    *)
Decoded(P) ==
    [found \in Seq(EncodedEntry) |->
        IF /\ Rising(found) /\ Len(found) = P[1].entry_count
           /\ \A i \in DOMAIN found : decode_key(found[i].key) # Undecodable
        THEN [i \in DOMAIN found |-> <<decode_key(found[i].key), found[i].row_id>>]
        ELSE NoMap]

(* load_index: an error too when a page of the chain is not a leaf, or     *)
(* when there are more than page_count.                                    *)
LoadIndex(P, partial) ==
    IF /\ HeaderOk(P, partial)
       /\ Descent(P, Leftmost(P)) # NoPage
       /\ LeafChain(P).at = NoPage
    THEN Decoded(P)[LeafChain(P).found]
    ELSE NoMap

NotFound == 0

(* find_in_leaf, of the leaf page id                                       *)
FindInLeaf(P, key) ==
    [id \in Int |->
        IF IsLeaf(ReadPage(P, id))
        THEN LET leaf == ReadPage(P, id).entries
                 hits == {i \in DOMAIN leaf : leaf[i].key = key}
             IN  IF hits = {} THEN NotFound ELSE leaf[CHOOSE i \in hits : TRUE].row_id
        ELSE NoMap]

LookupIndex(P, partial, value) ==
    LET key == encode_key(value)
    IN  IF ~HeaderOk(P, partial) THEN NoMap
        ELSE IF P[1].entry_count = 0 THEN NotFound
        ELSE FindInLeaf(P, key)[Descent(P, Toward(P, key))]

(* load_model: the entries an engine gets from the file.                   *)
LoadedMap ==
    LET loaded == LoadIndex(pages, torn)
    IN  IF loaded = NoMap THEN NoMap ELSE ToSet(loaded)

-----------------------------------------------------------------------------
(***************************************************************************)
(* Properties                                                              *)
(***************************************************************************)
(* No page is longer than a page, page ids name pages that are there, and  *)
(* only a save in progress holds pages that are not in the file.           *)
TypeOK ==
    /\ pc \in {"idle", "sort", "leaves", "build", "write"}
    /\ outcome \in {"none", "ok", "refused", "interrupted"}
    /\ torn \in BOOLEAN
    /\ entries \in Saves \cup {NoMap}
    /\ (pc = "idle") = (entries = NoMap)
    /\ sorted \in Seq(EncodedEntry)
    /\ \A i \in 2..Len(pages) : ~TooLarge(pages[i])
    /\ \A i \in DOMAIN built : ~TooLarge(built[i])
    /\ \A i \in DOMAIN level : level[i].page_id \in 0..(Len(built) - 1)
    /\ (level # <<>>) = (pc \in {"build", "write"})

(* Whatever save_index left behind, the descent from the root and the leaf *)
(* chain agree on every value that can be searched, in the index or not:   *)
(* lookup_index gives the row load_index gives the value, finds nothing    *)
(* where load_index has nothing, and fails exactly when load_index does.   *)
LookupMatchesLoad ==
    LET map == LoadedMap
    IN  \A v \in Values :
            LET hits == {p \in map : p[1] = v}
                id == LookupIndex(pages, torn, v)
            IN  IF map = NoMap THEN id = NoMap
                ELSE IF hits = {} THEN id = NotFound
                ELSE hits = {<<v, id>>}

(* The loop of build_index_pages ends: each turn leaves fewer pages on top *)
(* than it found, however the key lengths fall on the page boundaries.     *)
LevelsShrink == [][pc = "build" /\ pc' = "build" => Len(level') < Len(level)]_vars

(* encode_key keeps the order of integers, negative ones included: a file  *)
(* gives them back from the smallest to the largest.                       *)
IntegersInOrder ==
    LET loaded == LoadIndex(pages, torn)
    IN  loaded # NoMap =>
            \A i, j \in DOMAIN loaded :
                (i < j /\ loaded[i][1].type = "int" /\ loaded[j][1].type = "int")
                    => loaded[i][1].payload[1] < loaded[j][1].payload[1]

(* A key does not fit a leaf page, or the names the header page.           *)
TooLong(map) ==
    \/ HeaderLen > PageSize
    \/ \E p \in map : PageHeader + EntryLen(encode_key(p[1])) > PageSize

(* The file implements IndexCell: it loads as the entries of the last save *)
(* that wrote its last page, or, until the next save reaches File::create, *)
(* of the one before, and else not at all; a save that returns Ok can be   *)
(* loaded, and only keys or names that are too long are refused.           *)
Cell == INSTANCE IndexCell WITH
            Maps <- Saves, Refusable <- TooLong,
            cell <- LoadedMap, saving <- entries

ImplementsCell == Cell!Spec
=============================================================================
