------------------------------- MODULE Bookmark -------------------------------
(***************************************************************************)
(* The bookmarks inside 'pBBk' records: _ds_get_data_as_pBBk (dsrecord.cpp)*)
(* reads a header, tables of contents and, for each entry of a table, the  *)
(* item of data it points to, into the fixed arrays of a pBBk_t.           *)
(*                                                                         *)
(* The loop over the tables takes its condition from next_toc_offset, but  *)
(* reads each table at the offset that the header states.                  *)
(***************************************************************************)
EXTENDS BookmarkData

CONSTANTS
  Marks,           \* the bookmarks that are read; see MarksAssumption
  TocSize          \* the tables for which pBBk_t has room, 16

ASSUME MarksAssumption ==
  /\ TocSize \in Nat \ {0}
  /\ \A m \in Marks : IsMark(m)

VARIABLES
  mark,            \* what is read
  pc,              \* "header", "tocs", "entries", "returned" or "overrun"
  toc_offset,      \* the local variable
  toc,             \* pBBk.toc, the tables read so far; toc_index is its length
  next, count,     \* next_toc_offset and count of the table in hand
  entries          \* entries of the table in hand, read so far

vars == <<mark, pc, toc_offset, toc, next, count, entries>>

Init ==
  /\ mark \in Marks
  /\ pc = "header"
  /\ toc_offset = 0
  /\ toc = <<>>
  /\ next = 0 /\ count = 0 /\ entries = <<>>

-----------------------------------------------------------------------------
(* Steps of _ds_get_data_as_pBBk.                                          *)

ReadHeader ==
  /\ pc = "header"
  /\ toc_offset' = mark.toc_offset
  /\ pc' = "tocs"
  /\ UNCHANGED <<mark, toc, next, count, entries>>

(* Mutant: the last two fields of the head are taken for each other. *)
ReadTable_Swapped ==
  /\ pc = "tocs" /\ toc_offset # 0 /\ Len(toc) < TocSize
  /\ next' = mark.tables[mark.toc_offset].count
  /\ count' = mark.tables[mark.toc_offset].next
  /\ entries' = <<>>
  /\ pc' = "entries"
  /\ UNCHANGED <<mark, toc_offset, toc>>

(* The head of a table: data = toc_offset_origin + pBBk.toc_offset, *)
(* whatever the local toc_offset is.                                *)
ReadTable ==
  /\ pc = "tocs" /\ toc_offset # 0 /\ Len(toc) < TocSize
  /\ next' = mark.tables[mark.toc_offset].next
  /\ count' = mark.tables[mark.toc_offset].count
  /\ entries' = <<>>
  /\ pc' = "entries"
  /\ UNCHANGED <<mark, toc_offset, toc>>

(* Mutant: the item is taken at the key. *)
ReadEntry_AtKey ==
  /\ pc = "entries" /\ Len(entries) < count /\ Len(entries) < EntriesSize
  /\ entries' = Append(entries,
                  LET e == EntryAt(mark, mark.toc_offset, Len(entries) + 1)
                  IN [e EXCEPT !.data = mark.items[e.key]])
  /\ UNCHANGED <<mark, pc, toc_offset, toc, next, count>>

ReadEntry ==
  /\ pc = "entries" /\ Len(entries) < count /\ Len(entries) < EntriesSize
  /\ entries' = Append(entries, EntryAt(mark, mark.toc_offset, Len(entries) + 1))
  /\ UNCHANGED <<mark, pc, toc_offset, toc, next, count>>

(* Mutant: toc_offset is left as it is. *)
TableDone_NoNext ==
  /\ pc = "entries" /\ Len(entries) = count
  /\ toc' = Append(toc, TableOf(next, count, entries))
  /\ pc' = "tocs"
  /\ UNCHANGED <<mark, toc_offset, next, count, entries>>

(* toc_offset = next_toc_offset, ++toc_index. *)
TableDone ==
  /\ pc = "entries" /\ Len(entries) = count
  /\ toc' = Append(toc, TableOf(next, count, entries))
  /\ toc_offset' = next
  /\ pc' = "tocs"
  /\ UNCHANGED <<mark, next, count, entries>>

(* The arrays of pBBk_t are full, and the next write is outside of them:   *)
(* the behaviour is no longer defined.                                     *)
Overrun ==
  /\ \/ pc = "tocs" /\ toc_offset # 0 /\ Len(toc) = TocSize
     \/ pc = "entries" /\ Len(entries) < count /\ Len(entries) = EntriesSize
  /\ pc' = "overrun"
  /\ UNCHANGED <<mark, toc_offset, toc, next, count, entries>>

(* toc_count = toc_index. *)
Finish ==
  /\ pc = "tocs" /\ toc_offset = 0
  /\ pc' = "returned"
  /\ UNCHANGED <<mark, toc_offset, toc, next, count, entries>>

Next ==
  ReadHeader \/ ReadTable \/ ReadEntry \/ TableDone \/ Overrun \/ Finish

Spec == Init /\ [][Next]_vars /\ WF_vars(Next)

-----------------------------------------------------------------------------
(* Properties.                                                             *)

Tables(m) == {TableAt(m, o) : o \in DOMAIN m.tables}

Entries(m) ==
  UNION {{EntryAt(m, o, i) : i \in 1 .. m.tables[o].count} : o \in DOMAIN m.tables}

(* s is the chain of tables of m: it begins with the header's, each table  *)
(* is the one its predecessor names, and the last one names none.          *)
IsChain(m, s) ==
  /\ s = <<>> <=> m.toc_offset = 0
  /\ \A k \in 1 .. Len(s) :
       s[k] = TableAt(m, IF k = 1 THEN m.toc_offset ELSE s[k - 1].next)
  /\ s # <<>> => s[Len(s)].next = 0

TypeOK ==
  /\ mark \in Marks
  /\ pc \in {"header", "tocs", "entries", "returned", "overrun"}
  /\ toc_offset \in DOMAIN mark.tables \union {0}
  /\ next \in DOMAIN mark.tables \union {0}
  /\ count \in Nat
  /\ toc \in Seq(Tables(mark)) /\ Len(toc) <= TocSize
  /\ entries \in Seq(Entries(mark)) /\ Len(entries) <= EntriesSize

(* A bookmark that is returned is the whole chain of its tables, with each *)
(* entry's item, although the loop reads the first table over and over:    *)
(* the loop is left only if there is no second one.                        *)
ReturnedIsTheChain == pc = "returned" => IsChain(mark, toc)

(* With no more than one table that has room, the arrays are enough. *)
OneTableFits == OneTable(mark) => pc # "overrun"

(* The loop over the tables ends when the bookmark has no table, or one    *)
(* that has room for its entries.  With more tables it runs out of the     *)
(* array of tables, or, as one table with too many entries does, out of    *)
(* that of entries: it never ends by coming to the end of the chain.       *)
EndsByTables == <>(IF OneTable(mark) THEN pc = "returned" ELSE pc = "overrun")

(* The inductive invariant: all tables in hand are the first one, and      *)
(* after one that names no other the loop is left.                         *)
FirstAgain ==
  /\ \A k \in 1 .. Len(toc) : toc[k] = TableAt(mark, mark.toc_offset)
  /\ toc # <<>> => mark.toc_offset # 0
  /\ pc \in {"tocs", "entries", "returned"} =>
       toc_offset = IF toc = <<>> THEN mark.toc_offset
                    ELSE mark.tables[mark.toc_offset].next
  /\ pc = "entries" => toc_offset # 0
  /\ pc = "returned" => toc_offset = 0
  /\ pc = "header" => toc = <<>>
  /\ Len(toc) > 1 => mark.tables[mark.toc_offset].next # 0

InHand ==
  pc = "entries" =>
    /\ mark.toc_offset # 0
    /\ next = mark.tables[mark.toc_offset].next
    /\ count = mark.tables[mark.toc_offset].count
    /\ Len(entries) <= count
    /\ Len(toc) < TocSize
    /\ \A i \in 1 .. Len(entries) :
         entries[i] = EntryAt(mark, mark.toc_offset, i)

IInv == TypeOK /\ FirstAgain /\ InHand

=============================================================================
