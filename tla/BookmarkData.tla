----------------------------- MODULE BookmarkData -----------------------------
(***************************************************************************)
(* A bookmark and what its tables of contents say, as Bookmark reads it    *)
(* and Conversion shows it.                                                *)
(*                                                                         *)
(* toc_offset is the offset of the first table, tables and items say what  *)
(* is at an offset.  Offsets count from the end of the header; the offset  *)
(* 0 ends a chain of tables.                                               *)
(***************************************************************************)
EXTENDS Naturals, Sequences

CONSTANT EntriesSize     \* the entries for which a table has room, 256

ASSUME EntriesSizeAssumption == EntriesSize \in Nat

(* Every offset that may be followed leads to a table or an item. *)
IsMark(m) ==
  /\ m.toc_offset \in DOMAIN m.tables \union {0}
  /\ \A o \in DOMAIN m.tables :
       /\ m.tables[o].next \in DOMAIN m.tables \union {0}
       /\ DOMAIN m.tables[o].entries = 1 .. m.tables[o].count
       /\ m.tables[o].count \in Nat
       /\ \A i \in 1 .. m.tables[o].count :
            m.tables[o].entries[i].offset \in DOMAIN m.items

(* An entry of the table at o and the item that its offset points to. *)
EntryAt(m, o, i) ==
  [key  |-> m.tables[o].entries[i].key,
   data |-> m.items[m.tables[o].entries[i].offset]]

TableOf(n, c, e) == [next |-> n, count |-> c, entries |-> e]

(* The table at the offset o, with its items. *)
TableAt(m, o) ==
  TableOf(m.tables[o].next, m.tables[o].count,
          [i \in 1 .. m.tables[o].count |-> EntryAt(m, o, i)])

(* The table m has, if it has one, is its only one, and there is room for  *)
(* it.                                                                     *)
OneTable(m) ==
  m.toc_offset # 0 => /\ m.tables[m.toc_offset].next = 0
                      /\ m.tables[m.toc_offset].count <= EntriesSize

=============================================================================
