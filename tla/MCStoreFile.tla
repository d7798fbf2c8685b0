---------------------------- MODULE MCStoreFile ----------------------------
(***************************************************************************)
(* Files for the model checker.  A file is laid out from the contents of a *)
(* store, independently of the reader and the writer: the header, the      *)
(* allocator at its offset, and a header block at the address of each      *)
(* block that has one.                                                     *)
(***************************************************************************)
EXTENDS StoreLayout, TLC

MCMagic == 77
MCPageSize == 4096
MCDSDB == 50
MCNoBlock == 99
Other == 51

(* The contents of a store: the position of the allocator, the addresses,  *)
(* each a multiple of Unit and a size in the low bits, the directory, the  *)
(* free lists, and the header blocks by the number of their block.         *)
Content(offset, unknown, addresses, directory, free, blocks) ==
  [offset |-> offset, unknown |-> unknown, addresses |-> addresses,
   directory |-> directory, free |-> free, blocks |-> blocks]

Entry(name, block) == [name |-> name, block |-> block]

HeaderBlock(root) == <<root, 1, 2, 1, MCPageSize>>

(* The addresses, padded with zeros to a multiple of 2. *)
Padded(addresses) == IF Len(addresses) % 2 = 0 THEN addresses ELSE Append(addresses, 0)

RECURSIVE Concat(_)
Concat(seqs) == IF seqs = <<>> THEN <<>> ELSE Head(seqs) \o Concat(Tail(seqs))

HeaderCells(c) == <<1, MCMagic, c.offset, 30, c.offset, 0>>

AllocatorCells(c) ==
  <<Len(c.addresses), c.unknown>> \o Padded(c.addresses)
    \o <<Len(c.directory)>>
    \o Concat([i \in 1 .. Len(c.directory) |-> <<4, c.directory[i].name, c.directory[i].block>>])
    \o Concat([i \in 1 .. Len(c.free) |-> <<Len(c.free[i])>> \o c.free[i]])

At(p, cells) == [k \in p + 1 .. p + Len(cells) |-> cells[k - p]]

(* All cells of the file; what lies between the structures is 0. *)
CellsOf(c) ==
  LET BlockAt(b) == At(1 + (c.addresses[b + 1] \div 4) * 4, c.blocks[b])
      RECURSIVE Blocks(_)
      Blocks(S) == IF S = {} THEN <<>>
                   ELSE LET b == CHOOSE b \in S : TRUE IN BlockAt(b) @@ Blocks(S \ {b})
      used == At(0, HeaderCells(c)) @@ At(1 + c.offset, AllocatorCells(c)) @@ Blocks(DOMAIN c.blocks)
      last == CHOOSE k \in DOMAIN used : \A l \in DOMAIN used : l <= k
  IN  [k \in 1 .. last |-> IF k \in DOMAIN used THEN used[k] ELSE 0]

(* The block that the first entry called DSDB names. *)
RootEntry(c) ==
  CHOOSE b \in DOMAIN c.blocks :
    \E i \in 1 .. Len(c.directory) :
      /\ c.directory[i] = Entry(MCDSDB, b)
      /\ \A k \in 1 .. i - 1 : c.directory[k].name # MCDSDB

(* The slots that the store has when it is loaded. *)
SlotsOf(c) ==
  [s \in HeaderSlots |-> HeaderCells(c)[CHOOSE k \in 1 .. 6 : Slot(HeaderFields[k]) = s]]
  @@ [s \in HeaderBlockSlots |->
        c.blocks[RootEntry(c)][CHOOSE k \in 1 .. 5 : Slot(HeaderBlockFields[k]) = s]]
  @@ (Slot("block_count") :> Len(c.addresses))
  @@ (Slot("unknown") :> c.unknown)
  @@ [s \in {<<"block_addresses", i, 0>> : i \in 0 .. Len(Padded(c.addresses)) - 1} |->
        Padded(c.addresses)[s[2] + 1]]
  @@ (Slot("directory_count") :> Len(c.directory))
  @@ [s \in {<<f, i, 0>> : f \in {"count", "bytes", "block_number"},
                           i \in 0 .. Len(c.directory) - 1} |->
        CASE s[1] = "count" -> 4
          [] s[1] = "bytes" -> c.directory[s[2] + 1].name
          [] OTHER          -> c.directory[s[2] + 1].block]
  @@ [s \in {<<"free_count", i, 0>> : i \in 0 .. Len(c.free) - 1} |-> Len(c.free[s[2] + 1])]
  @@ [s \in UNION {{<<"offsets", i, j>> : j \in 0 .. Len(c.free[i + 1]) - 1} :
                     i \in 0 .. Len(c.free) - 1} |-> c.free[s[2] + 1][s[3] + 1]]

(* The cell at which each free list begins. *)
ListsOf(c) ==
  [i \in 0 .. Len(c.free) - 1 |->
     1 + c.offset + 2 + Len(Padded(c.addresses)) + 1 + 3 * Len(c.directory)
       + Len(Concat([k \in 1 .. i |-> <<Len(c.free[k])>> \o c.free[k]])) + 1]

Whole(c) ==
  [cells |-> CellsOf(c), slots |-> SlotsOf(c), lists |-> ListsOf(c), whole |-> TRUE]

Broken(cells) == [cells |-> cells, slots |-> <<>>, lists |-> <<>>, whole |-> FALSE]

(* One address; the header block before the allocator. *)
One == Content(13, 0, <<8 + 2>>, <<Entry(MCDSDB, 0)>>, <<<<>>, <<>>>>, (0 :> HeaderBlock(0)))

(* The header block after the allocator; free lists; "unknown" is set. *)
Lists == Content(5, 1, <<28 + 2>>, <<Entry(Other, 0), Entry(MCDSDB, 0)>>, <<<<3>>, <<5, 6>>>>,
                 (0 :> HeaderBlock(0)))

(* Two addresses, and two entries called DSDB. *)
Two == Content(21, 0, <<8 + 2, 16 + 2>>, <<Entry(MCDSDB, 1), Entry(MCDSDB, 0)>>, <<<<>>, <<7>>>>,
               (0 :> HeaderBlock(0)) @@ (1 :> HeaderBlock(1)))

(* Three addresses: more than the writer writes. *)
Three == Content(21, 0, <<8 + 2, 16 + 2, 0>>, <<Entry(MCDSDB, 1)>>, <<<<>>, <<>>>>,
                 (0 :> HeaderBlock(0)) @@ (1 :> HeaderBlock(1)))

Wholes == {Whole(One), Whole(Lists), Whole(Two)}

CutOff(f) == {Broken(SubSeq(f.cells, 1, n)) : n \in 0 .. Len(f.cells) - 1}

(* A damaged version, magic number, offset or check copy. *)
Damaged(f) == {Broken([f.cells EXCEPT ![k] = @ + 1]) : k \in {1, 2, 3, 5}}

(* No entry called DSDB, one that is out of range, no address at all, and  *)
(* a page size that is not the usual one.                                  *)
NoDSDB == CellsOf([One EXCEPT !.directory = <<Entry(Other, 0)>>])
OutOfRange == CellsOf([Two EXCEPT !.directory = <<Entry(MCDSDB, 2)>>])
NoAddress == CellsOf([One EXCEPT !.addresses = <<>>, !.blocks = <<>>])
OddPageSize == CellsOf([One EXCEPT !.blocks = (0 :> <<0, 1, 2, 1, 512>>)])

MCFiles ==
  Wholes \union UNION {CutOff(f) \union Damaged(f) : f \in Wholes}
    \union {Broken(NoDSDB), Broken(OutOfRange), Broken(NoAddress), Broken(OddPageSize)}

MCManyAddresses == {Whole(Three)}

(* The files meet what the theorems ask of them. *)
ASSUME FilesAreAsAsked == StoresAreSmall(MCFiles) /\ HeaderBlocksAreApart(MCFiles)

=============================================================================
