---------------------------- MODULE StoreLayout ----------------------------
(***************************************************************************)
(* The files that stand for a store, said without reading or writing one:  *)
(* which cell of the file is which field.  The header is at the beginning, *)
(* the allocator at the offset that it names, and the header block at the  *)
(* address of the block that is called DSDB.  The free lists follow one    *)
(* another; lists gives the cell at which each of them begins.             *)
(***************************************************************************)
EXTENDS StoreFile

Holds(cells, k, v) == k \in 1 .. Len(cells) /\ cells[k] = v

(* The addresses come in multiples of Factor.                              *)
NextMultiple(n) == CHOOSE c \in n .. n + Factor - 1 : c % Factor = 0

AddressCount(m) == NextMultiple(m[Slot("block_count")])

(* The cells of block_count and of directory_count. *)
Base(m) == 2 + m[Slot("allocator_offset")]
Directory(m) == Base(m) + 2 + AddressCount(m)

ListStart(m, lists, i) ==
  IF i = 0 THEN Directory(m) + 1 + 3 * m[Slot("directory_count")]
  ELSE lists[i - 1] + 1 + m[<<"free_count", i - 1, 0>>]

(* The first n free lists follow one another.                              *)
Chain(m, lists, n) == \A i \in 0 .. n - 1 : lists[i] = ListStart(m, lists, i)

(* The cell of the slot s of the allocator. *)
Place(m, lists, s) ==
  CASE s[1] = "block_count"     -> Base(m)
    [] s[1] = "unknown"         -> Base(m) + 1
    [] s[1] = "block_addresses" -> Base(m) + 2 + s[2]
    [] s[1] = "directory_count" -> Directory(m)
    [] s[1] = "count"           -> Directory(m) + 1 + 3 * s[2]
    [] s[1] = "bytes"           -> Directory(m) + 2 + 3 * s[2]
    [] s[1] = "block_number"    -> Directory(m) + 3 + 3 * s[2]
    [] s[1] = "free_count"      -> lists[s[2]]
    [] s[1] = "offsets"         -> lists[s[2]] + 1 + s[3]

(* The block that the first directory entry called DSDB names. *)
EntriesOf(m) ==
  {i \in 0 .. m[Slot("directory_count")] - 1 : m[<<"bytes", i, 0>>] = DSDB}

HeaderBlockNumber(m) ==
  IF EntriesOf(m) = {} THEN NoBlock
  ELSE m[<<"block_number", CHOOSE i \in EntriesOf(m) : \A k \in EntriesOf(m) : i <= k, 0>>]

HasHeaderBlock(m) ==
  HeaderBlockNumber(m) # NoBlock /\ HeaderBlockNumber(m) < m[Slot("block_count")]

(* The cell before the header block. *)
HeaderBlockPlace(m) == 1 + BlockOffset(m[<<"block_addresses", HeaderBlockNumber(m), 0>>])

(* A store has the slots of the three structures, and no other. *)
HasSlots(m) ==
  /\ HeaderSlots \union HeaderBlockSlots \subseteq DOMAIN m
  /\ AllRead(m)
  /\ \A s \in DOMAIN m :
       s \in HeaderSlots \union HeaderBlockSlots \/ OnWalk(m, s, AddressCount(m))

ListPlaces == [0 .. FreeLists - 1 -> Nat]

(* The fields of the header and of the allocator are at their places.      *)
HeaderStands(cells, m, n) == \A k \in 1 .. n : Holds(cells, k, m[Slot(HeaderFields[k])])

AllocatorStands(cells, m, lists) ==
  \A s \in DOMAIN m : s[1] \in AllocatorFields => Holds(cells, Place(m, lists, s), m[s])

HeaderBlockStands(cells, m, n) ==
  \A k \in 1 .. n :
    Holds(cells, HeaderBlockPlace(m) + k, m[Slot(HeaderBlockFields[k])])

(* cells is a file of the store m.                                         *)
IsLayout(cells, m, lists) ==
  /\ m \in [DOMAIN m -> Nat] /\ HasSlots(m)
  /\ lists \in ListPlaces /\ Chain(m, lists, FreeLists)
  /\ HeaderStands(cells, m, Len(HeaderFields))
  /\ AllocatorStands(cells, m, lists)
  /\ HeaderBlockStands(cells, m, Len(HeaderBlockFields))
  /\ \A s \in HeaderSlots : HeaderAccepts(s, m)
  /\ HasHeaderBlock(m)
  /\ m[Slot("tree_node_page_size")] = PageSize

(* A whole file is a file of the store that it is said to stand for.       *)
ASSUME LayoutAssumption ==
  /\ \A f \in Files : f.whole => IsLayout(f.cells, f.slots, f.lists)
  /\ PageSize \in Nat \ {0}

-----------------------------------------------------------------------------
(* What is asked of files where a theorem needs more.                      *)

(* No other file is the file of a store.                                   *)
OnlyWholeFilesAreStores ==
  \A f \in Files : ~f.whole => \A m, lists : ~IsLayout(f.cells, m, lists)

(* The addresses fit in the 256 that ds_store_fwrite writes.               *)
StoresAreSmall(files) == \A f \in files : f.whole => f.slots[Slot("block_count")] <= Factor

(* The page size is not in the header or the allocator: the block that it  *)
(* is in is not shared.                                                    *)
PageSizePlace(m) == HeaderBlockPlace(m) + Len(HeaderBlockFields)

HeaderBlocksAreApart(files) ==
  \A f \in files : f.whole =>
    /\ PageSizePlace(f.slots) > Len(HeaderFields)
    /\ \A s \in DOMAIN f.slots :
         s[1] \in AllocatorFields => Place(f.slots, f.lists, s) # PageSizePlace(f.slots)

-----------------------------------------------------------------------------
(* The invariant of reading: what is in memory stands in the file, up to   *)
(* the place of the field at hand.                                         *)

(* What is known when a slot of the allocator is: n free lists have begun. *)
Known(m, s, n) ==
  /\ Slot("block_count") \in DOMAIN m
  /\ OnWalk(m, s, AddressCount(m))
  /\ s[1] \in EntryFields \union {"free_count", "offsets"} => Slot("directory_count") \in DOMAIN m
  /\ s[1] \in {"free_count", "offsets"} => s[2] < n /\ <<"free_count", s[2], 0>> \in DOMAIN m

ReadFrom(cells, m, lists, n, p) ==
  /\ lists \in ListPlaces /\ Chain(m, lists, n)
  /\ \A s \in DOMAIN m : s[1] \in AllocatorFields =>
       Known(m, s, n) /\ Place(m, lists, s) <= p
  /\ AllocatorStands(cells, m, lists)

(* The free lists that have begun when s is next. *)
Begun(s) == IF s[1] \in {"free_count", "offsets"} THEN s[2] + 1 ELSE 0

HeaderRead(n) ==
  /\ HeaderStands(disk, mem, n)
  /\ \A k \in 1 .. n : HeaderAccepts(Slot(HeaderFields[k]), mem)

ReadHeader ==
  /\ \A n \in 1 .. Len(HeaderFields) :
       at = Slot(HeaderFields[n]) => pos + 1 = n /\ HeaderRead(n - 1)
  /\ at \notin HeaderSlots => HeaderRead(Len(HeaderFields))

ReadAllocator(lists) ==
  /\ at \in HeaderSlots \union {SeekAllocator} => DOMAIN mem \subseteq HeaderSlots
  /\ at[1] \in AllocatorFields =>
       /\ ReadFrom(disk, mem, lists, Begun(at), pos)
       /\ pos + 1 = Place(mem, lists, at)
  /\ at \in HeaderBlockSlots \union {Find, SeekHeaderBlock} =>
       ReadFrom(disk, mem, lists, FreeLists, Len(disk))

ReadHeaderBlock ==
  /\ \A s \in DOMAIN mem : s \in HeaderSlots \union HeaderBlockSlots \/ s[1] \in AllocatorFields
  /\ at \notin HeaderBlockSlots => DOMAIN mem \intersect HeaderBlockSlots = {}
  /\ at \in HeaderBlockSlots \union {SeekHeaderBlock} =>
       found = HeaderBlockNumber(mem) /\ HasHeaderBlock(mem)
  /\ \A n \in 1 .. Len(HeaderBlockFields) :
       at = Slot(HeaderBlockFields[n]) =>
         /\ pos + 1 = HeaderBlockPlace(mem) + n
         /\ \A k \in 1 .. n - 1 : Slot(HeaderBlockFields[k]) \in DOMAIN mem
         /\ HeaderBlockStands(disk, mem, n - 1)

Reading ==
  mode = "load" =>
    ReadHeader /\ ReadHeaderBlock /\ \E lists \in ListPlaces : ReadAllocator(lists)

(* What ds_store_fread returns stands in the file in full: every field is  *)
(* where the others say that it is.                                        *)
LoadedStands == result = "loaded" => \E lists \in ListPlaces : IsLayout(disk, mem, lists)

(* The writer is at the place of the field that it writes.                 *)
AtPlace(lists) ==
  mode = "write" =>
    /\ \A k \in 1 .. Len(HeaderFields) : at = Slot(HeaderFields[k]) => pos + 1 = k
    /\ at[1] \in AllocatorFields => pos + 1 = Place(mem, lists, at)

(* A store that fits, in the file that it was read from, is still there.   *)
Kept ==
  owned /\ ~fresh /\ mem[Slot("block_count")] <= Factor =>
    \E lists \in ListPlaces : IsLayout(disk, mem, lists) /\ AtPlace(lists)

NoResultYet == mode # "idle" => result = "none"

LayoutInv == NoResultYet /\ Reading /\ LoadedStands /\ Kept

(* The rewriting of a store that fits changes nothing in the file.         *)
SmallRewriteIsHarmless ==
  [][mode = "write" /\ ~fresh /\ mem[Slot("block_count")] <= Factor => disk' = disk]_vars

-----------------------------------------------------------------------------
(* The list of addresses that is written.                                  *)

WriterAt ==
  mode = "write" =>
    LET begin == 1 + mem[Slot("allocator_offset")] IN
    /\ at = Slot("block_count") => pos = begin
    /\ at = Slot("unknown") => pos = begin + 1
    /\ at[1] = "block_addresses" => pos = begin + 2 + at[2]
    /\ at = Slot("directory_count") => pos = begin + 2 + Factor

(* A list that fits is padded as the reader wants it: the 256 addresses    *)
(* that are written are the next multiple of 256 then.                     *)
SmallListIsPadded ==
  mode = "write" /\ mem[Slot("block_count")] <= Factor => WritesPaddedList

-----------------------------------------------------------------------------
(* The invariant of loading and rewriting the same file.                   *)

(* So much of the file as there is agrees with the header and the          *)
(* allocator of the store m.                                               *)
Agrees(cells, m, lists) ==
  /\ \A k \in 1 .. Len(HeaderFields) : k <= Len(cells) => cells[k] = m[Slot(HeaderFields[k])]
  /\ \A s \in DOMAIN m : s[1] \in AllocatorFields /\ Place(m, lists, s) <= Len(cells) =>
       cells[Place(m, lists, s)] = m[s]

(* A new file has no page size, for the header block is never written.     *)
NewFile ==
  fresh =>
    /\ file.whole
    /\ Agrees(disk, file.slots, file.lists)
    /\ (PageSizePlace(file.slots) <= Len(disk) => disk[PageSizePlace(file.slots)] = 0)

(* It is written from its beginning on, with one gap before the allocator. *)
NoOtherGap ==
  mode = "write" =>
    /\ at \in HeaderSlots \/ (at[1] \in AllocatorFields /\ at # Slot("block_count")) =>
         pos <= Len(disk)
    /\ at \notin HeaderSlots => Len(HeaderFields) <= Len(disk)

SameStore ==
  /\ owned => file.whole /\ mem = file.slots /\ AtPlace(file.lists)
  /\ ~fresh => disk = file.cells

WholeInv == SameStore /\ NewFile /\ NoOtherGap /\ LoadedIsWhole /\ WholeIsLoaded

=============================================================================
