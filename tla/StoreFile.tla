------------------------------ MODULE StoreFile ------------------------------
(***************************************************************************)
(* Reading and writing of the bookkeeping of a store: the header, the      *)
(* state of the buddy allocator and the header block (dsstore.cpp,         *)
(* ds_store_fread and ds_store_fwrite with the functions they call).       *)
(*                                                                         *)
(* A file is a sequence of cells, one for each value that one fread or     *)
(* fwrite transfers; the name of a directory entry is its first four       *)
(* bytes.  A slot <<field, i, j>> is a field of the structures in memory,  *)
(* i and j the indices of the arrays it is in.  The nested loops of the    *)
(* allocator are the walk After over the slots, which the reader and the   *)
(* writer share; they differ in the number of addresses they transfer.     *)
(***************************************************************************)
EXTENDS Integers, Sequences

CONSTANTS
  Files,           \* the files; see FilesAssumption
  Factor,          \* 256: block addresses come in multiples of it
  FreeLists,       \* 32: the number of free lists
  Unit,            \* 32: block addresses are multiples of it
  Word,            \* 2^32
  Magic, PageSize, \* kDSHeaderMagic, dsstore_header_block_tree_node_page_size
  DSDB,            \* the name 'DSDB'
  NoBlock,         \* UINT32_MAX
  MaxCalls         \* how many calls the client makes

(* A file: its cells, the slots it stands for, the cells at which its free *)
(* lists begin, and whether it is whole, neither cut off nor damaged.      *)
ASSUME FilesAssumption ==
  \A f \in Files :
    /\ DOMAIN f = {"cells", "slots", "lists", "whole"}
    /\ f.cells \in Seq(Nat) /\ f.whole \in BOOLEAN

ASSUME SizesAssumption ==
  /\ Factor \in Nat \ {0} /\ Word \in Nat \ {0} /\ Word % Factor = 0
  /\ FreeLists \in Nat \ {0} /\ Unit \in Nat \ {0} /\ MaxCalls \in Nat
  /\ Magic \in Nat /\ NoBlock \in Nat

VARIABLES
  file,            \* the file as the client found it
  disk,            \* its cells now
  pos,             \* the position of the FILE *
  mem,             \* the ds_store_t: the slots that have a value
  mode,            \* "idle", "load" or "write"
  at,              \* the slot that is transferred next, or a place between
  found,           \* header_block_number
  owned,           \* the client has a store that was loaded
  fresh,           \* the client created the file with ds_store_fwrite
  fault,           \* the device has failed in this call
  result,          \* how the last call ended
  calls            \* the calls made so far

vars == <<file, disk, pos, mem, mode, at, found, owned, fresh, fault, result, calls>>

HeaderFields == <<"version", "magic", "allocator_offset", "allocator_size",
                  "allocator_offset_check", "padding">>

HeaderBlockFields == <<"root_block_number", "node_levels", "record_count",
                       "node_count", "tree_node_page_size">>

AllocatorFields == {"block_count", "unknown", "block_addresses", "directory_count",
                    "count", "bytes", "block_number", "free_count", "offsets"}

Slot(field) == <<field, 0, 0>>

HeaderSlots == {Slot(HeaderFields[k]) : k \in 1 .. Len(HeaderFields)}

HeaderBlockSlots == {Slot(HeaderBlockFields[k]) : k \in 1 .. Len(HeaderBlockFields)}

(* The places between the structures. *)
SeekAllocator   == Slot("seek allocator")
Find            == Slot("find DSDB")
SeekHeaderBlock == Slot("seek header block")
Done            == Slot("done")

(* _ds_store::_ds_store; the rest has no value before it is read. *)
Created ==
  [s \in {Slot("version"), Slot("magic"), Slot("allocator_offset"),
          Slot("allocator_size"), Slot("allocator_offset_check")} |->
     CASE s = Slot("version") -> 1
       [] s = Slot("magic")   -> Magic
       [] OTHER               -> 0]

Init ==
  /\ file \in Files
  /\ disk = file.cells
  /\ pos = 0 /\ mem = Created
  /\ mode = "idle" /\ at = Done /\ found = NoBlock
  /\ owned = FALSE /\ fresh = FALSE /\ fault = FALSE
  /\ result = "none" /\ calls = 0

-----------------------------------------------------------------------------
(* Sizes and places.                                                       *)

(* Mutant: the count is rounded down. *)
PaddedCount_Down(n) == n - (n % Factor)

(* block_count + factor - 1 - (block_count - 1) % factor, where the         *)
(* subtraction in parentheses is one of 32 bits.                            *)
PaddedCount(n) == n + Factor - 1 - (((n - 1) % Word) % Factor)

(* Mutant: only the addresses in use are written. *)
WrittenCount_Used(n) == n

(* Mutant: two full arrays are written. *)
WrittenCount_Two(n) == 2 * Factor

(* The writer writes 256 addresses, whatever the count is. *)
WrittenCount(n) == Factor

(* a & ~0x1f *)
BlockOffset(a) == (a \div Unit) * Unit

(* The first slot of directory entry i and of free list i, or what follows *)
(* when there is none.                                                     *)
FreeListFrom(i) == IF i < FreeLists THEN <<"free_count", i, 0>> ELSE Done

EntryFrom(m, i) ==
  IF i < m[Slot("directory_count")] THEN <<"count", i, 0>> ELSE FreeListFrom(0)

OffsetFrom(m, i, j) ==
  IF j < m[<<"free_count", i, 0>>] THEN <<"offsets", i, j>> ELSE FreeListFrom(i + 1)

(* The slot of the allocator that follows s, when n addresses are to be    *)
(* transferred and the values so far are m.                                *)
After(s, m, n) ==
  LET i == s[2]
      AddressFrom(k) == IF k < n THEN <<"block_addresses", k, 0>> ELSE Slot("directory_count")
  IN  CASE s[1] = "block_count"     -> Slot("unknown")
        [] s[1] = "unknown"         -> AddressFrom(0)
        [] s[1] = "block_addresses" -> AddressFrom(i + 1)
        [] s[1] = "directory_count" -> EntryFrom(m, 0)
        [] s[1] = "count"           -> <<"bytes", i, 0>>
        [] s[1] = "bytes"           -> <<"block_number", i, 0>>
        [] s[1] = "block_number"    -> EntryFrom(m, i + 1)
        [] s[1] = "free_count"      -> OffsetFrom(m, i, 0)
        [] s[1] = "offsets"         -> OffsetFrom(m, i, s[3] + 1)

(* The field that follows s in a structure without loops, or last. *)
Following(fields, s, last) ==
  LET k == CHOOSE k \in 1 .. Len(fields) : Slot(fields[k]) = s
  IN  IF k < Len(fields) THEN Slot(fields[k + 1]) ELSE last

(* The checks of dsstore_header_fread after it has read s. *)
HeaderAccepts(s, m) ==
  /\ s = Slot("version") => m[s] = 1
  /\ s = Slot("magic") => m[s] = Magic
  /\ s = Slot("allocator_offset_check") => m[s] = m[Slot("allocator_offset")]

(* Mutant: a page size that is not the usual one is only warned of. *)
HeaderBlockAccepts_Warns(s, m) == TRUE

(* The check of dsstore_header_block_fread: its message is a warning, and  *)
(* its result is an error.                                                 *)
HeaderBlockAccepts(s, m) == s = Slot("tree_node_page_size") => m[s] = PageSize

-----------------------------------------------------------------------------
(* The calls of the client, which opens the file anew for each.            *)

Begin(m) ==
  /\ mode = "idle" /\ calls < MaxCalls
  /\ calls' = calls + 1
  /\ mode' = m /\ at' = Slot(HeaderFields[1]) /\ pos' = 0
  /\ fault' = FALSE /\ result' = "none"

CallFread ==
  /\ Begin("load")
  /\ mem' = Created /\ found' = NoBlock /\ owned' = FALSE
  /\ UNCHANGED <<file, disk, fresh>>

(* Over the file that is there, or to a new one.  The client writes stores *)
(* that it has loaded.  One that it has from ds_store_create alone, of     *)
(* which Created is all that has a value, is not among them.               *)
CallFwrite ==
  /\ owned
  /\ Begin("write")
  /\ \/ UNCHANGED <<disk, fresh>>
     \/ disk' = <<>> /\ fresh' = TRUE
  /\ UNCHANGED <<file, mem, found, owned>>

Return(r) == mode' = "idle" /\ at' = Done /\ result' = r

-----------------------------------------------------------------------------
(* ds_store_fread.                                                         *)

(* One fread into the slot at hand: what is in memory after it. *)
Got == [s \in DOMAIN mem \union {at} |-> IF s = at THEN disk[pos + 1] ELSE mem[s]]

Get ==
  /\ pos < Len(disk)
  /\ mem' = Got
  /\ pos' = pos + 1

(* dsstore_header_fread *)
HeaderFread ==
  /\ mode = "load" /\ at \in HeaderSlots
  /\ Get
  /\ IF HeaderAccepts(at, Got)
     THEN at' = Following(HeaderFields, at, SeekAllocator) /\ UNCHANGED <<mode, result>>
     ELSE Return("not loaded")
  /\ UNCHANGED <<file, disk, found, owned, fresh, fault, calls>>

(* ds_store_seek_buddy_allocator, for the reader and the writer. *)
SeekBuddyAllocator ==
  /\ at = SeekAllocator
  /\ pos' = 1 + mem[Slot("allocator_offset")]
  /\ at' = Slot("block_count")
  /\ UNCHANGED <<file, disk, mem, mode, found, owned, fresh, fault, result, calls>>

(* dsstore_buddy_allocator_state_fread *)
AllocatorFread ==
  /\ mode = "load" /\ at[1] \in AllocatorFields
  /\ Get
  /\ LET next == After(at, Got, PaddedCount(Got[Slot("block_count")]))
     IN  at' = IF next = Done THEN Find ELSE next
  /\ UNCHANGED <<file, disk, mode, found, owned, fresh, fault, result, calls>>

(* The directory entries that are called DSDB. *)
Entries == {i \in 0 .. mem[Slot("directory_count")] - 1 : mem[<<"bytes", i, 0>>] = DSDB}

BlockOf(i) == mem[<<"block_number", i, 0>>]

(* Mutant: the range check is off by one. *)
FindDSDB_OffByOne ==
  /\ mode = "load" /\ at = Find
  /\ found' = IF Entries = {} THEN NoBlock
              ELSE BlockOf(CHOOSE i \in Entries : \A k \in Entries : i <= k)
  /\ IF found' # NoBlock /\ found' <= mem[Slot("block_count")]
     THEN at' = SeekHeaderBlock /\ UNCHANGED <<mode, result>>
     ELSE Return("not loaded")
  /\ UNCHANGED <<file, disk, pos, mem, owned, fresh, fault, calls>>

(* The first entry called DSDB names the header block. *)
FindDSDB ==
  /\ mode = "load" /\ at = Find
  /\ found' = IF Entries = {} THEN NoBlock
              ELSE BlockOf(CHOOSE i \in Entries : \A k \in Entries : i <= k)
  /\ IF found' # NoBlock /\ found' < mem[Slot("block_count")]
     THEN at' = SeekHeaderBlock /\ UNCHANGED <<mode, result>>
     ELSE Return("not loaded")
  /\ UNCHANGED <<file, disk, pos, mem, owned, fresh, fault, calls>>

SeekToHeaderBlock ==
  /\ mode = "load" /\ at = SeekHeaderBlock
  /\ pos' = 1 + BlockOffset(mem[<<"block_addresses", found, 0>>])
  /\ at' = Slot(HeaderBlockFields[1])
  /\ UNCHANGED <<file, disk, mem, mode, found, owned, fresh, fault, result, calls>>

(* dsstore_header_block_fread, and the return of the store. *)
HeaderBlockFread ==
  /\ mode = "load" /\ at \in HeaderBlockSlots
  /\ Get
  /\ LET next == Following(HeaderBlockFields, at, Done)
     IN  IF ~HeaderBlockAccepts(at, Got) THEN Return("not loaded") /\ UNCHANGED owned
         ELSE IF next = Done THEN Return("loaded") /\ owned' = TRUE
         ELSE at' = next /\ UNCHANGED <<mode, result, owned>>
  /\ UNCHANGED <<file, disk, found, fresh, fault, calls>>

(* The file ends before the value, or the device fails. *)
FreadFails ==
  /\ mode = "load"
  /\ at \notin {SeekAllocator, Find, SeekHeaderBlock}
  /\ fault' \in BOOLEAN /\ (fault' <=> pos < Len(disk))
  /\ Return("not loaded")
  /\ UNCHANGED <<file, disk, pos, mem, found, owned, fresh, calls>>

(* fseek fails, in the reader or in the writer. *)
SeekFails ==
  /\ at \in {SeekAllocator, SeekHeaderBlock}
  /\ fault' = TRUE
  /\ Return(IF mode = "load" THEN "not loaded" ELSE "not written")
  /\ UNCHANGED <<file, disk, pos, mem, found, owned, fresh, calls>>

-----------------------------------------------------------------------------
(* ds_store_fwrite.                                                        *)

(* What an fwrite of v makes of the file: a gap after its end reads as 0.  *)
Put(v) ==
  [k \in 1 .. (IF pos < Len(disk) THEN Len(disk) ELSE pos + 1) |->
     IF k = pos + 1 THEN v ELSE IF k <= Len(disk) THEN disk[k] ELSE 0]

(* dsstore_header_fwrite *)
HeaderFwrite ==
  /\ mode = "write" /\ at \in HeaderSlots
  /\ disk' = Put(mem[at])
  /\ pos' = pos + 1
  /\ at' = Following(HeaderFields, at, SeekAllocator)
  /\ UNCHANGED <<file, mem, mode, found, owned, fresh, fault, result, calls>>

(* dsstore_buddy_allocator_state_fwrite; then the header block would be    *)
(* next, and ds_store_fwrite gives up: "NOT YET IMPLEMENTED".              *)
AllocatorFwrite ==
  /\ mode = "write" /\ at[1] \in AllocatorFields
  /\ disk' = Put(mem[at])
  /\ pos' = pos + 1
  /\ LET next == After(at, mem, WrittenCount(mem[Slot("block_count")]))
     IN  IF next = Done THEN Return("not written")
         ELSE at' = next /\ UNCHANGED <<mode, result>>
  /\ UNCHANGED <<file, mem, found, owned, fresh, fault, calls>>

(* Mutant: the loop is left, and the function goes on. *)
FwriteFails_Breaks ==
  /\ mode = "write" /\ at # SeekAllocator
  /\ fault' = TRUE
  /\ at' = Done
  /\ UNCHANGED <<file, disk, pos, mem, mode, found, owned, fresh, result, calls>>

FwriteFails ==
  /\ mode = "write" /\ at # SeekAllocator
  /\ fault' = TRUE
  /\ Return("not written")
  /\ UNCHANGED <<file, disk, pos, mem, found, owned, fresh, calls>>

-----------------------------------------------------------------------------
Step ==
  \/ HeaderFread \/ SeekBuddyAllocator \/ AllocatorFread \/ FindDSDB
  \/ SeekToHeaderBlock \/ HeaderBlockFread \/ FreadFails \/ SeekFails
  \/ HeaderFwrite \/ AllocatorFwrite \/ FwriteFails

Next == Step \/ CallFread \/ CallFwrite

(* A call runs to its end; the client need not make another. *)
Spec == Init /\ [][Next]_vars /\ WF_vars(Step)

-----------------------------------------------------------------------------
(* Properties.                                                             *)

TypeOK ==
  /\ file \in Files
  /\ disk \in Seq(Nat) /\ pos \in Nat
  /\ DOMAIN Created \subseteq DOMAIN mem
  /\ mode \in {"idle", "load", "write"}
  /\ mode = "idle" <=> at = Done
  /\ found \in Nat
  /\ owned \in BOOLEAN /\ fresh \in BOOLEAN /\ fault \in BOOLEAN
  /\ result \in {"none", "loaded", "not loaded", "not written"}
  /\ calls \in 0 .. MaxCalls

(* ds_store_fread returns a store only of a whole file, and that store is  *)
(* the one the file stands for, field by field: also after ds_store_fwrite *)
(* has written over the file, however far it came.  A new file that it has *)
(* begun, for it never finishes one, is not taken for a store.             *)
LoadedIsWhole ==
  result = "loaded" => file.whole /\ ~fresh /\ mem = file.slots

(* A whole file is loaded, unless the device fails: also after             *)
(* ds_store_fwrite has written over it.                                    *)
WholeIsLoaded == result = "not loaded" /\ ~fault /\ ~fresh => ~file.whole

(* ds_store_fwrite writes the header and the allocator over the ones they  *)
(* were read from: no single write changes the file.                       *)
RewriteIsHarmless == [][mode = "write" /\ ~fresh => disk' = disk]_vars

(* The address of the header block is one that was read from this file.    *)
AddressWasRead ==
  at = SeekHeaderBlock => <<"block_addresses", found, 0>> \in DOMAIN mem

(* Of a store that was loaded, the 256 addresses that ds_store_fwrite      *)
(* writes, and all else it writes, were read: it writes no field that has  *)
(* no value, however many addresses the file said it has.                  *)
WritesWhatWasRead == mode = "write" /\ at # SeekAllocator => at \in DOMAIN mem

(* "The list of addresses is always padded with zeros to a multiple of 256 *)
(* entries" (dsstore_buddy_allocator_state_fread): so is the list that     *)
(* ds_store_fwrite writes, when it goes on to the directory.               *)
WritesPaddedList ==
  mode = "write" /\ at = Slot("directory_count") =>
    pos = 1 + mem[Slot("allocator_offset")] + 2 + PaddedCount(mem[Slot("block_count")])

(* The inductive invariant behind TypeOK, AddressWasRead and               *)
(* WritesWhatWasRead: what of the allocator is in memory m.                *)

EntryFields == {"count", "bytes", "block_number"}

AddressesRead(m, n) == \A k \in 0 .. n - 1 : <<"block_addresses", k, 0>> \in DOMAIN m

EntriesRead(m, n) == \A k \in 0 .. n - 1 : \A f \in EntryFields : <<f, k, 0>> \in DOMAIN m

OffsetsRead(m, i, n) == \A k \in 0 .. n - 1 : <<"offsets", i, k>> \in DOMAIN m

ListsRead(m, n) ==
  \A k \in 0 .. n - 1 :
    <<"free_count", k, 0>> \in DOMAIN m /\ OffsetsRead(m, k, m[<<"free_count", k, 0>>])

AllRead(m) ==
  /\ Slot("block_count") \in DOMAIN m /\ Slot("unknown") \in DOMAIN m
  /\ AddressesRead(m, PaddedCount(m[Slot("block_count")]))
  /\ Slot("directory_count") \in DOMAIN m
  /\ EntriesRead(m, m[Slot("directory_count")])
  /\ ListsRead(m, FreeLists)

(* The walk over the allocator comes to s when n addresses are transferred. *)
OnWalk(m, s, n) ==
  /\ s[1] \in AllocatorFields
  /\ s[1] \in {"block_count", "unknown", "directory_count"} => s = Slot(s[1])
  /\ s[1] = "block_addresses" => s = <<s[1], s[2], 0>> /\ s[2] \in 0 .. n - 1
  /\ s[1] \in EntryFields =>
       s = <<s[1], s[2], 0>> /\ s[2] \in 0 .. m[Slot("directory_count")] - 1
  /\ s[1] = "free_count" => s = <<s[1], s[2], 0>> /\ s[2] \in 0 .. FreeLists - 1
  /\ s[1] = "offsets" =>
       /\ s = <<s[1], s[2], s[3]>> /\ s[2] \in 0 .. FreeLists - 1
       /\ s[3] \in 0 .. m[<<"free_count", s[2], 0>>] - 1

(* All slots that the reader transfers before s are in m. *)
Passed(m, s) ==
  /\ s[1] # "block_count" => Slot("block_count") \in DOMAIN m
  /\ s[1] \notin {"block_count", "unknown"} => Slot("unknown") \in DOMAIN m
  /\ s[1] = "block_addresses" => AddressesRead(m, s[2])
  /\ s[1] \in EntryFields \union {"directory_count", "free_count", "offsets"} =>
       AddressesRead(m, PaddedCount(m[Slot("block_count")]))
  /\ s[1] \in EntryFields \union {"free_count", "offsets"} =>
       Slot("directory_count") \in DOMAIN m
  /\ s[1] \in EntryFields => EntriesRead(m, s[2])
  /\ s[1] \in {"bytes", "block_number"} => <<"count", s[2], 0>> \in DOMAIN m
  /\ s[1] = "block_number" => <<"bytes", s[2], 0>> \in DOMAIN m
  /\ s[1] \in {"free_count", "offsets"} =>
       EntriesRead(m, m[Slot("directory_count")]) /\ ListsRead(m, s[2])
  /\ s[1] = "offsets" =>
       <<"free_count", s[2], 0>> \in DOMAIN m /\ OffsetsRead(m, s[2], s[3])

Loading ==
  mode = "load" =>
    /\ ~owned
    /\ \/ at \in HeaderSlots \union HeaderBlockSlots \union {SeekAllocator, Find, SeekHeaderBlock}
       \/ at[1] \in AllocatorFields
    /\ at \notin HeaderSlots => Slot("padding") \in DOMAIN mem
    /\ at[1] \in AllocatorFields =>
         OnWalk(mem, at, PaddedCount(mem[Slot("block_count")])) /\ Passed(mem, at)
    /\ at \in HeaderBlockSlots \union {Find, SeekHeaderBlock} => AllRead(mem)
    /\ at \in HeaderBlockSlots \union {SeekHeaderBlock} => found < mem[Slot("block_count")]

(* A store that the client has was read in full, and has a block.          *)
Owned ==
  owned => AllRead(mem) /\ Slot("padding") \in DOMAIN mem /\ mem[Slot("block_count")] # 0

Writing ==
  mode = "write" =>
    owned /\ (at \in HeaderSlots \union {SeekAllocator} \/ OnWalk(mem, at, Factor))

IInv ==
  /\ TypeOK
  /\ mem \in [DOMAIN mem -> Nat]
  /\ Loading /\ Owned /\ Writing

=============================================================================
