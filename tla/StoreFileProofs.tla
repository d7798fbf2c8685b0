-------------------------- MODULE StoreFileProofs --------------------------
(***************************************************************************)
(* What ds_store_fread has read when it uses it, and ds_store_fwrite when  *)
(* it writes it, for stores of any size; and that what is loaded is what   *)
(* the file stands for, and what is written stands for the same.           *)
(***************************************************************************)
EXTENDS StoreLayout, FiniteSetTheorems, WellFoundedInduction, TLAPS

-----------------------------------------------------------------------------
(* The list of addresses.                                                  *)

(* For every count of 32 bits and also for 0, where the subtraction wraps, *)
(* the padded list is at least as long, and it is not shorter than the one *)
(* that is written if there is any block.                                  *)
LEMMA PaddedCountBounds ==
  ASSUME NEW n \in Nat
  PROVE  /\ PaddedCount(n) \in Nat
         /\ PaddedCount(n) >= n
         /\ n # 0 => PaddedCount(n) >= Factor
<1> DEFINE q == (n - 1) % Word
           r == q % Factor
<1>1. q \in Nat /\ r \in 0 .. Factor - 1 /\ r <= q
  BY SizesAssumption
<1>2. PaddedCount(n) = n + Factor - 1 - r
  BY DEF PaddedCount
<1>3. n # 0 => q <= n - 1
  BY SizesAssumption
<1> HIDE DEF q, r
<1> QED
  BY <1>1, <1>2, <1>3, SizesAssumption

-----------------------------------------------------------------------------
(* The walk over the allocator.                                            *)

IsMemory(m) == m \in [DOMAIN m -> Nat]

(* m with the value v in the slot s. *)
With(m, s, v) == [x \in DOMAIN m \union {s} |-> IF x = s THEN v ELSE m[x]]

LEMMA WithFacts ==
  ASSUME NEW m, IsMemory(m), NEW s, NEW v \in Nat
  PROVE  /\ IsMemory(With(m, s, v))
         /\ DOMAIN With(m, s, v) = DOMAIN m \union {s}
         /\ With(m, s, v)[s] = v
         /\ \A x \in DOMAIN m : x # s => With(m, s, v)[x] = m[x]
  BY DEF IsMemory, With

(* What was read stays so. *)
LEMMA ReadStays ==
  ASSUME NEW m, IsMemory(m), NEW s, NEW v \in Nat, NEW n, NEW i
  PROVE  /\ AddressesRead(m, n) => AddressesRead(With(m, s, v), n)
         /\ EntriesRead(m, n) => EntriesRead(With(m, s, v), n)
         /\ OffsetsRead(m, i, n) => OffsetsRead(With(m, s, v), i, n)
<1>1. \A x \in DOMAIN m : x \in DOMAIN With(m, s, v)
  BY DEF With
<1>2. AddressesRead(m, n) => AddressesRead(With(m, s, v), n)
  BY <1>1 DEF AddressesRead
<1>3. EntriesRead(m, n) => EntriesRead(With(m, s, v), n)
  BY <1>1 DEF EntriesRead
<1>4. OffsetsRead(m, i, n) => OffsetsRead(With(m, s, v), i, n)
  BY <1>1 DEF OffsetsRead
<1> QED
  BY <1>2, <1>3, <1>4

LEMMA ListsStay ==
  ASSUME NEW m, IsMemory(m), NEW s, NEW v \in Nat, NEW n, ListsRead(m, n),
         \A k \in 0 .. n - 1 : s # <<"free_count", k, 0>>
  PROVE  ListsRead(With(m, s, v), n)
<1> SUFFICES ASSUME NEW k \in 0 .. n - 1
             PROVE  /\ <<"free_count", k, 0>> \in DOMAIN With(m, s, v)
                    /\ OffsetsRead(With(m, s, v), k, With(m, s, v)[<<"free_count", k, 0>>])
  BY DEF ListsRead
<1> DEFINE f == <<"free_count", k, 0>>
<1>1. f \in DOMAIN m /\ OffsetsRead(m, k, m[f])
  BY DEF ListsRead
<1>2. f # s
  OBVIOUS
<1>3. With(m, s, v)[f] = m[f] /\ f \in DOMAIN With(m, s, v)
  BY <1>1, <1>2 DEF With
<1>4. OffsetsRead(With(m, s, v), k, m[f])
  BY <1>1, ReadStays
<1> QED
  BY <1>3, <1>4

(* The slot that follows one of the walk is one, or the walk is over. *)
LEMMA AfterOnWalk ==
  ASSUME NEW m, NEW n \in Nat, NEW s, OnWalk(m, s, n),
         s[1] \in EntryFields \union {"directory_count"} => m[Slot("directory_count")] \in Nat,
         s[1] \in {"free_count", "offsets"} => m[<<"free_count", s[2], 0>>] \in Nat
  PROVE  After(s, m, n) = Done \/ OnWalk(m, After(s, m, n), n)
<1>1. CASE s[1] = "block_count"
  BY <1>1 DEF OnWalk, After, Slot, AllocatorFields, EntryFields
<1>2. CASE s[1] = "unknown"
  BY <1>2 DEF OnWalk, After, Slot, AllocatorFields, EntryFields
<1>3. CASE s[1] = "block_addresses"
  BY <1>3 DEF OnWalk, After, Slot, AllocatorFields, EntryFields
<1>4. CASE s[1] = "directory_count"
  BY <1>4, SizesAssumption
     DEF OnWalk, After, Slot, AllocatorFields, EntryFields, EntryFrom, FreeListFrom
<1>5. CASE s[1] \in {"count", "bytes"}
  BY <1>5 DEF OnWalk, After, Slot, AllocatorFields, EntryFields
<1>6. CASE s[1] = "block_number"
  BY <1>6, SizesAssumption
     DEF OnWalk, After, Slot, AllocatorFields, EntryFields, EntryFrom, FreeListFrom
<1>7. CASE s[1] \in {"free_count", "offsets"}
  <2>1. s[2] \in 0 .. FreeLists - 1
    BY <1>7 DEF OnWalk
  <2>2. FreeListFrom(s[2] + 1) = Done \/ OnWalk(m, FreeListFrom(s[2] + 1), n)
    BY <2>1, SizesAssumption DEF FreeListFrom, OnWalk, AllocatorFields, EntryFields
  <2>3. ASSUME NEW j \in Nat, After(s, m, n) = OffsetFrom(m, s[2], j)
        PROVE  After(s, m, n) = Done \/ OnWalk(m, After(s, m, n), n)
    <3>1. CASE j < m[<<"free_count", s[2], 0>>]
      <4>1. After(s, m, n) = <<"offsets", s[2], j>>
        BY <2>3, <3>1 DEF OffsetFrom
      <4>2. j \in 0 .. m[<<"free_count", s[2], 0>>] - 1
        BY <1>7, <3>1
      <4> QED
        BY <2>1, <4>1, <4>2 DEF OnWalk, AllocatorFields, EntryFields
    <3>2. CASE ~(j < m[<<"free_count", s[2], 0>>])
      BY <2>2, <2>3, <3>2 DEF OffsetFrom
    <3> QED
      BY <3>1, <3>2
  <2>4. CASE s[1] = "free_count"
    <3>1. After(s, m, n) = OffsetFrom(m, s[2], 0)
      BY <2>4 DEF After
    <3> QED
      BY <2>3, <3>1
  <2>5. CASE s[1] = "offsets"
    <3>1. After(s, m, n) = OffsetFrom(m, s[2], s[3] + 1) /\ s[3] + 1 \in Nat
      BY <1>7, <2>5 DEF After, OnWalk
    <3> QED
      BY <2>3, <3>1
  <2> QED
    BY <1>7, <2>4, <2>5
<1> QED
  BY <1>1, <1>2, <1>3, <1>4, <1>5, <1>6, <1>7 DEF OnWalk, AllocatorFields

(* The reader goes on to a slot before which everything was read, or has   *)
(* read everything.                                                        *)
LEMMA ReadOn ==
  ASSUME NEW m, IsMemory(m), NEW s, NEW v \in Nat,
         OnWalk(m, s, PaddedCount(m[Slot("block_count")])), Passed(m, s)
  PROVE  LET g == With(m, s, v)
             n == PaddedCount(g[Slot("block_count")])
             next == After(s, g, n)
         IN  /\ next = Done => AllRead(g)
             /\ next # Done => OnWalk(g, next, n) /\ Passed(g, next)
<1> DEFINE g == With(m, s, v)
           bc == Slot("block_count")
           dc == Slot("directory_count")
           n == PaddedCount(g[bc])
           next == After(s, g, n)
<1>1. /\ IsMemory(g) /\ DOMAIN g = DOMAIN m \union {s} /\ g[s] = v
      /\ \A x \in DOMAIN m : x # s => g[x] = m[x]
  BY DEF With, IsMemory
<1>2. \A x \in DOMAIN g : g[x] \in Nat
  BY <1>1 DEF IsMemory
<1>3. /\ \A k : AddressesRead(m, k) => AddressesRead(g, k)
      /\ \A k : EntriesRead(m, k) => EntriesRead(g, k)
      /\ \A i, k : OffsetsRead(m, i, k) => OffsetsRead(g, i, k)
  BY ReadStays
<1>4. bc \in DOMAIN g /\ n \in Nat
  <2>1. bc \in DOMAIN g
    BY <1>1 DEF Passed, OnWalk
  <2> QED
    BY <1>2, <2>1, PaddedCountBounds
<1> DEFINE goal == /\ next = Done => AllRead(g)
                   /\ next # Done => OnWalk(g, next, n) /\ Passed(g, next)
<1> HIDE DEF g, bc, dc, n, next, goal
<1>5. ASSUME s[1] # "block_count"
      PROVE  bc \in DOMAIN m /\ s # bc /\ g[bc] = m[bc] /\ n = PaddedCount(m[bc])
  <2>1. bc \in DOMAIN m /\ s # bc
    BY <1>5 DEF Passed, bc, Slot
  <2> QED
    BY <1>1, <2>1 DEF n
<1>6. ASSUME s[1] \in EntryFields \union {"free_count", "offsets"}
      PROVE  dc \in DOMAIN m /\ s # dc /\ g[dc] = m[dc] /\ g[dc] \in Nat
  <2>1. dc \in DOMAIN m /\ s # dc
    BY <1>6 DEF Passed, dc, Slot, EntryFields
  <2> QED
    BY <1>1, <1>2, <2>1
<1>7. ASSUME s[1] \in {"free_count", "offsets"}
      PROVE  ListsRead(g, s[2])
  <2>1. ListsRead(m, s[2]) /\ \A k \in 0 .. s[2] - 1 : s # <<"free_count", k, 0>>
    BY <1>7 DEF Passed, OnWalk
  <2> QED
    BY <2>1, ListsStay DEF g
<1>8. ASSUME s[1] \in {"free_count", "offsets"}
      PROVE  <<"free_count", s[2], 0>> \in DOMAIN g /\ g[<<"free_count", s[2], 0>>] \in Nat
  <2>1. <<"free_count", s[2], 0>> \in DOMAIN g
    BY <1>1, <1>8 DEF Passed, OnWalk
  <2> QED
    BY <1>2, <2>1
<1>9. OnWalk(g, s, n)
  <2>1. CASE s[1] = "block_count"
    BY <2>1 DEF OnWalk, EntryFields
  <2>2. CASE s[1] # "block_count" /\ s[1] \in EntryFields
    BY <1>5, <1>6, <2>2 DEF OnWalk, EntryFields, dc, bc
  <2>3. CASE s[1] = "offsets"
    <3>1. <<"free_count", s[2], 0>> \in DOMAIN m /\ s # <<"free_count", s[2], 0>>
      BY <2>3 DEF Passed, OnWalk
    <3>2. g[<<"free_count", s[2], 0>>] = m[<<"free_count", s[2], 0>>]
      BY <1>1, <3>1
    <3> QED
      BY <2>3, <3>2 DEF OnWalk, EntryFields
  <2>4. CASE s[1] \notin EntryFields \union {"block_count", "offsets"}
    BY <1>5, <2>4 DEF OnWalk, EntryFields, bc
  <2> QED
    BY <2>1, <2>2, <2>3, <2>4 DEF EntryFields
<1>10. next # Done => OnWalk(g, next, n)
  <2>1. s[1] = "directory_count" => s = dc /\ g[dc] \in Nat
    BY <1>1 DEF OnWalk, dc
  <2> QED
    BY <1>4, <1>6, <1>8, <1>9, <2>1, AfterOnWalk DEF next, dc
<1>11. ASSUME s[1] # "block_count"
       PROVE  /\ bc \in DOMAIN g
              /\ Slot("unknown") \in DOMAIN g
              /\ s[1] \notin {"unknown", "block_addresses"} =>
                   AddressesRead(g, n) /\ dc \in DOMAIN g
  <2>1. s[1] = "unknown" => s = Slot("unknown")
    BY DEF OnWalk
  <2>2. s[1] = "directory_count" => s = dc
    BY DEF OnWalk, dc
  <2>3. Slot("unknown") \in DOMAIN g
    BY <1>1, <1>11, <2>1 DEF Passed
  <2>4. s[1] \notin {"unknown", "block_addresses"} => AddressesRead(m, n)
    BY <1>5, <1>11 DEF Passed, OnWalk, AllocatorFields, EntryFields, bc
  <2>5. s[1] \notin {"unknown", "block_addresses"} => dc \in DOMAIN g
    BY <1>1, <1>6, <1>11, <2>2 DEF OnWalk, AllocatorFields, EntryFields
  <2> QED
    BY <1>3, <1>4, <2>3, <2>4, <2>5
(* The free lists from i on. *)
<1>12. ASSUME NEW i \in 0 .. FreeLists, s[1] # "block_count", next = FreeListFrom(i),
              s[1] \notin {"unknown", "block_addresses"},
              EntriesRead(g, g[dc]), ListsRead(g, i)
       PROVE  goal
  <2>1. /\ bc \in DOMAIN g /\ Slot("unknown") \in DOMAIN g
        /\ AddressesRead(g, n) /\ dc \in DOMAIN g
    BY <1>11, <1>12
  <2>2. CASE i < FreeLists
    <3>1. next = <<"free_count", i, 0>>
      BY <1>12, <2>2 DEF FreeListFrom
    <3>2. Passed(g, next)
      BY <1>12, <2>1, <3>1 DEF Passed, EntryFields, n, bc, dc
    <3>3. next # Done
      BY <3>1 DEF Done, Slot
    <3> QED
      BY <1>10, <3>2, <3>3 DEF goal
  <2>3. CASE i = FreeLists
    <3>1. next = Done
      BY <1>12, <2>3, SizesAssumption DEF FreeListFrom
    <3>2. AllRead(g)
      BY <1>12, <2>1, <2>3 DEF AllRead, n, bc, dc
    <3> QED
      BY <3>1, <3>2 DEF goal
  <2> QED
    BY <2>2, <2>3, SizesAssumption
(* The entries of the directory from i on. *)
<1>13. ASSUME NEW i \in Nat, s[1] # "block_count", next = EntryFrom(g, i),
              s[1] \notin {"unknown", "block_addresses"},
              g[dc] \in Nat, i <= g[dc], EntriesRead(g, i)
       PROVE  goal
  <2>1. /\ bc \in DOMAIN g /\ Slot("unknown") \in DOMAIN g
        /\ AddressesRead(g, n) /\ dc \in DOMAIN g
    BY <1>11, <1>13
  <2>2. CASE i < g[dc]
    <3>1. next = <<"count", i, 0>>
      BY <1>13, <2>2 DEF EntryFrom, dc
    <3>2. Passed(g, next)
      BY <1>13, <2>1, <3>1 DEF Passed, EntryFields, n, bc, dc
    <3>3. next # Done
      BY <3>1 DEF Done, Slot
    <3> QED
      BY <1>10, <3>2, <3>3 DEF goal
  <2>3. CASE i = g[dc]
    <3>1. next = FreeListFrom(0)
      BY <1>13, <2>3 DEF EntryFrom, dc
    <3>2. ListsRead(g, 0)
      BY DEF ListsRead
    <3> QED
      BY <1>12, <1>13, <2>3, <3>1, <3>2, SizesAssumption
  <2> QED
    BY <1>13, <2>2, <2>3
(* The addresses from i on. *)
<1>14. ASSUME NEW i \in Nat, s[1] \in {"unknown", "block_addresses"}, i <= n,
              next = IF i < n THEN <<"block_addresses", i, 0>> ELSE Slot("directory_count"),
              AddressesRead(g, i)
       PROVE  goal
  <2>1. bc \in DOMAIN g /\ Slot("unknown") \in DOMAIN g
    BY <1>11, <1>14
  <2>2. CASE i < n
    <3>1. next = <<"block_addresses", i, 0>>
      BY <1>14, <2>2
    <3>2. Passed(g, next)
      BY <1>14, <2>1, <3>1 DEF Passed, EntryFields, n, bc, dc
    <3>3. next # Done
      BY <3>1 DEF Done, Slot
    <3> QED
      BY <1>10, <3>2, <3>3 DEF goal
  <2>3. CASE i = n
    <3>1. next = <<"directory_count", 0, 0>>
      BY <1>4, <1>14, <2>3 DEF Slot
    <3>2. Passed(g, next)
      BY <1>14, <2>1, <2>3, <3>1 DEF Passed, EntryFields, n, bc, dc
    <3>3. next # Done
      BY <3>1 DEF Done, Slot
    <3> QED
      BY <1>10, <3>2, <3>3 DEF goal
  <2> QED
    BY <1>4, <1>14, <2>2, <2>3
(* The offsets of free list i from j on. *)
<1>15. ASSUME NEW i \in 0 .. FreeLists - 1, NEW j \in Nat, s[1] \in {"free_count", "offsets"},
              i = s[2], next = OffsetFrom(g, i, j), j <= g[<<"free_count", i, 0>>],
              EntriesRead(g, g[dc]), OffsetsRead(g, i, j)
       PROVE  goal
  <2> DEFINE fc == <<"free_count", i, 0>>
  <2>1. /\ bc \in DOMAIN g /\ Slot("unknown") \in DOMAIN g
        /\ AddressesRead(g, n) /\ dc \in DOMAIN g /\ ListsRead(g, i)
        /\ fc \in DOMAIN g /\ g[fc] \in Nat
    BY <1>7, <1>8, <1>11, <1>15
  <2>2. CASE j < g[fc]
    <3>1. next = <<"offsets", i, j>>
      BY <1>15, <2>2 DEF OffsetFrom
    <3>2. Passed(g, next)
      BY <1>15, <2>1, <3>1 DEF Passed, EntryFields, n, bc, dc
    <3>3. next # Done
      BY <3>1 DEF Done, Slot
    <3> QED
      BY <1>10, <3>2, <3>3 DEF goal
  <2>3. CASE j = g[fc]
    <3>1. next = FreeListFrom(i + 1)
      BY <1>15, <2>3 DEF OffsetFrom
    <3>2. ASSUME NEW k \in 0 .. (i + 1) - 1
          PROVE  /\ <<"free_count", k, 0>> \in DOMAIN g
                 /\ OffsetsRead(g, k, g[<<"free_count", k, 0>>])
      <4>1. CASE k = i
        BY <1>15, <2>1, <2>3, <4>1
      <4>2. CASE k \in 0 .. i - 1
        BY <2>1, <4>2 DEF ListsRead
      <4> QED
        BY <4>1, <4>2
    <3>3. ListsRead(g, i + 1)
      BY <3>2 DEF ListsRead
    <3>4. i + 1 \in 0 .. FreeLists
      BY <1>15, SizesAssumption
    <3> QED
      BY <1>12, <1>15, <3>1, <3>3, <3>4
  <2> QED
    BY <1>15, <2>1, <2>2, <2>3
<1>16. ASSUME s[1] = "block_count"
       PROVE  goal
  <2>1. s = bc /\ next = <<"unknown", 0, 0>>
    BY <1>16 DEF OnWalk, next, After, bc, Slot
  <2>2. next # Done /\ Passed(g, next)
    BY <1>4, <2>1 DEF Passed, Slot, EntryFields, Done, bc
  <2> QED
    BY <1>10, <2>2 DEF goal
<1>17. ASSUME s[1] = "unknown"
       PROVE  goal
  <2>1. next = IF 0 < n THEN <<"block_addresses", 0, 0>> ELSE Slot("directory_count")
    BY <1>17 DEF next, After
  <2>2. AddressesRead(g, 0)
    BY DEF AddressesRead
  <2> QED
    BY <1>4, <1>14, <1>17, <2>1, <2>2
<1>18. ASSUME s[1] = "block_addresses"
       PROVE  goal
  <2>1. s = <<"block_addresses", s[2], 0>> /\ s[2] \in 0 .. n - 1
    BY <1>9, <1>18 DEF OnWalk
  <2>2. next = IF s[2] + 1 < n THEN <<"block_addresses", s[2] + 1, 0>>
                               ELSE Slot("directory_count")
    BY <1>18 DEF next, After
  <2>3. AddressesRead(g, s[2])
    BY <1>3, <1>18 DEF Passed
  <2>4. AddressesRead(g, s[2] + 1)
    <3>1. <<"block_addresses", s[2], 0>> \in DOMAIN g
      BY <1>1, <2>1
    <3>2. ASSUME NEW k \in 0 .. (s[2] + 1) - 1
          PROVE  k \in 0 .. s[2] - 1 \/ k = s[2]
      BY <1>4, <2>1
    <3> QED
      BY <2>3, <3>1, <3>2 DEF AddressesRead
  <2> QED
    BY <1>4, <1>14, <1>18, <2>1, <2>2, <2>4
<1>19. ASSUME s[1] = "directory_count"
       PROVE  goal
  <2>1. s = dc /\ g[dc] \in Nat
    BY <1>1, <1>19 DEF OnWalk, dc
  <2>2. next = EntryFrom(g, 0)
    BY <1>19 DEF next, After
  <2>3. EntriesRead(g, 0)
    BY DEF EntriesRead
  <2> QED
    BY <1>13, <1>19, <2>1, <2>2, <2>3
<1>20. ASSUME s[1] \in {"count", "bytes"}
       PROVE  goal
  <2>1. s = <<s[1], s[2], 0>>
    BY <1>20 DEF OnWalk, EntryFields
  <2>2. next = <<IF s[1] = "count" THEN "bytes" ELSE "block_number", s[2], 0>>
    BY <1>20 DEF next, After
  <2>3. AddressesRead(g, n) /\ bc \in DOMAIN g /\ dc \in DOMAIN g /\ Slot("unknown") \in DOMAIN g
    BY <1>11, <1>20
  <2>4. EntriesRead(g, s[2])
    BY <1>3, <1>20 DEF Passed, EntryFields
  <2>5. /\ s \in DOMAIN g
        /\ s[1] = "bytes" => <<"count", s[2], 0>> \in DOMAIN g
    BY <1>1, <1>20 DEF Passed
  <2>6. next # Done
    BY <2>2 DEF Done, Slot
  <2>7. Passed(g, next)
    BY <1>20, <2>1, <2>2, <2>3, <2>4, <2>5 DEF Passed, EntryFields, n, bc, dc
  <2> QED
    BY <1>10, <2>6, <2>7 DEF goal
<1>21. ASSUME s[1] = "block_number"
       PROVE  goal
  <2>1. s = <<"block_number", s[2], 0>> /\ s[2] \in 0 .. g[dc] - 1
    BY <1>9, <1>21 DEF OnWalk, EntryFields, dc
  <2>2. next = EntryFrom(g, s[2] + 1)
    BY <1>21 DEF next, After
  <2>3. EntriesRead(g, s[2])
    BY <1>3, <1>21 DEF Passed, EntryFields
  <2>4. \A f \in EntryFields : <<f, s[2], 0>> \in DOMAIN g
    BY <1>1, <1>21, <2>1 DEF Passed, EntryFields
  <2>5. g[dc] \in Nat
    BY <1>6, <1>21 DEF EntryFields
  <2>6. EntriesRead(g, s[2] + 1)
    <3>1. ASSUME NEW k \in 0 .. (s[2] + 1) - 1
          PROVE  k \in 0 .. s[2] - 1 \/ k = s[2]
      BY <2>1, <2>5
    <3> QED
      BY <2>3, <2>4, <3>1 DEF EntriesRead
  <2> QED
    BY <1>13, <1>21, <2>1, <2>2, <2>5, <2>6
<1>22. ASSUME s[1] = "free_count"
       PROVE  goal
  <2>1. s = <<"free_count", s[2], 0>> /\ s[2] \in 0 .. FreeLists - 1
    BY <1>22 DEF OnWalk
  <2>2. next = OffsetFrom(g, s[2], 0)
    BY <1>22 DEF next, After
  <2>3. EntriesRead(g, g[dc])
    BY <1>3, <1>6, <1>22 DEF Passed, dc
  <2>4. OffsetsRead(g, s[2], 0)
    BY DEF OffsetsRead
  <2> QED
    BY <1>8, <1>15, <1>22, <2>1, <2>2, <2>3, <2>4
<1>23. ASSUME s[1] = "offsets"
       PROVE  goal
  <2>1. /\ s = <<"offsets", s[2], s[3]>> /\ s[2] \in 0 .. FreeLists - 1
        /\ s[3] \in 0 .. g[<<"free_count", s[2], 0>>] - 1
    BY <1>9, <1>23 DEF OnWalk
  <2>2. next = OffsetFrom(g, s[2], s[3] + 1)
    BY <1>23 DEF next, After
  <2>3. EntriesRead(g, g[dc])
    BY <1>3, <1>6, <1>23 DEF Passed, dc
  <2>4. OffsetsRead(g, s[2], s[3])
    BY <1>3, <1>23 DEF Passed
  <2>5. OffsetsRead(g, s[2], s[3] + 1)
    BY <1>1, <2>1, <2>4 DEF OffsetsRead
  <2> QED
    BY <1>8, <1>15, <1>23, <2>1, <2>2, <2>3, <2>5
<1>24. goal
  BY <1>16, <1>17, <1>18, <1>19, <1>20, <1>21, <1>22, <1>23
     DEF OnWalk, AllocatorFields
<1> QED
  BY <1>24 DEF goal, g, n, next, bc

-----------------------------------------------------------------------------
(* The entry called DSDB.                                                  *)

(* There is a first one if there is one: the initial intervals of the      *)
(* natural numbers are well-founded by inclusion.                          *)
LEMMA SmallestOf ==
  ASSUME NEW S \in SUBSET Nat, S # {}
  PROVE  \E i \in S : \A k \in S : i <= k
<1> DEFINE Before(i) == 0 .. i - 1
           T == {Before(i) : i \in S}
<1>1. T \subseteq FiniteSubsetsOf(Nat) /\ T # {}
  <2>1. \A i \in S : IsFiniteSet(0 .. i - 1)
    BY FS_Interval
  <2>2. \A i \in S : Before(i) \in FiniteSubsetsOf(Nat)
    BY <2>1 DEF FiniteSubsetsOf
  <2> QED
    BY <2>2
<1>2. PICK t \in T : \A u \in T : <<u, t>> \notin StrictSubsetOrdering(Nat)
  <2>1. IsWellFoundedOn(StrictSubsetOrdering(Nat), FiniteSubsetsOf(Nat))
    BY FS_StrictSubsetOrderingWellFounded
  <2> HIDE DEF T
  <2> QED
    BY <1>1, <2>1, WFMin
<1>3. PICK i \in S : t = Before(i)
  OBVIOUS
<1>4. ASSUME NEW k \in S, k < i
      PROVE  FALSE
  <2>1. <<Before(k), Before(i)>> \notin StrictSubsetOrdering(Nat)
    BY <1>2, <1>3
  <2>2. Before(k) \subseteq Before(i) /\ k \in Before(i) /\ k \notin Before(k)
    BY <1>4
  <2>3. Before(k) \in SUBSET Nat /\ Before(i) \in SUBSET Nat
    OBVIOUS
  <2> HIDE DEF Before
  <2> QED
    BY <2>1, <2>2, <2>3 DEF StrictSubsetOrdering
<1> QED
  BY <1>4

LEMMA FirstEntry ==
  ASSUME IsMemory(mem), AllRead(mem), Entries # {}
  PROVE  BlockOf(CHOOSE i \in Entries : \A k \in Entries : i <= k) \in Nat
<1> DEFINE e == CHOOSE i \in Entries : \A k \in Entries : i <= k
<1>1. mem[Slot("directory_count")] \in Nat
  BY DEF AllRead, IsMemory
<1>2. Entries \in SUBSET Nat
  BY <1>1 DEF Entries
<1>3. \E i \in Entries : \A k \in Entries : i <= k
  BY <1>2, SmallestOf
<1>4. e \in Entries
  BY <1>3
<1> HIDE DEF e
<1>5. <<"block_number", e, 0>> \in DOMAIN mem
  BY <1>4 DEF AllRead, EntriesRead, EntryFields, Entries
<1>6. BlockOf(e) \in Nat
  BY <1>5 DEF BlockOf, IsMemory
<1> QED
  BY <1>6 DEF e

-----------------------------------------------------------------------------
(* Single reads.                                                           *)

LEMMA GotIsWith ==
  ASSUME IInv, pos < Len(disk)
  PROVE  /\ disk[pos + 1] \in Nat
         /\ Got = With(mem, at, disk[pos + 1])
         /\ IsMemory(mem) /\ IsMemory(Got)
         /\ DOMAIN Got = DOMAIN mem \union {at}
         /\ \A x \in DOMAIN mem : x # at => Got[x] = mem[x]
<1>1. disk[pos + 1] \in Nat
  <2>1. disk \in Seq(Nat) /\ pos \in Nat
    BY DEF IInv, TypeOK
  <2> QED
    BY <2>1
<1>2. Got = With(mem, at, disk[pos + 1]) /\ IsMemory(mem)
  BY DEF Got, With, IInv, IsMemory
<1> DEFINE v == disk[pos + 1]
<1> HIDE DEF v
<1>3. /\ IsMemory(With(mem, at, v))
      /\ DOMAIN With(mem, at, v) = DOMAIN mem \union {at}
      /\ \A x \in DOMAIN mem : x # at => With(mem, at, v)[x] = mem[x]
  BY <1>1, <1>2 DEF With, IsMemory, v
<1> QED
  BY <1>1, <1>2, <1>3 DEF v

(* A slot outside the allocator leaves what was read of it.                *)
LEMMA AllStays ==
  ASSUME NEW m, IsMemory(m), NEW s, NEW v \in Nat, AllRead(m),
         s[1] \notin AllocatorFields
  PROVE  AllRead(With(m, s, v))
<1> DEFINE g == With(m, s, v)
<1>1. /\ DOMAIN g = DOMAIN m \union {s}
      /\ \A x \in DOMAIN m : x # s => g[x] = m[x]
  BY DEF With
<1>2. /\ g[Slot("block_count")] = m[Slot("block_count")]
      /\ g[Slot("directory_count")] = m[Slot("directory_count")]
  <2>1. Slot("block_count") # s /\ Slot("directory_count") # s
    BY DEF Slot, AllocatorFields
  <2> QED
    BY <1>1, <2>1 DEF AllRead
<1>3. ListsRead(g, FreeLists)
  BY ListsStay DEF AllRead, AllocatorFields
<1> HIDE DEF g
<1>4. /\ AddressesRead(g, PaddedCount(m[Slot("block_count")]))
      /\ EntriesRead(g, m[Slot("directory_count")])
  BY ReadStays DEF AllRead, g
<1>5. AllRead(g)
  BY <1>1, <1>2, <1>3, <1>4 DEF AllRead
<1> QED
  BY <1>5 DEF g

(* The places are different ones.                                          *)
LEMMA Places ==
  /\ \A s \in HeaderSlots \union HeaderBlockSlots \union
              {SeekAllocator, Find, SeekHeaderBlock, Done} : s[1] \notin AllocatorFields
  /\ \A s \in HeaderSlots : s \notin HeaderBlockSlots \union
              {SeekAllocator, Find, SeekHeaderBlock, Done}
  /\ \A s \in HeaderBlockSlots : s \notin {SeekAllocator, Find, SeekHeaderBlock, Done}
  /\ SeekAllocator \notin {Find, SeekHeaderBlock, Done}
  /\ Find \notin {SeekHeaderBlock, Done} /\ SeekHeaderBlock # Done
<1>1. \A s \in HeaderSlots : s[1] \in {"version", "magic", "allocator_offset",
        "allocator_size", "allocator_offset_check", "padding"}
  BY DEF HeaderSlots, HeaderFields, Slot
<1>2. \A s \in HeaderBlockSlots : s[1] \in {"root_block_number", "node_levels",
        "record_count", "node_count", "tree_node_page_size"}
  BY DEF HeaderBlockSlots, HeaderBlockFields, Slot
<1>3. /\ SeekAllocator[1] = "seek allocator" /\ Find[1] = "find DSDB"
      /\ SeekHeaderBlock[1] = "seek header block" /\ Done[1] = "done"
  BY DEF SeekAllocator, Find, SeekHeaderBlock, Done, Slot
<1>4. \A s \in HeaderSlots : s \notin HeaderBlockSlots \union
              {SeekAllocator, Find, SeekHeaderBlock, Done}
  BY <1>1, <1>2, <1>3
<1>5. \A s \in HeaderBlockSlots : s \notin {SeekAllocator, Find, SeekHeaderBlock, Done}
  BY <1>2, <1>3
<1>6. \A s \in HeaderSlots \union HeaderBlockSlots \union
              {SeekAllocator, Find, SeekHeaderBlock, Done} : s[1] \notin AllocatorFields
  BY <1>1, <1>2, <1>3 DEF AllocatorFields
<1> QED
  BY <1>3, <1>4, <1>5, <1>6

(* The structures without loops.                                           *)
LEMMA HeaderWalk ==
  ASSUME NEW s \in HeaderSlots
  PROVE  LET next == Following(HeaderFields, s, SeekAllocator)
         IN  /\ next \in HeaderSlots \union {SeekAllocator}
             /\ next = SeekAllocator => s = Slot("padding")
<1> DEFINE k == CHOOSE k \in 1 .. Len(HeaderFields) : Slot(HeaderFields[k]) = s
<1>1. k \in 1 .. 6 /\ Slot(HeaderFields[k]) = s
  BY DEF HeaderSlots, HeaderFields
<1>2. Following(HeaderFields, s, SeekAllocator) =
        IF k < 6 THEN Slot(HeaderFields[k + 1]) ELSE SeekAllocator
  BY DEF Following, HeaderFields
<1> HIDE DEF k
<1>3. CASE k = 6
  BY <1>1, <1>2, <1>3 DEF HeaderFields
<1>4. CASE k \in 1 .. 5
  <2>1. Following(HeaderFields, s, SeekAllocator) = Slot(HeaderFields[k + 1])
    BY <1>2, <1>4
  <2>2. k + 1 \in 1 .. Len(HeaderFields)
    BY <1>4 DEF HeaderFields
  <2>3. Slot(HeaderFields[k + 1]) \in HeaderSlots
    BY <2>2 DEF HeaderSlots
  <2>4. \A x \in HeaderSlots : x # SeekAllocator
    BY Places
  <2> QED
    BY <2>1, <2>3, <2>4
<1> QED
  BY <1>1, <1>3, <1>4

LEMMA HeaderBlockWalk ==
  ASSUME NEW s \in HeaderBlockSlots
  PROVE  Following(HeaderBlockFields, s, Done) \in HeaderBlockSlots \union {Done}
<1> DEFINE k == CHOOSE k \in 1 .. Len(HeaderBlockFields) : Slot(HeaderBlockFields[k]) = s
<1>1. k \in 1 .. 5
  BY DEF HeaderBlockSlots, HeaderBlockFields
<1>2. Following(HeaderBlockFields, s, Done) =
        IF k < 5 THEN Slot(HeaderBlockFields[k + 1]) ELSE Done
  BY DEF Following, HeaderBlockFields
<1> HIDE DEF k
<1> QED
  BY <1>1, <1>2 DEF HeaderBlockFields, HeaderBlockSlots

-----------------------------------------------------------------------------
(* The inductive invariant, action by action.                              *)

LEMMA BeginCounts ==
  ASSUME IInv, NEW m, Begin(m)
  PROVE  calls' \in 0 .. MaxCalls
<1>1. calls \in 0 .. MaxCalls
  BY DEF IInv, TypeOK
<1>2. calls' = calls + 1 /\ calls < MaxCalls
  BY DEF Begin
<1>3. MaxCalls \in Nat
  BY SizesAssumption
<1> QED
  BY <1>1, <1>2, <1>3

(* The type is kept by a step in a call, whether it goes on or returns.    *)
LEMMA TypeStep ==
  ASSUME IInv, file' = file, calls' = calls, disk' \in Seq(Nat), pos' \in Nat, found' \in Nat,
         owned' \in BOOLEAN, fresh' \in BOOLEAN, fault' \in BOOLEAN,
         DOMAIN mem \subseteq DOMAIN mem',
         \/ mode # "idle" /\ mode' = mode /\ result' = result /\ at' # Done
         \/ \E r \in {"loaded", "not loaded", "not written"} : Return(r)
  PROVE  TypeOK'
<1>1. (file \in Files /\ calls \in 0 .. MaxCalls)'
  BY DEF IInv, TypeOK
<1>2. (/\ mode \in {"idle", "load", "write"}
       /\ result \in {"none", "loaded", "not loaded", "not written"})'
  BY DEF IInv, TypeOK, Return
<1>3. (DOMAIN Created \subseteq DOMAIN mem)'
  BY DEF IInv, TypeOK
<1>4. (mode = "idle" <=> at = Done)'
  BY DEF Return
<1> QED
  BY <1>1, <1>2, <1>3, <1>4 DEF TypeOK

(* The types, as they are before a step.                                   *)
LEMMA Types ==
  ASSUME IInv
  PROVE  /\ disk \in Seq(Nat) /\ pos \in Nat /\ pos + 1 \in Nat /\ found \in Nat
         /\ owned \in BOOLEAN /\ fresh \in BOOLEAN /\ fault \in BOOLEAN
<1>1. pos \in Nat
  BY DEF IInv, TypeOK
<1>2. pos + 1 \in Nat
  BY <1>1
<1> QED
  BY <1>1, <1>2 DEF IInv, TypeOK

(* A call that fails, and leaves all but its result as it is.              *)
LEMMA FailsInv ==
  ASSUME IInv, fault' \in BOOLEAN, NEW r \in {"not loaded", "not written"}, Return(r),
         UNCHANGED <<file, disk, pos, mem, found, owned, fresh, calls>>
  PROVE  IInv'
<1>1. TypeOK'
  BY Types, TypeStep
<1>2. mem' \in [DOMAIN mem' -> Nat] /\ Owned'
  BY DEF IInv, Owned
<1>3. Loading' /\ Writing'
  BY DEF Return, Loading, Writing
<1> QED
  BY <1>1, <1>2, <1>3 DEF IInv

LEMMA InitInv ==
  ASSUME Init
  PROVE  IInv
<1>1. Created \in [DOMAIN Created -> Nat]
  BY SizesAssumption DEF Created
<1>2. disk \in Seq(Nat)
  BY FilesAssumption DEF Init
<1>3. TypeOK
  <2>1. (file \in Files /\ disk \in Seq(Nat) /\ pos \in Nat /\ found \in Nat)
    BY <1>2, SizesAssumption DEF Init
  <2>2. (calls \in 0 .. MaxCalls)
    BY <1>2, SizesAssumption DEF Init
  <2>3. (owned \in BOOLEAN /\ fresh \in BOOLEAN /\ fault \in BOOLEAN)
    BY <1>2, SizesAssumption DEF Init
  <2>4. (/\ mode \in {"idle", "load", "write"}
         /\ result \in {"none", "loaded", "not loaded", "not written"})
    BY <1>2, SizesAssumption DEF Init
  <2>5. (DOMAIN Created \subseteq DOMAIN mem)
    BY <1>2, SizesAssumption DEF Init
  <2>6. (mode = "idle" <=> at = Done)
    BY <1>2, SizesAssumption DEF Init
  <2> QED
    BY <2>1, <2>2, <2>3, <2>4, <2>5, <2>6 DEF TypeOK
<1> QED
  BY <1>1, <1>3 DEF Init, IInv, Loading, Owned, Writing

LEMMA CallFreadInv ==
  ASSUME IInv, CallFread
  PROVE  IInv'
<1>1. Created \in [DOMAIN Created -> Nat]
  BY SizesAssumption DEF Created
<1>2. at' \in HeaderSlots
  BY DEF CallFread, Begin, HeaderSlots, HeaderFields
<1>3. at' # Done /\ at'[1] \notin AllocatorFields
      /\ at' \notin HeaderBlockSlots \union {SeekAllocator, Find, SeekHeaderBlock}
  BY <1>2, Places
<1>4. TypeOK'
  <2>1. (file \in Files /\ disk \in Seq(Nat) /\ pos \in Nat /\ found \in Nat)'
    BY <1>3, SizesAssumption DEF CallFread, Begin, IInv, TypeOK
  <2>2. (calls \in 0 .. MaxCalls)'
    BY BeginCounts DEF CallFread
  <2>3. (owned \in BOOLEAN /\ fresh \in BOOLEAN /\ fault \in BOOLEAN)'
    BY <1>3, SizesAssumption DEF CallFread, Begin, IInv, TypeOK
  <2>4. (/\ mode \in {"idle", "load", "write"}
         /\ result \in {"none", "loaded", "not loaded", "not written"})'
    BY <1>3, SizesAssumption DEF CallFread, Begin, IInv, TypeOK
  <2>5. (DOMAIN Created \subseteq DOMAIN mem)'
    BY <1>3, SizesAssumption DEF CallFread, Begin, IInv, TypeOK
  <2>6. (mode = "idle" <=> at = Done)'
    BY <1>3, SizesAssumption DEF CallFread, Begin, IInv, TypeOK
  <2> QED
    BY <2>1, <2>2, <2>3, <2>4, <2>5, <2>6 DEF TypeOK
<1>5. mem' \in [DOMAIN mem' -> Nat]
  BY <1>1 DEF CallFread
<1>6. Loading'
  BY <1>2, <1>3 DEF CallFread, Loading
<1>7. Owned' /\ Writing'
  BY DEF CallFread, Begin, Owned, Writing
<1> QED
  BY <1>4, <1>5, <1>6, <1>7 DEF IInv

LEMMA CallFwriteInv ==
  ASSUME IInv, CallFwrite
  PROVE  IInv'
<1>1. at' \in HeaderSlots
  BY DEF CallFwrite, Begin, HeaderSlots, HeaderFields
<1>2. at' # Done
  BY <1>1, Places
<1>3. disk' \in Seq(Nat) /\ fresh' \in BOOLEAN
  <2>1. disk \in Seq(Nat) /\ fresh \in BOOLEAN
    BY DEF IInv, TypeOK
  <2>2. <<>> \in Seq(Nat)
    OBVIOUS
  <2> QED
    BY <2>1, <2>2 DEF CallFwrite
<1>4. TypeOK'
  <2>1. (file \in Files /\ disk \in Seq(Nat) /\ pos \in Nat /\ found \in Nat)'
    BY <1>2, <1>3, SizesAssumption DEF CallFwrite, Begin, IInv, TypeOK
  <2>2. (calls \in 0 .. MaxCalls)'
    BY BeginCounts DEF CallFwrite
  <2>3. (owned \in BOOLEAN /\ fresh \in BOOLEAN /\ fault \in BOOLEAN)'
    BY <1>2, <1>3, SizesAssumption DEF CallFwrite, Begin, IInv, TypeOK
  <2>4. (/\ mode \in {"idle", "load", "write"}
         /\ result \in {"none", "loaded", "not loaded", "not written"})'
    BY <1>2, <1>3, SizesAssumption DEF CallFwrite, Begin, IInv, TypeOK
  <2>5. (DOMAIN Created \subseteq DOMAIN mem)'
    BY <1>2, <1>3, SizesAssumption DEF CallFwrite, Begin, IInv, TypeOK
  <2>6. (mode = "idle" <=> at = Done)'
    BY <1>2, <1>3, SizesAssumption DEF CallFwrite, Begin, IInv, TypeOK
  <2> QED
    BY <2>1, <2>2, <2>3, <2>4, <2>5, <2>6 DEF TypeOK
<1>5. Owned' /\ mem' \in [DOMAIN mem' -> Nat]
  BY DEF CallFwrite, IInv, Owned
<1>6. Loading' /\ Writing'
  BY <1>1 DEF CallFwrite, Begin, Loading, Writing
<1> QED
  BY <1>4, <1>5, <1>6 DEF IInv

LEMMA HeaderFreadInv ==
  ASSUME IInv, HeaderFread
  PROVE  IInv'
<1> DEFINE next == Following(HeaderFields, at, SeekAllocator)
<1>1. next \in HeaderSlots \union {SeekAllocator} /\ (next = SeekAllocator => at = Slot("padding"))
  BY HeaderWalk DEF HeaderFread
<1> HIDE DEF next
<1>2. pos < Len(disk) /\ mem' = Got /\ pos' = pos + 1
  BY DEF HeaderFread, Get
<1>3. mem' \in [DOMAIN mem' -> Nat] /\ DOMAIN mem' = DOMAIN mem \union {at}
  BY <1>2, GotIsWith DEF IsMemory
<1>4. mode = "load" /\ at # Done /\ ~owned /\ owned' = owned
  BY Places DEF HeaderFread, IInv, Loading
<1>5. \/ mode' = mode /\ result' = result /\ at' = next
      \/ mode' = "idle" /\ at' = Done /\ result' = "not loaded"
  BY DEF HeaderFread, Return, next
<1>6. next # Done /\ next[1] \notin AllocatorFields
      /\ next \notin HeaderBlockSlots \union {Find, SeekHeaderBlock}
  BY <1>1, Places
<1>7. TypeOK'
  <2>1. mode # "idle" /\ DOMAIN mem \subseteq DOMAIN mem'
    BY <1>3, <1>4
  <2>2. \/ mode' = mode /\ result' = result /\ at' # Done
        \/ \E r \in {"loaded", "not loaded", "not written"} : Return(r)
    BY <1>5, <1>6 DEF Return
  <2> QED
    BY <1>2, <2>1, <2>2, Types, TypeStep DEF HeaderFread
<1>8. Loading'
  BY <1>1, <1>3, <1>4, <1>5, <1>6 DEF Loading
<1>9. Owned' /\ Writing'
  BY <1>4, <1>5 DEF Owned, Writing
<1> QED
  BY <1>3, <1>7, <1>8, <1>9 DEF IInv

LEMMA SeekBuddyAllocatorInv ==
  ASSUME IInv, SeekBuddyAllocator
  PROVE  IInv'
<1>1. at' = Slot("block_count") /\ at = SeekAllocator /\ mem' = mem /\ mode' = mode /\ owned' = owned
  BY DEF SeekBuddyAllocator
<1>2. at' \notin HeaderSlots \union HeaderBlockSlots
               \union {SeekAllocator, Find, SeekHeaderBlock, Done}
  BY <1>1, Places DEF Slot, AllocatorFields
<1>3. OnWalk(mem, at', PaddedCount(mem[Slot("block_count")])) /\ OnWalk(mem, at', Factor)
  BY <1>1 DEF OnWalk, Slot, AllocatorFields, EntryFields
<1>4. Passed(mem, at')
  BY <1>1 DEF Passed, Slot, EntryFields
<1>5. pos' \in Nat
  <2>1. Slot("allocator_offset") \in DOMAIN mem
    BY DEF IInv, TypeOK, Created
  <2>2. mem[Slot("allocator_offset")] \in Nat
    BY <2>1 DEF IInv
  <2> QED
    BY <2>2 DEF SeekBuddyAllocator
<1>6. mode # "idle"
  BY <1>1, Places DEF IInv, TypeOK
<1>7. TypeOK'
  BY <1>2, <1>5, <1>6 DEF SeekBuddyAllocator, IInv, TypeOK
<1>8. Slot("padding") \in DOMAIN mem \/ mode # "load"
  BY <1>1, Places DEF IInv, Loading
<1>9. Loading'
  BY <1>1, <1>2, <1>3, <1>4, <1>8 DEF IInv, Loading, Slot, AllocatorFields
<1>10. Owned' /\ Writing'
  BY <1>1, <1>3 DEF IInv, Owned, Writing
<1> QED
  BY <1>1, <1>7, <1>9, <1>10 DEF IInv

LEMMA AllocatorFreadInv ==
  ASSUME IInv, AllocatorFread
  PROVE  IInv'
<1> DEFINE n == PaddedCount(Got[Slot("block_count")])
           next == After(at, Got, n)
           v == disk[pos + 1]
<1>1. mode = "load" /\ at[1] \in AllocatorFields /\ ~owned /\ Slot("padding") \in DOMAIN mem
      /\ OnWalk(mem, at, PaddedCount(mem[Slot("block_count")])) /\ Passed(mem, at)
  BY Places DEF AllocatorFread, IInv, Loading
<1>2. pos < Len(disk) /\ mem' = Got /\ pos' = pos + 1
  BY DEF AllocatorFread, Get
<1>3. v \in Nat /\ Got = With(mem, at, v) /\ IsMemory(mem) /\ IsMemory(Got)
      /\ DOMAIN Got = DOMAIN mem \union {at}
  BY <1>2, GotIsWith
<1>4. /\ next = Done => AllRead(Got)
      /\ next # Done => OnWalk(Got, next, n) /\ Passed(Got, next)
  <2> HIDE DEF v
  <2> QED
    BY <1>1, <1>3, ReadOn
<1>5. at' = IF next = Done THEN Find ELSE next
  BY DEF AllocatorFread
<1> HIDE DEF next
<1>6. \/ next = Done /\ at' = Find
      \/ next # Done /\ at' = next /\ next[1] \in AllocatorFields
  BY <1>4, <1>5 DEF OnWalk
<1>7. at' # Done
  BY <1>6, Places
<1>8. TypeOK'
  BY <1>1, <1>2, <1>3, <1>7, Types, TypeStep DEF AllocatorFread
<1>9. Loading'
  <2>1. mode' = mode /\ owned' = owned /\ Slot("padding") \in DOMAIN mem'
    BY <1>1, <1>2, <1>3 DEF AllocatorFread
  <2>2. CASE next = Done
    BY <1>1, <1>2, <1>4, <1>6, <2>1, <2>2, Places DEF Loading
  <2>3. CASE next # Done
    <3>1. at' = next /\ at'[1] \in AllocatorFields
      BY <1>6, <2>3
    <3>2. at' \notin HeaderBlockSlots \union {Find, SeekHeaderBlock}
      BY <3>1, Places
    <3> QED
      BY <1>1, <1>2, <1>4, <2>1, <2>3, <3>1, <3>2 DEF Loading
  <2> QED
    BY <2>2, <2>3
<1>10. Owned' /\ Writing'
  BY <1>1 DEF AllocatorFread, Owned, Writing
<1> QED
  BY <1>2, <1>3, <1>8, <1>9, <1>10 DEF IInv, IsMemory

LEMMA FindDSDBInv ==
  ASSUME IInv, FindDSDB
  PROVE  IInv'
<1>1. mode = "load" /\ ~owned /\ Slot("padding") \in DOMAIN mem /\ AllRead(mem) /\ IsMemory(mem)
  BY Places DEF FindDSDB, IInv, Loading, IsMemory
<1>2. found' \in Nat
  BY <1>1, FirstEntry, SizesAssumption DEF FindDSDB
<1>3. \/ found' < mem[Slot("block_count")] /\ at' = SeekHeaderBlock /\ mode' = mode /\ result' = result
      \/ Return("not loaded")
  BY DEF FindDSDB
<1>4. TypeOK'
  BY <1>1, <1>2, <1>3, Types, TypeStep, Places DEF FindDSDB
<1>5. Loading'
  BY <1>1, <1>3, Places DEF FindDSDB, Loading, Return
<1>6. Owned' /\ Writing' /\ mem' \in [DOMAIN mem' -> Nat]
  BY <1>1, <1>3 DEF FindDSDB, Owned, Writing, Return, IsMemory
<1> QED
  BY <1>4, <1>5, <1>6 DEF IInv

LEMMA SeekToHeaderBlockInv ==
  ASSUME IInv, SeekToHeaderBlock
  PROVE  IInv'
<1>1. mode = "load" /\ ~owned /\ Slot("padding") \in DOMAIN mem /\ AllRead(mem)
      /\ found < mem[Slot("block_count")]
  BY Places DEF SeekToHeaderBlock, IInv, Loading
<1>2. at' \in HeaderBlockSlots
  BY DEF SeekToHeaderBlock, HeaderBlockSlots, HeaderBlockFields
<1>3. pos' \in Nat
  <2>1. mem[Slot("block_count")] \in Nat
    BY DEF IInv, Loading, AllRead, SeekToHeaderBlock
  <2>2. found \in 0 .. PaddedCount(mem[Slot("block_count")]) - 1
    <3> DEFINE b == mem[Slot("block_count")]
    <3>1. PaddedCount(b) \in Nat /\ PaddedCount(b) >= b
      BY <2>1, PaddedCountBounds
    <3>2. found \in Nat /\ found < b
      BY <1>1, Types
    <3> HIDE DEF b
    <3>3. found \in 0 .. PaddedCount(b) - 1
      BY <2>1, <3>1, <3>2 DEF b
    <3> QED
      BY <3>3 DEF b
  <2>3. <<"block_addresses", found, 0>> \in DOMAIN mem
    BY <1>1, <2>2 DEF AllRead, AddressesRead
  <2>4. mem[<<"block_addresses", found, 0>>] \in Nat
    BY <2>3 DEF IInv
  <2>5. \A a \in Nat : 1 + (a \div Unit) * Unit \in Nat
    BY SizesAssumption
  <2> QED
    BY <2>4, <2>5 DEF SeekToHeaderBlock, BlockOffset
<1>4. TypeOK'
  BY <1>1, <1>2, <1>3, Types, TypeStep, Places DEF SeekToHeaderBlock
<1>5. Loading'
  BY <1>1, <1>2, Places DEF SeekToHeaderBlock, Loading
<1>6. Owned' /\ Writing' /\ mem' \in [DOMAIN mem' -> Nat]
  BY <1>1 DEF SeekToHeaderBlock, IInv, Owned, Writing
<1> QED
  BY <1>4, <1>5, <1>6 DEF IInv

LEMMA HeaderBlockFreadInv ==
  ASSUME IInv, HeaderBlockFread
  PROVE  IInv'
<1> DEFINE next == Following(HeaderBlockFields, at, Done)
           v == disk[pos + 1]
<1>1. mode = "load" /\ ~owned /\ Slot("padding") \in DOMAIN mem /\ AllRead(mem)
      /\ found < mem[Slot("block_count")] /\ at \in HeaderBlockSlots
  BY Places DEF HeaderBlockFread, IInv, Loading
<1>2. pos < Len(disk) /\ mem' = Got /\ pos' = pos + 1
  BY DEF HeaderBlockFread, Get
<1>3. v \in Nat /\ Got = With(mem, at, v) /\ IsMemory(mem) /\ IsMemory(Got)
      /\ DOMAIN Got = DOMAIN mem \union {at}
      /\ \A x \in DOMAIN mem : x # at => Got[x] = mem[x]
  BY <1>2, GotIsWith
<1> HIDE DEF v
<1>4. at[1] \notin AllocatorFields /\ Slot("block_count") \in DOMAIN mem
  BY <1>1, Places DEF AllRead
<1>5. AllRead(Got) /\ Got[Slot("block_count")] = mem[Slot("block_count")]
  <2>1. Slot("block_count") # at
    BY <1>4 DEF Slot, AllocatorFields
  <2> QED
    BY <1>1, <1>3, <1>4, <2>1, AllStays
<1>6. next \in HeaderBlockSlots \union {Done}
  BY <1>1, HeaderBlockWalk
<1> HIDE DEF next
<1>7. \/ Return("not loaded") /\ owned' = owned
      \/ Return("loaded") /\ owned' = TRUE
      \/ next # Done /\ at' = next /\ mode' = mode /\ result' = result /\ owned' = owned
  BY DEF HeaderBlockFread, next
<1>8. TypeOK'
  <2>1. \/ mode # "idle" /\ mode' = mode /\ result' = result /\ at' # Done
        \/ \E r \in {"loaded", "not loaded", "not written"} : Return(r)
    BY <1>1, <1>7
  <2>2. owned' \in BOOLEAN
    BY <1>7, Types
  <2>3. DOMAIN mem \subseteq DOMAIN mem'
    BY <1>2, <1>3
  <2> QED
    BY <1>2, <2>1, <2>2, <2>3, Types, TypeStep DEF HeaderBlockFread
<1>9. found \in Nat /\ mem[Slot("block_count")] \in Nat
  BY <1>3, <1>4, Types DEF IsMemory
<1>10. Owned'
  <2>1. mem[Slot("block_count")] # 0
    BY <1>1, <1>9
  <2>2. AllRead(mem') /\ Slot("padding") \in DOMAIN mem' /\ mem'[Slot("block_count")] # 0
    BY <1>1, <1>2, <1>3, <1>5, <2>1
  <2> QED
    BY <2>2 DEF Owned
<1>11. Loading'
  BY <1>1, <1>2, <1>3, <1>5, <1>6, <1>7, Places DEF HeaderBlockFread, Loading, Return
<1>12. Writing' /\ mem' \in [DOMAIN mem' -> Nat]
  BY <1>1, <1>2, <1>3, <1>7 DEF Writing, Return, IsMemory
<1> QED
  BY <1>8, <1>10, <1>11, <1>12 DEF IInv

LEMMA FreadFailsInv ==
  ASSUME IInv, FreadFails
  PROVE  IInv'
<1>1. fault' \in BOOLEAN
  BY DEF FreadFails
<1> QED
  BY <1>1, FailsInv DEF FreadFails

LEMMA SeekFailsInv ==
  ASSUME IInv, SeekFails
  PROVE  IInv'
<1>1. \E r \in {"not loaded", "not written"} : Return(r)
  BY DEF SeekFails
<1>2. fault' \in BOOLEAN
  BY DEF SeekFails
<1> QED
  BY <1>1, <1>2, FailsInv DEF SeekFails

LEMMA FwriteFailsInv ==
  ASSUME IInv, FwriteFails
  PROVE  IInv'
<1>1. fault' \in BOOLEAN
  BY DEF FwriteFails
<1> QED
  BY <1>1, FailsInv DEF FwriteFails

(* The file that is written stays a sequence of values.                    *)
LEMMA PutType ==
  ASSUME IInv, NEW v \in Nat
  PROVE  Put(v) \in Seq(Nat)
<1> DEFINE n == IF pos < Len(disk) THEN Len(disk) ELSE pos + 1
<1>1. disk \in Seq(Nat) /\ n \in Nat
  BY Types
<1>2. \A k \in 1 .. n :
        (IF k = pos + 1 THEN v ELSE IF k <= Len(disk) THEN disk[k] ELSE 0) \in Nat
  BY <1>1
<1> HIDE DEF n
<1>3. [k \in 1 .. n |-> IF k = pos + 1 THEN v ELSE IF k <= Len(disk) THEN disk[k] ELSE 0]
        \in Seq(Nat)
  BY <1>1, <1>2
<1> QED
  BY <1>3 DEF Put, n

(* All that is written has been read.                                      *)
LEMMA WrittenWasRead ==
  ASSUME IInv
  PROVE  WritesWhatWasRead
<1> SUFFICES ASSUME mode = "write", at # SeekAllocator
             PROVE  at \in DOMAIN mem
  BY DEF WritesWhatWasRead
<1>1. /\ AllRead(mem) /\ Slot("padding") \in DOMAIN mem /\ mem[Slot("block_count")] # 0
      /\ at \in HeaderSlots \/ OnWalk(mem, at, Factor)
  BY DEF IInv, Writing, Owned
<1>2. CASE at \in HeaderSlots
  <2>1. DOMAIN Created \subseteq DOMAIN mem
    BY DEF IInv, TypeOK
  <2>2. HeaderSlots = {Slot("version"), Slot("magic"), Slot("allocator_offset"),
                       Slot("allocator_size"), Slot("allocator_offset_check"), Slot("padding")}
    BY DEF HeaderSlots, HeaderFields
  <2>3. DOMAIN Created = {Slot("version"), Slot("magic"), Slot("allocator_offset"),
                          Slot("allocator_size"), Slot("allocator_offset_check")}
    BY DEF Created
  <2> QED
    BY <1>1, <1>2, <2>1, <2>2, <2>3
<1>3. CASE OnWalk(mem, at, Factor)
  <2>1. CASE at[1] \in {"block_count", "unknown", "directory_count"}
    BY <1>1, <1>3, <2>1 DEF OnWalk, AllRead
  <2>2. CASE at[1] = "block_addresses"
    <3> DEFINE b == mem[Slot("block_count")]
    <3>1. b \in Nat /\ b # 0
      BY <1>1 DEF AllRead, IInv
    <3>2. PaddedCount(b) \in Nat /\ PaddedCount(b) >= Factor
      BY <3>1, PaddedCountBounds
    <3>3. at = <<"block_addresses", at[2], 0>> /\ at[2] \in 0 .. Factor - 1
      BY <1>3, <2>2 DEF OnWalk
    <3>4. AddressesRead(mem, PaddedCount(b))
      BY <1>1 DEF AllRead
    <3> HIDE DEF b
    <3>5. at[2] \in 0 .. PaddedCount(b) - 1
      BY <3>2, <3>3, SizesAssumption
    <3> QED
      BY <3>3, <3>4, <3>5 DEF AddressesRead
  <2>3. CASE at[1] \in EntryFields
    BY <1>1, <1>3, <2>3 DEF OnWalk, AllRead, EntriesRead
  <2>4. CASE at[1] = "free_count"
    BY <1>1, <1>3, <2>4 DEF OnWalk, AllRead, ListsRead
  <2>5. CASE at[1] = "offsets"
    BY <1>1, <1>3, <2>5 DEF OnWalk, AllRead, ListsRead, OffsetsRead
  <2> QED
    BY <1>3, <2>1, <2>2, <2>3, <2>4, <2>5 DEF OnWalk, AllocatorFields, EntryFields
<1> QED
  BY <1>1, <1>2, <1>3

LEMMA HeaderFwriteInv ==
  ASSUME IInv, HeaderFwrite
  PROVE  IInv'
<1> DEFINE next == Following(HeaderFields, at, SeekAllocator)
<1>1. next \in HeaderSlots \union {SeekAllocator}
  BY HeaderWalk DEF HeaderFwrite
<1> HIDE DEF next
<1>2. at' = next /\ mode = "write" /\ mode' = mode /\ mem' = mem /\ owned' = owned /\ owned
  BY DEF HeaderFwrite, next, IInv, Writing
<1>3. disk' \in Seq(Nat)
  <2>1. at \in DOMAIN mem
    BY WrittenWasRead, Places DEF WritesWhatWasRead, HeaderFwrite
  <2>2. mem[at] \in Nat
    BY <2>1 DEF IInv
  <2> QED
    BY <2>2, PutType DEF HeaderFwrite
<1>4. at' # Done
  BY <1>1, <1>2, Places
<1>5. TypeOK'
  BY <1>2, <1>3, <1>4, Types, TypeStep DEF HeaderFwrite
<1>6. Loading' /\ Owned' /\ Writing' /\ mem' \in [DOMAIN mem' -> Nat]
  BY <1>1, <1>2 DEF IInv, Loading, Owned, Writing
<1> QED
  BY <1>5, <1>6 DEF IInv

LEMMA AllocatorFwriteInv ==
  ASSUME IInv, AllocatorFwrite
  PROVE  IInv'
<1> DEFINE next == After(at, mem, Factor)
<1>1. mode = "write" /\ owned /\ AllRead(mem) /\ OnWalk(mem, at, Factor) /\ IsMemory(mem)
  BY Places DEF AllocatorFwrite, IInv, Writing, Owned, IsMemory
<1>2. mem[Slot("directory_count")] \in Nat
  BY <1>1 DEF AllRead, IsMemory
<1>3. at[1] \in {"free_count", "offsets"} => mem[<<"free_count", at[2], 0>>] \in Nat
  BY <1>1 DEF OnWalk, AllRead, ListsRead, IsMemory
<1>4. next = Done \/ OnWalk(mem, next, Factor)
  BY <1>1, <1>2, <1>3, AfterOnWalk, SizesAssumption
<1> HIDE DEF next
<1>5. \/ Return("not written")
      \/ next # Done /\ at' = next /\ mode' = mode /\ result' = result
  BY DEF AllocatorFwrite, WrittenCount, next
<1>6. disk' \in Seq(Nat)
  <2>1. at \in DOMAIN mem
    BY <1>1, WrittenWasRead, Places DEF WritesWhatWasRead, AllocatorFwrite
  <2>2. mem[at] \in Nat
    BY <1>1, <2>1 DEF IsMemory
  <2> QED
    BY <2>2, PutType DEF AllocatorFwrite
<1>7. TypeOK'
  BY <1>1, <1>5, <1>6, Types, TypeStep DEF AllocatorFwrite
<1>8. Loading' /\ Owned' /\ Writing' /\ mem' \in [DOMAIN mem' -> Nat]
  BY <1>1, <1>4, <1>5 DEF AllocatorFwrite, Return, IInv, Loading, Owned, Writing
<1> QED
  BY <1>7, <1>8 DEF IInv

LEMMA StutterInv ==
  ASSUME IInv, UNCHANGED vars
  PROVE  IInv'
<1> USE DEF vars
<1>1. TypeOK' /\ mem' \in [DOMAIN mem' -> Nat]
  BY DEF IInv, TypeOK
<1>2. Loading'
  BY DEF IInv, Loading
<1>3. Owned' /\ Writing'
  BY DEF IInv, Owned, Writing
<1> QED
  BY <1>1, <1>2, <1>3 DEF IInv

-----------------------------------------------------------------------------
(* Theorems.                                                               *)

(* The invariant of reading and writing: while ds_store_fread runs, all    *)
(* that it transfers before the field at hand is in memory; what is read   *)
(* stays so while ds_store_fwrite runs.                                    *)
THEOREM Invariance == Spec => []IInv
<1>1. Init => IInv
  BY InitInv
<1>2. IInv /\ [Next]_vars => IInv'
  BY CallFreadInv, CallFwriteInv, HeaderFreadInv, SeekBuddyAllocatorInv, AllocatorFreadInv,
     FindDSDBInv, SeekToHeaderBlockInv, HeaderBlockFreadInv, FreadFailsInv, SeekFailsInv,
     HeaderFwriteInv, AllocatorFwriteInv, FwriteFailsInv, StutterInv DEF Next, Step
<1> QED
  BY <1>1, <1>2, PTL DEF Spec

(* The variables have their types: the file stays a sequence of values.    *)
THEOREM TypeCorrect == Spec => []TypeOK
<1>1. IInv => TypeOK
  BY DEF IInv
<1> QED
  BY <1>1, Invariance, PTL

(* For a list of addresses of any length, the range check of the header    *)
(* block's number is enough: its address was read from the file.           *)
THEOREM HeaderBlockAddressWasRead == Spec => []AddressWasRead
<1>1. ASSUME IInv
      PROVE  AddressWasRead
  <2> SUFFICES ASSUME at = SeekHeaderBlock
               PROVE  <<"block_addresses", found, 0>> \in DOMAIN mem
    BY DEF AddressWasRead
  <2> DEFINE b == mem[Slot("block_count")]
  <2>1. mode = "load"
    BY <1>1, Places DEF IInv, TypeOK, Writing, OnWalk
  <2>2. AllRead(mem) /\ found < b
    BY <1>1, <2>1, Places DEF IInv, Loading
  <2>3. b \in Nat /\ found \in Nat
    BY <1>1, <2>2, Types DEF AllRead, IInv
  <2>4. PaddedCount(b) \in Nat /\ PaddedCount(b) >= b
    BY <2>3, PaddedCountBounds
  <2>5. AddressesRead(mem, PaddedCount(b))
    BY <2>2 DEF AllRead
  <2> HIDE DEF b
  <2>6. found \in 0 .. PaddedCount(b) - 1
    BY <2>2, <2>3, <2>4
  <2> QED
    BY <2>5, <2>6 DEF AddressesRead
<1> QED
  BY <1>1, Invariance, PTL

(* The writer transfers 256 addresses where the reader transfers a padded  *)
(* list: for a store with any number of blocks, every field that is        *)
(* written has a value.                                                    *)
THEOREM WritesOnlyWhatWasRead == Spec => []WritesWhatWasRead
<1>1. IInv => WritesWhatWasRead
  BY WrittenWasRead
<1> QED
  BY <1>1, Invariance, PTL


-----------------------------------------------------------------------------
(* How many addresses the file has.                                        *)

(* What division by a natural number is. *)
LEMMA Division ==
  ASSUME NEW a \in Int, NEW b \in Nat \ {0}
  PROVE  /\ a \div b \in Int
         /\ a % b \in 0 .. b - 1
         /\ a = b * (a \div b) + (a % b)
OBVIOUS

(* A multiple of Factor leaves nothing. *)
LEMMA MultipleMod ==
  ASSUME NEW q \in Int
  PROVE  (Factor * q) % Factor = 0
BY SizesAssumption

(* Two multiples of Factor that are less than Factor apart are equal. *)
LEMMA Window ==
  ASSUME NEW x \in Int, NEW y \in Int,
         Factor * x - Factor * y < Factor, Factor * y - Factor * x < Factor
  PROVE  x = y
<1>1. CASE x > y
  <2>1. Factor * (x - y) >= Factor * 1
    BY <1>1, SizesAssumption
  <2> QED
    BY <2>1, SizesAssumption
<1>2. CASE y > x
  <2>1. Factor * (y - x) >= Factor * 1
    BY <1>2, SizesAssumption
  <2> QED
    BY <2>1, SizesAssumption
<1> QED
  BY <1>1, <1>2

(* The sum in dsstore_buddy_allocator_fread is the next multiple of Factor. *)
THEOREM PaddedIsNextMultiple ==
  ASSUME NEW n \in Nat
  PROVE  NextMultiple(n) = PaddedCount(n)
<1> DEFINE w == (n - 1) % Word
           r == w % Factor
           a == (n - 1) \div Word
           b == w \div Factor
           k == Word \div Factor
<1>1. a \in Int /\ n - 1 = Word * a + w /\ w \in 0 .. Word - 1
  BY Division, SizesAssumption
<1>2. b \in Int /\ w = Factor * b + r /\ r \in 0 .. Factor - 1
  BY <1>1, Division, SizesAssumption
<1>3. k \in Int /\ Word = Factor * k
  BY Division, SizesAssumption
<1> DEFINE q == k * a + b + 1
<1> HIDE DEF a, b, k
<1>0. q \in Int
  BY <1>1, <1>2, <1>3
<1>4. PaddedCount(n) = Factor * q
  <2>1. n - 1 = Factor * (k * a) + Factor * b + r
    BY <1>1, <1>2, <1>3, SizesAssumption
  <2>2. PaddedCount(n) = n + Factor - 1 - r
    BY DEF PaddedCount
  <2> HIDE DEF w, r
  <2>3. Factor * q = Factor * (k * a) + Factor * b + Factor
    BY <1>1, <1>2, <1>3, SizesAssumption
  <2> QED
    BY <1>1, <1>2, <1>3, <2>1, <2>2, <2>3, SizesAssumption
<1>5. PaddedCount(n) \in n .. n + Factor - 1 /\ PaddedCount(n) % Factor = 0
  <2>1. PaddedCount(n) % Factor = 0
    BY <1>4, <1>0, MultipleMod
  <2>2. PaddedCount(n) = n + Factor - 1 - r
    BY DEF PaddedCount
  <2> QED
    BY <2>1, <2>2, <1>2, SizesAssumption
<1>6. ASSUME NEW c \in n .. n + Factor - 1, c % Factor = 0
      PROVE  c = PaddedCount(n)
  <2>1. c \div Factor \in Int /\ c = Factor * (c \div Factor)
    BY <1>6, Division, SizesAssumption
  <2> DEFINE x == c \div Factor
  <2>2. Factor * x - Factor * q < Factor /\ Factor * q - Factor * x < Factor
    BY <1>4, <1>5, <2>1, SizesAssumption
  <2> QED
    BY <1>4, <1>0, <2>1, <2>2, Window
<1> QED
  BY <1>5, <1>6 DEF NextMultiple

LEMMA AddressCountIs ==
  ASSUME NEW m, m[Slot("block_count")] \in Nat
  PROVE  AddressCount(m) = PaddedCount(m[Slot("block_count")])
BY PaddedIsNextMultiple DEF AddressCount

LEMMA WalkCount ==
  ASSUME NEW m, NEW s, s[1] # "block_count" => m[Slot("block_count")] \in Nat
  PROVE  OnWalk(m, s, AddressCount(m)) <=> OnWalk(m, s, PaddedCount(m[Slot("block_count")]))
<1>1. CASE s[1] = "block_count"
  BY <1>1 DEF OnWalk, EntryFields
<1>2. CASE s[1] # "block_count"
  BY <1>2, AddressCountIs
<1> QED
  BY <1>1, <1>2

(* The same for the slot that the reader is about to read.                 *)
LEMMA WalkAt ==
  ASSUME IInv, mode = "load", at[1] \in AllocatorFields
  PROVE  /\ OnWalk(mem, at, AddressCount(mem)) /\ Passed(mem, at)
         /\ OnWalk(mem, at, PaddedCount(mem[Slot("block_count")]))
<1>1. OnWalk(mem, at, PaddedCount(mem[Slot("block_count")])) /\ Passed(mem, at)
  BY DEF IInv, Loading
<1>2. at[1] # "block_count" => mem[Slot("block_count")] \in Nat
  BY <1>1 DEF Passed, IInv
<1> QED
  BY <1>1, <1>2, WalkCount

-----------------------------------------------------------------------------
(* The places of the slots.                                                *)

(* The numbers that the place of a slot of the walk is computed from.      *)
Numbers(m, s) ==
  /\ m[Slot("allocator_offset")] \in Nat
  /\ s[1] # "block_count" => AddressCount(m) \in Nat
  /\ s[1] \in EntryFields \union {"directory_count", "free_count", "offsets"} =>
       m[Slot("directory_count")] \in Nat
  /\ s[1] \in {"free_count", "offsets"} => m[<<"free_count", s[2], 0>>] \in Nat

(* The slot that follows in the walk is at the place that follows: the     *)
(* next free list begins there, and after the last one nothing is left.    *)
LEMMA NextPlace ==
  ASSUME NEW m, NEW lists \in ListPlaces, NEW s,
         OnWalk(m, s, AddressCount(m)), Numbers(m, s), AddressCount(m) \in Nat
  PROVE  LET next == After(s, m, AddressCount(m))
         IN  \/ next = Done /\ Begun(s) = FreeLists
             \/ /\ next # Done /\ next[1] # "free_count" /\ Begun(next) = Begun(s)
                /\ Place(m, lists, next) = Place(m, lists, s) + 1
             \/ /\ Begun(s) \in 0 .. FreeLists - 1 /\ next = <<"free_count", Begun(s), 0>>
                /\ ListStart(m, lists, Begun(s)) = Place(m, lists, s) + 1
<1> DEFINE n == AddressCount(m)
           b == Base(m)
           d == m[Slot("directory_count")]
           next == After(s, m, n)
           goal == \/ next = Done /\ Begun(s) = FreeLists
                   \/ /\ next # Done /\ next[1] # "free_count" /\ Begun(next) = Begun(s)
                      /\ Place(m, lists, next) = Place(m, lists, s) + 1
                   \/ /\ Begun(s) \in 0 .. FreeLists - 1 /\ next = <<"free_count", Begun(s), 0>>
                      /\ ListStart(m, lists, Begun(s)) = Place(m, lists, s) + 1
<1>1. b \in Nat /\ n \in Nat /\ Directory(m) = b + 2 + n
  BY DEF Numbers, Base, Directory
<1> HIDE DEF n, b, d, next, goal
<1>2. /\ FreeListFrom(0) = <<"free_count", 0, 0>> /\ 0 \in 0 .. FreeLists - 1
      /\ \A t : Done # <<t[1], t[2], t[3]>> \/ t[1] = "done"
  BY SizesAssumption DEF FreeListFrom, Done, Slot
<1>3. ASSUME s[1] = "block_count"
      PROVE  goal
  <2>1. next = <<"unknown", 0, 0>>
    BY <1>3 DEF next, After, Slot
  <2>2. Place(m, lists, next) = b + 1 /\ Place(m, lists, s) = b
    BY <1>3, <2>1 DEF Place, b
  <2> QED
    BY <1>3, <2>1, <2>2 DEF goal, Begun, Done, Slot
<1>4. ASSUME NEW k \in Nat, k <= n, Place(m, lists, s) = b + 1 + k, Begun(s) = 0,
             next = IF k < n THEN <<"block_addresses", k, 0>> ELSE Slot("directory_count")
      PROVE  goal
  <2>1. CASE k < n
    <3>1. next = <<"block_addresses", k, 0>> /\ Place(m, lists, next) = b + 2 + k
      BY <1>4, <2>1 DEF Place, b
    <3> QED
      BY <1>1, <1>4, <3>1 DEF goal, Begun, Done, Slot
  <2>2. CASE k = n
    <3>1. next = <<"directory_count", 0, 0>>
      BY <1>1, <1>4, <2>2 DEF Slot
    <3>2. Place(m, lists, next) = b + 2 + n
      BY <1>1, <3>1 DEF Place
    <3> QED
      BY <1>1, <1>4, <2>2, <3>1, <3>2 DEF goal, Begun, Done, Slot
  <2> QED
    BY <1>1, <1>4, <2>1, <2>2
<1>5. ASSUME s[1] = "unknown"
      PROVE  goal
  <2>1. next = IF 0 < n THEN <<"block_addresses", 0, 0>> ELSE Slot("directory_count")
    BY <1>5 DEF next, After
  <2>2. Place(m, lists, s) = b + 1 /\ Begun(s) = 0
    BY <1>5 DEF Place, b, Begun
  <2>3. Place(m, lists, s) = b + 1 + 0 /\ 0 <= n
    BY <1>1, <2>2
  <2> QED
    BY <1>4, <2>1, <2>2, <2>3
<1>6. ASSUME s[1] = "block_addresses"
      PROVE  goal
  <2>1. s[2] \in 0 .. n - 1
    BY <1>6 DEF OnWalk, n
  <2>2. next = IF s[2] + 1 < n THEN <<"block_addresses", s[2] + 1, 0>>
                               ELSE Slot("directory_count")
    BY <1>6 DEF next, After
  <2>3. Place(m, lists, s) = b + 2 + s[2] /\ Begun(s) = 0
    BY <1>6 DEF Place, b, Begun
  <2>4. s[2] + 1 \in Nat /\ s[2] + 1 <= n /\ Place(m, lists, s) = b + 1 + (s[2] + 1)
    BY <1>1, <2>1, <2>3
  <2> QED
    BY <1>4, <2>2, <2>3, <2>4
<1>7. ASSUME NEW k \in Nat, k <= d, d \in Nat, Place(m, lists, s) = b + 2 + n + 3 * k,
             Begun(s) = 0, next = EntryFrom(m, k)
      PROVE  goal
  <2>1. CASE k < d
    <3>1. next = <<"count", k, 0>>
      BY <1>7, <2>1 DEF EntryFrom, d
    <3>2. Place(m, lists, next) = b + 2 + n + 1 + 3 * k
      BY <1>1, <3>1 DEF Place
    <3> QED
      BY <1>1, <1>7, <3>1, <3>2 DEF goal, Begun, Done, Slot
  <2>2. CASE k = d
    <3>1. next = <<"free_count", 0, 0>>
      BY <1>2, <1>7, <2>2 DEF EntryFrom, d
    <3>2. ListStart(m, lists, 0) = b + 2 + n + 1 + 3 * d
      BY <1>1 DEF ListStart, d
    <3> QED
      BY <1>1, <1>2, <1>7, <2>2, <3>1, <3>2 DEF goal
  <2> QED
    BY <1>7, <2>1, <2>2
<1>8. ASSUME s[1] = "directory_count"
      PROVE  goal
  <2>1. next = EntryFrom(m, 0) /\ Begun(s) = 0 /\ d \in Nat
    BY <1>8 DEF next, After, Begun, d, Numbers
  <2>2. Place(m, lists, s) = b + 2 + n + 3 * 0
    BY <1>1, <1>8 DEF Place
  <2> QED
    BY <1>7, <2>1, <2>2
<1>9. ASSUME s[1] \in {"count", "bytes"}
      PROVE  goal
  <2>1. next = <<IF s[1] = "count" THEN "bytes" ELSE "block_number", s[2], 0>>
    BY <1>9 DEF next, After
  <2>2. s[2] \in Nat
    <3>1. s[2] \in 0 .. d - 1
      BY <1>9 DEF OnWalk, EntryFields, d
    <3> QED
      BY <3>1
  <2>3. Place(m, lists, next) = Place(m, lists, s) + 1
    BY <1>1, <1>9, <2>1, <2>2 DEF Place
  <2> QED
    BY <1>9, <2>1, <2>3 DEF goal, Begun, Done, Slot
<1>10. ASSUME s[1] = "block_number"
       PROVE  goal
  <2>1. s[2] \in 0 .. d - 1 /\ d \in Nat
    BY <1>10 DEF OnWalk, EntryFields, d, Numbers
  <2>2. next = EntryFrom(m, s[2] + 1) /\ Begun(s) = 0
    BY <1>10 DEF next, After, Begun
  <2>3. Place(m, lists, s) = b + 2 + n + 3 + 3 * s[2]
    BY <1>1, <1>10 DEF Place
  <2>4. s[2] + 1 \in Nat /\ s[2] + 1 <= d /\ Place(m, lists, s) = b + 2 + n + 3 * (s[2] + 1)
    BY <1>1, <2>1, <2>3
  <2> QED
    BY <1>7, <2>1, <2>2, <2>4
<1>11. ASSUME NEW i \in 0 .. FreeLists - 1, NEW j \in Nat, s[1] \in {"free_count", "offsets"},
              i = s[2], next = OffsetFrom(m, i, j), j <= m[<<"free_count", i, 0>>],
              Place(m, lists, s) = lists[i] + j
       PROVE  goal
  <2> DEFINE c == m[<<"free_count", i, 0>>]
  <2>1. lists[i] \in Nat /\ c \in Nat /\ Begun(s) = i + 1
    BY <1>11 DEF ListPlaces, Numbers, Begun
  <2>2. CASE j < c
    <3>1. next = <<"offsets", i, j>>
      BY <1>11, <2>2 DEF OffsetFrom
    <3>2. Place(m, lists, next) = lists[i] + 1 + j
      BY <3>1 DEF Place
    <3>3. Begun(next) = i + 1 /\ next # Done
      BY <3>1 DEF Begun, Done, Slot
    <3> QED
      BY <1>11, <2>1, <3>1, <3>2, <3>3 DEF goal
  <2>3. CASE j = c
    <3>1. next = FreeListFrom(i + 1)
      BY <1>11, <2>1, <2>3 DEF OffsetFrom
    <3>2. CASE i + 1 < FreeLists
      <4>1. next = <<"free_count", i + 1, 0>> /\ i + 1 \in 0 .. FreeLists - 1
        BY <1>11, <3>1, <3>2, SizesAssumption DEF FreeListFrom
      <4>2. i + 1 # 0 /\ (i + 1) - 1 = i
        BY <1>11
      <4>3. ListStart(m, lists, i + 1) = lists[i] + 1 + c
        BY <4>2 DEF ListStart
      <4>4. ListStart(m, lists, i + 1) = Place(m, lists, s) + 1
        <5> HIDE DEF c
        <5> QED
          BY <1>11, <2>1, <2>3, <4>3
      <4> QED
        BY <2>1, <4>1, <4>4 DEF goal
    <3>3. CASE i + 1 = FreeLists
      BY <1>11, <2>1, <3>1, <3>3, SizesAssumption DEF FreeListFrom, goal
    <3> QED
      BY <1>11, <3>2, <3>3, SizesAssumption
  <2> QED
    BY <1>11, <2>1, <2>2, <2>3
<1>12. ASSUME s[1] = "free_count"
       PROVE  goal
  <2>1. s[2] \in 0 .. FreeLists - 1 /\ next = OffsetFrom(m, s[2], 0)
    BY <1>12 DEF OnWalk, next, After
  <2>2. lists[s[2]] \in Nat /\ m[<<"free_count", s[2], 0>>] \in Nat
    BY <1>12, <2>1 DEF ListPlaces, Numbers
  <2>3. Place(m, lists, s) = lists[s[2]] + 0 /\ 0 <= m[<<"free_count", s[2], 0>>]
    BY <1>12, <2>2 DEF Place
  <2> QED
    BY <1>11, <1>12, <2>1, <2>3
<1>13. ASSUME s[1] = "offsets"
       PROVE  goal
  <2>1. /\ s[2] \in 0 .. FreeLists - 1 /\ next = OffsetFrom(m, s[2], s[3] + 1)
        /\ s[3] \in 0 .. m[<<"free_count", s[2], 0>>] - 1
    BY <1>13 DEF OnWalk, next, After
  <2>2. lists[s[2]] \in Nat /\ m[<<"free_count", s[2], 0>>] \in Nat
    BY <1>13, <2>1 DEF ListPlaces, Numbers
  <2>3. Place(m, lists, s) = lists[s[2]] + 1 + s[3]
    BY <1>13 DEF Place
  <2>4. /\ s[3] + 1 \in Nat /\ s[3] + 1 <= m[<<"free_count", s[2], 0>>]
        /\ Place(m, lists, s) = lists[s[2]] + (s[3] + 1)
    BY <2>1, <2>2, <2>3
  <2> QED
    BY <1>11, <1>13, <2>1, <2>4
<1>14. goal
  BY <1>3, <1>5, <1>6, <1>8, <1>9, <1>10, <1>12, <1>13 DEF OnWalk, AllocatorFields
<1> QED
  BY <1>14 DEF goal, next, n

-----------------------------------------------------------------------------
(* Reading one slot of the allocator after the other.                      *)

LEMMA KnownNumbers ==
  ASSUME NEW m, IsMemory(m), Slot("allocator_offset") \in DOMAIN m,
         NEW s \in DOMAIN m, NEW n, Known(m, s, n)
  PROVE  Numbers(m, s) /\ AddressCount(m) \in Nat
<1>1. \A x \in DOMAIN m : m[x] \in Nat
  BY DEF IsMemory
<1>2. AddressCount(m) \in Nat
  BY <1>1, PaddedCountBounds, AddressCountIs DEF Known
<1>3. s[1] = "directory_count" => s = Slot("directory_count")
  BY DEF Known, OnWalk
<1> QED
  BY <1>1, <1>2, <1>3 DEF Known, Numbers

(* What is known of a slot stays so when another one is read.              *)
LEMMA PlaceStays ==
  ASSUME NEW m, IsMemory(m), Slot("allocator_offset") \in DOMAIN m, NEW n,
         NEW t, NEW v \in Nat,
         \A y \in DOMAIN m : y[1] \in AllocatorFields \/ y = Slot("allocator_offset") => y # t,
         NEW x \in DOMAIN m, x[1] \in AllocatorFields, Known(m, x, n), NEW lists
  PROVE  /\ Known(With(m, t, v), x, n)
         /\ Place(With(m, t, v), lists, x) = Place(m, lists, x)
<1> DEFINE g == With(m, t, v)
<1>1. /\ DOMAIN g = DOMAIN m \union {t}
      /\ \A y \in DOMAIN m :
           y[1] \in AllocatorFields \/ y = Slot("allocator_offset") => g[y] = m[y]
  BY DEF With
<1> HIDE DEF g
<1>2. /\ g[Slot("allocator_offset")] = m[Slot("allocator_offset")]
      /\ AddressCount(g) = AddressCount(m)
  BY <1>1 DEF Known, AddressCount, Slot, AllocatorFields
<1>3. Place(g, lists, x) = Place(m, lists, x)
  BY <1>2 DEF Place, Base, Directory
<1>4. /\ x[1] \in EntryFields =>
           g[Slot("directory_count")] = m[Slot("directory_count")]
      /\ x[1] = "offsets" => g[<<"free_count", x[2], 0>>] = m[<<"free_count", x[2], 0>>]
  BY <1>1 DEF Known, Slot, AllocatorFields
<1>5. OnWalk(g, x, AddressCount(g))
  BY <1>2, <1>4 DEF Known, OnWalk
<1>6. Known(g, x, n)
  BY <1>1, <1>5 DEF Known
<1> QED
  BY <1>3, <1>6 DEF g

(* The slot that is read is a new one, and is at the place that was read.  *)
LEMMA ReadSlot ==
  ASSUME NEW m, IsMemory(m), Slot("allocator_offset") \in DOMAIN m,
         NEW s, NEW v \in Nat, NEW lists, NEW p \in Nat, NEW cells,
         OnWalk(m, s, AddressCount(m)), Passed(m, s),
         ReadFrom(cells, m, lists, Begun(s), p),
         p + 1 = Place(m, lists, s), Holds(cells, p + 1, v)
  PROVE  /\ s \notin DOMAIN m
         /\ ReadFrom(cells, With(m, s, v), lists, Begun(s), p + 1)
         /\ Known(With(m, s, v), s, Begun(s))
         /\ Place(With(m, s, v), lists, s) = p + 1
<1> DEFINE g == With(m, s, v)
           b == Begun(s)
<1>1. s[1] \in AllocatorFields
  BY DEF OnWalk
<1>2. s \notin DOMAIN m
  <2>1. p + 1 > p
    OBVIOUS
  <2> QED
    BY <1>1, <2>1 DEF ReadFrom
<1>3. DOMAIN g = DOMAIN m \union {s} /\ g[s] = v /\ \A y \in DOMAIN m : g[y] = m[y]
  BY <1>2 DEF With
<1>4. ASSUME NEW x \in DOMAIN m, x[1] \in AllocatorFields
      PROVE  /\ Known(g, x, b) /\ Place(g, lists, x) = Place(m, lists, x)
             /\ Place(g, lists, x) <= p /\ Holds(cells, Place(g, lists, x), g[x])
  <2>1. Known(m, x, b) /\ Place(m, lists, x) <= p /\ Holds(cells, Place(m, lists, x), m[x])
    BY <1>4 DEF ReadFrom, AllocatorStands
  <2>2. \A y \in DOMAIN m : y # s
    BY <1>2
  <2>3. Known(g, x, b) /\ Place(g, lists, x) = Place(m, lists, x)
    BY <1>4, <2>1, <2>2, PlaceStays
  <2>4. g[x] = m[x]
    BY <1>3
  <2> HIDE DEF g, b
  <2> QED
    BY <2>1, <2>3, <2>4
<1> HIDE DEF g
<1>5. g[Slot("allocator_offset")] = m[Slot("allocator_offset")]
  BY <1>3
<1>6. ASSUME s[1] # "block_count"
      PROVE  Slot("block_count") \in DOMAIN m /\ AddressCount(g) = AddressCount(m)
  <2>1. Slot("block_count") \in DOMAIN m
    BY <1>6 DEF Passed
  <2> QED
    BY <1>3, <2>1 DEF AddressCount
<1>7. ASSUME s[1] \in EntryFields \union {"free_count", "offsets"}
      PROVE  /\ Slot("directory_count") \in DOMAIN m
             /\ g[Slot("directory_count")] = m[Slot("directory_count")]
  <2>1. Slot("directory_count") \in DOMAIN m
    BY <1>7 DEF Passed
  <2> QED
    BY <1>3, <2>1
<1>8. s[1] = "offsets" => /\ <<"free_count", s[2], 0>> \in DOMAIN m
                          /\ g[<<"free_count", s[2], 0>>] = m[<<"free_count", s[2], 0>>]
  BY <1>3 DEF Passed
<1>9. Place(g, lists, s) = p + 1
  <2>1. CASE s[1] = "block_count"
    BY <1>5, <2>1 DEF Place, Base
  <2>2. CASE s[1] # "block_count"
    BY <1>5, <1>6, <2>2 DEF Place, Base, Directory
  <2> QED
    BY <2>1, <2>2
<1>10. Known(g, s, b)
  <2>1. OnWalk(g, s, AddressCount(g))
    <3>1. CASE s[1] = "block_count"
      BY <3>1 DEF OnWalk, EntryFields
    <3>2. CASE s[1] # "block_count"
      BY <1>6, <1>7, <1>8, <3>2 DEF OnWalk
    <3> QED
      BY <3>1, <3>2
  <2>2. Slot("block_count") \in DOMAIN g
    <3>1. s[1] = "block_count" => s = Slot("block_count")
      BY DEF OnWalk
    <3> QED
      BY <1>3, <1>6, <3>1
  <2>3. s[1] \in {"free_count", "offsets"} =>
          s[2] < b /\ <<"free_count", s[2], 0>> \in DOMAIN g
    <3>1. s[1] \in {"free_count", "offsets"} => s[2] \in 0 .. FreeLists - 1
      BY DEF OnWalk
    <3>2. s[1] = "free_count" => s = <<"free_count", s[2], 0>>
      BY DEF OnWalk
    <3> QED
      BY <1>3, <1>8, <3>1, <3>2, SizesAssumption DEF Begun
  <2> QED
    BY <1>3, <1>7, <2>1, <2>2, <2>3 DEF Known
<1>11. Chain(g, lists, b)
  <2> SUFFICES ASSUME NEW i \in 0 .. b - 1
               PROVE  ListStart(g, lists, i) = ListStart(m, lists, i)
    BY DEF ReadFrom, Chain
  <2>1. s[1] \in {"free_count", "offsets"} /\ b = s[2] + 1 /\ s[2] \in 0 .. FreeLists - 1
    BY DEF Begun, OnWalk
  <2>2. CASE i = 0
    BY <1>5, <1>6, <1>7, <2>1, <2>2 DEF ListStart, Directory, Base
  <2>3. CASE i # 0
    <3>1. i - 1 \in 0 .. s[2] - 1
      BY <2>1, <2>3
    <3>2. <<"free_count", i - 1, 0>> \in DOMAIN m
      BY <2>1, <3>1 DEF Passed, ListsRead
    <3> QED
      BY <1>3, <2>3, <3>2 DEF ListStart
  <2> QED
    BY <2>2, <2>3
<1>12. ReadFrom(cells, g, lists, b, p + 1)
  <2>1. ASSUME NEW x \in DOMAIN g, x[1] \in AllocatorFields
        PROVE  /\ Known(g, x, b) /\ Place(g, lists, x) <= p + 1
               /\ Holds(cells, Place(g, lists, x), g[x])
    <3>1. CASE x = s
      BY <1>3, <1>9, <1>10, <3>1
    <3>2. CASE x \in DOMAIN m
      <4>1. Known(g, x, b) /\ Place(g, lists, x) <= p /\ Holds(cells, Place(g, lists, x), g[x])
        BY <1>4, <2>1, <3>2
      <4> DEFINE q == Place(g, lists, x)
      <4>2. q \in Int
        BY <4>1 DEF Holds
      <4> HIDE DEF q
      <4>3. q <= p => q <= p + 1
        BY <4>2
      <4> QED
        BY <4>1, <4>3 DEF q
    <3> QED
      BY <1>3, <3>1, <3>2
  <2> HIDE DEF b
  <2> QED
    BY <1>11, <2>1 DEF ReadFrom, AllocatorStands, b
<1> QED
  BY <1>2, <1>9, <1>10, <1>12 DEF g

(* A free list begins where the last one ended.                            *)
LEMMA ListBegins ==
  ASSUME NEW m, NEW lists, NEW p, NEW cells, NEW i \in 0 .. FreeLists - 1,
         ReadFrom(cells, m, lists, i, p), ListStart(m, lists, i) \in Nat
  PROVE  LET more == [lists EXCEPT ![i] = ListStart(m, lists, i)]
         IN  /\ more[i] = ListStart(m, lists, i)
             /\ ReadFrom(cells, m, more, i + 1, p)
<1> DEFINE more == [lists EXCEPT ![i] = ListStart(m, lists, i)]
<1>1. /\ more \in ListPlaces /\ more[i] = ListStart(m, lists, i)
      /\ \A k \in 0 .. FreeLists - 1 : k # i => more[k] = lists[k]
  BY DEF ReadFrom, ListPlaces
<1> HIDE DEF more
<1>2. Chain(m, more, i + 1)
  <2> SUFFICES ASSUME NEW k \in 0 .. (i + 1) - 1
               PROVE  more[k] = ListStart(m, more, k)
    BY DEF Chain
  <2>1. k \in 0 .. i /\ k - 1 # i
    OBVIOUS
  <2>2. ListStart(m, more, k) = ListStart(m, lists, k)
    <3>1. CASE k = 0
      BY <3>1 DEF ListStart
    <3>2. CASE k # 0
      <4>1. k - 1 \in 0 .. FreeLists - 1 /\ k - 1 # i
        BY <2>1, <3>2, SizesAssumption
      <4> QED
        BY <1>1, <3>2, <4>1 DEF ListStart
    <3> QED
      BY <3>1, <3>2
  <2>3. CASE k = i
    BY <1>1, <2>2, <2>3
  <2>4. CASE k \in 0 .. i - 1
    <3>1. k \in 0 .. FreeLists - 1 /\ k # i
      BY <2>4, SizesAssumption
    <3> QED
      BY <1>1, <2>2, <2>4, <3>1 DEF ReadFrom, Chain
  <2> QED
    BY <2>1, <2>3, <2>4
<1>3. ASSUME NEW s \in DOMAIN m, s[1] \in AllocatorFields
      PROVE  /\ Known(m, s, i + 1) /\ Place(m, more, s) = Place(m, lists, s)
  <2>1. Known(m, s, i)
    BY <1>3 DEF ReadFrom
  <2>2. s[1] \in {"free_count", "offsets"} =>
          s[2] \in 0 .. FreeLists - 1 /\ s[2] # i /\ s[2] < i + 1
    BY <2>1, SizesAssumption DEF Known, OnWalk
  <2>3. Known(m, s, i + 1)
    BY <2>1, <2>2 DEF Known
  <2>4. Place(m, more, s) = Place(m, lists, s)
    BY <1>1, <2>2 DEF Place
  <2> QED
    BY <2>3, <2>4
<1>4. ReadFrom(cells, m, more, i + 1, p)
  BY <1>1, <1>2, <1>3 DEF ReadFrom, AllocatorStands
<1> QED
  BY <1>1, <1>4 DEF more

(* The reader comes to the place of the slot that it reads next, and has   *)
(* read every list when nothing is left.                                   *)
LEMMA ReadWalk ==
  ASSUME NEW m, IsMemory(m), Slot("allocator_offset") \in DOMAIN m,
         NEW s, NEW v \in Nat, NEW lists, NEW p \in Nat, NEW q \in Nat, NEW cells,
         OnWalk(m, s, AddressCount(m)), Passed(m, s),
         ReadFrom(cells, m, lists, Begun(s), p),
         p + 1 = Place(m, lists, s), q = p + 1, Holds(cells, q, v)
  PROVE  LET g == With(m, s, v)
             next == After(s, g, AddressCount(g))
         IN  /\ next = Done => ReadFrom(cells, g, lists, FreeLists, q)
             /\ next # Done => \E more \in ListPlaces :
                  ReadFrom(cells, g, more, Begun(next), q) /\ q + 1 = Place(g, more, next)
<1> DEFINE g == With(m, s, v)
           next == After(s, g, AddressCount(g))
           goal == /\ next = Done => ReadFrom(cells, g, lists, FreeLists, q)
                   /\ next # Done => \E more \in ListPlaces :
                        ReadFrom(cells, g, more, Begun(next), q) /\ q + 1 = Place(g, more, next)
<1>1. /\ ReadFrom(cells, g, lists, Begun(s), q)
      /\ Known(g, s, Begun(s)) /\ Place(g, lists, s) = q
  BY ReadSlot
<1>2. IsMemory(g) /\ s \in DOMAIN g /\ Slot("allocator_offset") \in DOMAIN g
  BY DEF With, IsMemory
<1> HIDE DEF g
<1>3. OnWalk(g, s, AddressCount(g)) /\ Numbers(g, s) /\ AddressCount(g) \in Nat
  BY <1>1, <1>2, KnownNumbers DEF Known
<1>4. lists \in ListPlaces
  BY DEF ReadFrom
<1>5. \/ next = Done /\ Begun(s) = FreeLists
      \/ /\ next # Done /\ next[1] # "free_count" /\ Begun(next) = Begun(s)
         /\ Place(g, lists, next) = Place(g, lists, s) + 1
      \/ /\ Begun(s) \in 0 .. FreeLists - 1 /\ next = <<"free_count", Begun(s), 0>>
         /\ ListStart(g, lists, Begun(s)) = Place(g, lists, s) + 1
  BY <1>3, <1>4, NextPlace
<1> HIDE DEF next
<1>6. ASSUME next = Done, Begun(s) = FreeLists
      PROVE  goal
  BY <1>1, <1>6
<1>7. ASSUME next # Done, Begun(next) = Begun(s),
             Place(g, lists, next) = Place(g, lists, s) + 1
      PROVE  goal
  BY <1>1, <1>4, <1>7
<1>8. ASSUME Begun(s) \in 0 .. FreeLists - 1, next = <<"free_count", Begun(s), 0>>,
             ListStart(g, lists, Begun(s)) = Place(g, lists, s) + 1
      PROVE  goal
  <2> DEFINE i == Begun(s)
             more == [lists EXCEPT ![i] = ListStart(g, lists, i)]
  <2>1. ListStart(g, lists, i) = q + 1 /\ q + 1 \in Nat
    BY <1>1, <1>8
  <2>2. more[i] = ListStart(g, lists, i) /\ ReadFrom(cells, g, more, i + 1, q)
    BY <1>1, <1>8, <2>1, ListBegins
  <2>3. more \in ListPlaces
    BY <2>2 DEF ReadFrom
  <2> HIDE DEF more
  <2>4. Begun(next) = i + 1 /\ Place(g, more, next) = more[i]
    BY <1>8 DEF Begun, Place
  <2> HIDE DEF i
  <2> QED
    BY <1>8, <2>1, <2>2, <2>3, <2>4 DEF Done, Slot
<1>9. goal
  BY <1>5, <1>6, <1>7, <1>8
<1> QED
  BY <1>9 DEF goal, g, next

-----------------------------------------------------------------------------
(* The structures without loops.                                           *)

LEMMA HeaderIndex ==
  /\ \A k, n \in 1 .. Len(HeaderFields) : Slot(HeaderFields[k]) = Slot(HeaderFields[n]) => k = n
  /\ \A k \in 1 .. Len(HeaderFields) :
       Following(HeaderFields, Slot(HeaderFields[k]), SeekAllocator) =
         IF k < Len(HeaderFields) THEN Slot(HeaderFields[k + 1]) ELSE SeekAllocator
<1>1. \A k, n \in 1 .. Len(HeaderFields) :
        Slot(HeaderFields[k]) = Slot(HeaderFields[n]) => k = n
  BY DEF HeaderFields, Slot
<1> SUFFICES ASSUME NEW k \in 1 .. Len(HeaderFields)
             PROVE  Following(HeaderFields, Slot(HeaderFields[k]), SeekAllocator) =
                      IF k < Len(HeaderFields) THEN Slot(HeaderFields[k + 1]) ELSE SeekAllocator
  BY <1>1
<1>2. (CHOOSE n \in 1 .. Len(HeaderFields) : Slot(HeaderFields[n]) = Slot(HeaderFields[k])) = k
  BY <1>1
<1> QED
  BY <1>2 DEF Following

LEMMA HeaderBlockIndex ==
  /\ \A k, n \in 1 .. Len(HeaderBlockFields) :
       Slot(HeaderBlockFields[k]) = Slot(HeaderBlockFields[n]) => k = n
  /\ \A k \in 1 .. Len(HeaderBlockFields) :
       Following(HeaderBlockFields, Slot(HeaderBlockFields[k]), Done) =
         IF k < Len(HeaderBlockFields) THEN Slot(HeaderBlockFields[k + 1]) ELSE Done
<1>1. \A k, n \in 1 .. Len(HeaderBlockFields) :
        Slot(HeaderBlockFields[k]) = Slot(HeaderBlockFields[n]) => k = n
  BY DEF HeaderBlockFields, Slot
<1> SUFFICES ASSUME NEW k \in 1 .. Len(HeaderBlockFields)
             PROVE  Following(HeaderBlockFields, Slot(HeaderBlockFields[k]), Done) =
                      IF k < Len(HeaderBlockFields) THEN Slot(HeaderBlockFields[k + 1]) ELSE Done
  BY <1>1
<1>2. (CHOOSE n \in 1 .. Len(HeaderBlockFields) :
         Slot(HeaderBlockFields[n]) = Slot(HeaderBlockFields[k])) = k
  BY <1>1
<1> QED
  BY <1>2 DEF Following

(* A list of at least one and at most 256 addresses is padded to 256.      *)
LEMMA SmallCount ==
  ASSUME NEW n \in 1 .. Factor
  PROVE  PaddedCount(n) = Factor
<1>1. Word >= Factor
  <2>1. ASSUME Word < Factor
        PROVE  Word % Factor = Word
    BY <2>1, SizesAssumption
  <2> QED
    BY <2>1, SizesAssumption
<1>2. (n - 1) % Word = n - 1
  BY <1>1, SizesAssumption
<1>3. (n - 1) % Factor = n - 1
  BY SizesAssumption
<1>4. ((n - 1) % Word) % Factor = n - 1
  BY <1>2, <1>3
<1>5. PaddedCount(n) = n + Factor - 1 - (n - 1)
  BY <1>4 DEF PaddedCount
<1> QED
  BY <1>5, SizesAssumption

(* Writing the value that is there changes nothing.                        *)
LEMMA PutSame ==
  ASSUME IInv, NEW v, Holds(disk, pos + 1, v)
  PROVE  Put(v) = disk
<1>1. disk \in Seq(Nat) /\ pos \in Nat
  BY Types
<1>2. pos < Len(disk) /\ disk[pos + 1] = v
  BY <1>1 DEF Holds
<1>3. Put(v) = [k \in 1 .. Len(disk) |-> disk[k]]
  BY <1>1, <1>2 DEF Put
<1> QED
  BY <1>1, <1>3

-----------------------------------------------------------------------------
(* The invariant of reading, action by action.                             *)

LEMMA HeaderInMemory ==
  ASSUME IInv
  PROVE  /\ IsMemory(mem) /\ Slot("allocator_offset") \in DOMAIN mem
         /\ \A k \in 1 .. Len(HeaderFields) - 1 : Slot(HeaderFields[k]) \in DOMAIN mem
         /\ Slot("padding") \in DOMAIN mem => HeaderSlots \subseteq DOMAIN mem
<1>1. DOMAIN Created = {Slot("version"), Slot("magic"), Slot("allocator_offset"),
                        Slot("allocator_size"), Slot("allocator_offset_check")}
  BY DEF Created
<1>2. DOMAIN Created \subseteq DOMAIN mem
  BY DEF IInv, TypeOK
<1>3. \A k \in 1 .. Len(HeaderFields) - 1 : Slot(HeaderFields[k]) \in DOMAIN mem
  BY <1>1, <1>2 DEF HeaderFields
<1>4. HeaderSlots = DOMAIN Created \union {Slot("padding")}
  BY <1>1 DEF HeaderSlots, HeaderFields
<1> QED
  BY <1>1, <1>2, <1>3, <1>4 DEF IInv, IsMemory

(* A call that returns no store, or goes on without one, leaves all well.  *)
LEMMA ReturnLayout ==
  ASSUME LayoutInv, mode' = "idle", result' # "loaded",
         UNCHANGED <<mem, disk, owned, fresh>>
  PROVE  LayoutInv'
<1>1. Reading' /\ LoadedStands' /\ NoResultYet'
  BY DEF Reading, LoadedStands, NoResultYet
<1>2. Kept'
  BY DEF LayoutInv, Kept, AtPlace
<1> QED
  BY <1>1, <1>2 DEF LayoutInv

LEMMA InitLayout ==
  ASSUME Init
  PROVE  LayoutInv
BY DEF Init, LayoutInv, Reading, LoadedStands, Kept, NoResultYet

LEMMA CallFreadLayout ==
  ASSUME CallFread
  PROVE  LayoutInv'
<1>1. /\ mode' = "load" /\ at' = Slot(HeaderFields[1]) /\ pos' = 0 /\ mem' = Created
      /\ owned' = FALSE /\ result' = "none"
  BY DEF CallFread, Begin
<1>2. at' \in HeaderSlots
  BY <1>1 DEF HeaderSlots, HeaderFields
<1>3. DOMAIN mem' \subseteq HeaderSlots
  BY <1>1 DEF Created, HeaderSlots, HeaderFields
<1>4. ReadHeader'
  <2>1. \A n \in 1 .. Len(HeaderFields) : at' = Slot(HeaderFields[n]) => n = 1
    BY <1>1, HeaderIndex DEF HeaderFields
  <2>2. HeaderRead(0)'
    BY DEF HeaderRead, HeaderStands
  <2>3. pos' + 1 = 1
    BY <1>1
  <2> QED
    BY <1>2, <2>1, <2>2, <2>3 DEF ReadHeader
<1>5. ReadHeaderBlock'
  <2>1. at' \notin HeaderBlockSlots \union {SeekHeaderBlock}
    BY <1>2, Places
  <2>2. DOMAIN mem' \intersect HeaderBlockSlots = {}
    BY <1>3, Places
  <2>3. \A n \in 1 .. Len(HeaderBlockFields) : at' # Slot(HeaderBlockFields[n])
    BY <2>1 DEF HeaderBlockSlots
  <2> QED
    BY <1>3, <2>1, <2>2, <2>3 DEF ReadHeaderBlock
<1>6. \E lists \in ListPlaces : ReadAllocator(lists)'
  <2>1. [i \in 0 .. FreeLists - 1 |-> 0] \in ListPlaces
    BY DEF ListPlaces
  <2>2. ASSUME NEW lists \in ListPlaces
        PROVE  ReadAllocator(lists)'
    BY <1>2, <1>3, Places DEF ReadAllocator
  <2> QED
    BY <2>1, <2>2
<1>7. LoadedStands' /\ Kept' /\ NoResultYet'
  BY <1>1 DEF LoadedStands, Kept, NoResultYet
<1> QED
  BY <1>4, <1>5, <1>6, <1>7 DEF LayoutInv, Reading

LEMMA CallFwriteLayout ==
  ASSUME LayoutInv, CallFwrite
  PROVE  LayoutInv'
<1>1. /\ mode' = "write" /\ at' = Slot(HeaderFields[1]) /\ pos' = 0 /\ mem' = mem
      /\ owned' = owned /\ result' = "none"
      /\ (disk' = disk /\ fresh' = fresh) \/ fresh' = TRUE
  BY DEF CallFwrite, Begin
<1>2. Reading' /\ LoadedStands' /\ NoResultYet'
  BY <1>1 DEF Reading, LoadedStands, NoResultYet
<1>3. Kept'
  <2>1. ASSUME NEW lists
        PROVE  AtPlace(lists)'
    <3>1. at'[1] \notin AllocatorFields
      BY <1>1 DEF HeaderFields, Slot, AllocatorFields
    <3>2. \A n \in 1 .. Len(HeaderFields) : at' = Slot(HeaderFields[n]) => n = 1
      BY <1>1, HeaderIndex DEF HeaderFields
    <3>3. pos' + 1 = 1
      BY <1>1
    <3> QED
      BY <3>1, <3>2, <3>3 DEF AtPlace
  <2> QED
    BY <1>1, <2>1 DEF LayoutInv, Kept
<1> QED
  BY <1>2, <1>3 DEF LayoutInv

LEMMA HeaderFreadLayout ==
  ASSUME IInv, LayoutInv, HeaderFread
  PROVE  LayoutInv'
<1> DEFINE v == disk[pos + 1]
<1>1. /\ mode = "load" /\ at \in HeaderSlots /\ mem' = Got /\ pos' = pos + 1 /\ disk' = disk
      /\ pos < Len(disk) /\ owned' = owned /\ ~owned
  BY DEF HeaderFread, Get, IInv, Loading
<1>2. PICK n \in 1 .. Len(HeaderFields) : at = Slot(HeaderFields[n])
  BY <1>1 DEF HeaderSlots
<1>3. pos + 1 = n /\ HeaderRead(n - 1)
  BY <1>1, <1>2 DEF LayoutInv, Reading, ReadHeader
<1>4. /\ IsMemory(mem) /\ DOMAIN Got = DOMAIN mem \union {at}
      /\ Got[at] = v /\ \A x \in DOMAIN mem : x # at => Got[x] = mem[x]
  BY <1>1, GotIsWith DEF Got
<1> HIDE DEF v
<1>5. Kept'
  BY <1>1 DEF Kept
<1>6. CASE ~HeaderAccepts(at, Got)
  BY <1>1, <1>5, <1>6 DEF HeaderFread, Return, LayoutInv, Reading, LoadedStands, NoResultYet
<1>7. CASE HeaderAccepts(at, Got)
  <2>1. /\ at' = IF n < Len(HeaderFields) THEN Slot(HeaderFields[n + 1]) ELSE SeekAllocator
        /\ mode' = mode /\ result' = result
    BY <1>2, <1>7, HeaderIndex DEF HeaderFread
  <2>2. HeaderRead(n)'
    <3> SUFFICES ASSUME NEW k \in 1 .. n
                 PROVE  /\ Holds(disk, k, Got[Slot(HeaderFields[k])])
                        /\ HeaderAccepts(Slot(HeaderFields[k]), Got)
      BY <1>1 DEF HeaderRead, HeaderStands
    <3>1. CASE k = n
      <4>1. Holds(disk, n, v)
        <5>1. disk \in Seq(Nat) /\ pos \in Nat
          BY Types
        <5> QED
          BY <1>1, <1>3, <5>1 DEF Holds, v
      <4> QED
        BY <1>2, <1>4, <1>7, <3>1, <4>1
    <3>2. CASE k \in 1 .. n - 1
      <4> DEFINE s == Slot(HeaderFields[k])
      <4>1. k \in 1 .. Len(HeaderFields) - 1 /\ k # n
        BY <3>2 DEF HeaderFields
      <4>2. s \in DOMAIN mem /\ s # at
        BY <1>2, <4>1, HeaderInMemory, HeaderIndex DEF HeaderFields
      <4>3. Got[s] = mem[s]
        BY <1>4, <4>2
      <4>4. Holds(disk, k, mem[s]) /\ HeaderAccepts(s, mem)
        BY <1>3, <3>2 DEF HeaderRead, HeaderStands
      <4>5. s = Slot("allocator_offset_check") => Got[Slot("allocator_offset")] = mem[Slot("allocator_offset")]
        <5> SUFFICES ASSUME s = Slot("allocator_offset_check")
                     PROVE  Got[Slot("allocator_offset")] = mem[Slot("allocator_offset")]
          OBVIOUS
        <5>1. k = 5
          BY <4>1 DEF HeaderFields, Slot
        <5>2. n = 6
          BY <3>2, <5>1 DEF HeaderFields
        <5>3. at # Slot("allocator_offset")
          BY <1>2, <5>2 DEF HeaderFields, Slot
        <5> QED
          BY <1>4, <5>3, HeaderInMemory
      <4>6. HeaderAccepts(s, Got)
        BY <4>3, <4>4, <4>5 DEF HeaderAccepts
      <4> QED
        BY <4>3, <4>4, <4>6
    <3> QED
      BY <3>1, <3>2
  <2>3. at' \in HeaderSlots \union {SeekAllocator}
    BY <2>1 DEF HeaderSlots, HeaderFields
  <2>4. ReadHeader'
    <3>1. CASE n < Len(HeaderFields)
      <4>1. n + 1 \in 1 .. Len(HeaderFields) /\ at' = Slot(HeaderFields[n + 1])
        BY <2>1, <3>1 DEF HeaderFields
      <4>2. ASSUME NEW k \in 1 .. Len(HeaderFields), at' = Slot(HeaderFields[k])
            PROVE  pos' + 1 = k /\ HeaderRead(k - 1)'
        <5>1. k = n + 1
          BY <4>1, <4>2, HeaderIndex
        <5>2. k - 1 = n
          BY <5>1
        <5> QED
          BY <1>1, <1>3, <2>2, <5>1, <5>2
      <4>3. at' \in HeaderSlots
        BY <4>1 DEF HeaderSlots
      <4> QED
        BY <4>2, <4>3 DEF ReadHeader
    <3>2. CASE n = Len(HeaderFields)
      <4>1. at' = SeekAllocator
        BY <2>1, <3>2 DEF HeaderFields
      <4>2. \A k \in 1 .. Len(HeaderFields) : at' # Slot(HeaderFields[k])
        BY <4>1, Places DEF HeaderSlots
      <4> QED
        BY <2>2, <3>2, <4>2 DEF ReadHeader
    <3> QED
      BY <3>1, <3>2 DEF HeaderFields
  <2>5. DOMAIN mem' \subseteq HeaderSlots
    BY <1>1, <1>4 DEF LayoutInv, Reading, ReadAllocator
  <2>6. ReadHeaderBlock'
    <3>1. at' \notin HeaderBlockSlots \union {SeekHeaderBlock}
      BY <2>3, Places
    <3>2. DOMAIN mem' \intersect HeaderBlockSlots = {}
      BY <2>5, Places
    <3>3. \A k \in 1 .. Len(HeaderBlockFields) : at' # Slot(HeaderBlockFields[k])
      BY <3>1 DEF HeaderBlockSlots
    <3> QED
      BY <2>5, <3>1, <3>2, <3>3 DEF ReadHeaderBlock
  <2>7. \E lists \in ListPlaces : ReadAllocator(lists)'
    <3>1. PICK lists \in ListPlaces : ReadAllocator(lists)
      BY <1>1 DEF LayoutInv, Reading
    <3>2. ReadAllocator(lists)'
      BY <2>3, <2>5, Places DEF ReadAllocator
    <3> QED
      BY <3>2
  <2>8. LoadedStands' /\ NoResultYet'
    BY <1>1, <2>1 DEF LayoutInv, NoResultYet, LoadedStands
  <2> QED
    BY <1>5, <2>4, <2>6, <2>7, <2>8 DEF LayoutInv, Reading
<1> QED
  BY <1>6, <1>7

LEMMA HeaderStays ==
  ASSUME HeaderRead(Len(HeaderFields)), disk' = disk,
         \A s \in HeaderSlots : mem'[s] = mem[s], at' \notin HeaderSlots
  PROVE  ReadHeader'
<1>1. ASSUME NEW k \in 1 .. Len(HeaderFields)
      PROVE  /\ Slot(HeaderFields[k]) \in HeaderSlots
             /\ HeaderAccepts(Slot(HeaderFields[k]), mem)
             /\ Holds(disk, k, mem[Slot(HeaderFields[k])])
  BY DEF HeaderRead, HeaderStands, HeaderSlots
<1>2. Slot("allocator_offset") \in HeaderSlots
  BY DEF HeaderSlots, HeaderFields
<1>3. \A s \in HeaderSlots : HeaderAccepts(s, mem) => HeaderAccepts(s, mem')
  BY <1>2 DEF HeaderAccepts
<1>4. HeaderRead(Len(HeaderFields))'
  <2>1. ASSUME NEW k \in 1 .. Len(HeaderFields)
        PROVE  /\ HeaderAccepts(Slot(HeaderFields[k]), mem')
               /\ Holds(disk', k, mem'[Slot(HeaderFields[k])])
    BY <1>1, <1>3
  <2> QED
    BY <2>1 DEF HeaderRead, HeaderStands
<1> QED
  BY <1>1, <1>4 DEF ReadHeader, HeaderSlots

LEMMA SeekBuddyAllocatorLayout ==
  ASSUME IInv, LayoutInv, SeekBuddyAllocator
  PROVE  LayoutInv'
<1>1. /\ at = SeekAllocator /\ at' = Slot("block_count") /\ pos' = 1 + mem[Slot("allocator_offset")]
      /\ UNCHANGED <<file, disk, mem, mode, found, owned, fresh, fault, result, calls>>
  BY DEF SeekBuddyAllocator
<1>2. /\ at \notin HeaderSlots /\ at'[1] \in AllocatorFields
      /\ at' \notin HeaderSlots \union HeaderBlockSlots \union {SeekAllocator, Find, SeekHeaderBlock}
  BY <1>1, Places DEF Slot, AllocatorFields
<1>3. ASSUME NEW lists
      PROVE  Place(mem, lists, at') = pos' + 1
  <2>1. mem[Slot("allocator_offset")] \in Nat
    BY HeaderInMemory DEF IsMemory
  <2> QED
    BY <1>1, <2>1 DEF Place, Base, Slot
<1>4. ASSUME mode = "load"
      PROVE  Reading'
  <2>1. HeaderRead(Len(HeaderFields)) /\ DOMAIN mem \subseteq HeaderSlots
    BY <1>1, <1>2, <1>4 DEF LayoutInv, Reading, ReadHeader, ReadAllocator
  <2>2. ReadHeader'
    BY <1>1, <1>2, <2>1, HeaderStays
  <2>3. ReadHeaderBlock'
    <3>1. DOMAIN mem \intersect HeaderBlockSlots = {}
      BY <2>1, Places
    <3>2. \A n \in 1 .. Len(HeaderBlockFields) : at' # Slot(HeaderBlockFields[n])
      BY <1>2 DEF HeaderBlockSlots
    <3> QED
      BY <1>1, <1>2, <2>1, <3>1, <3>2 DEF ReadHeaderBlock
  <2>4. PICK lists \in ListPlaces : ReadAllocator(lists)
    BY <1>4 DEF LayoutInv, Reading
  <2>5. ReadFrom(disk, mem, lists, 0, pos')
    <3>1. \A s \in DOMAIN mem : s[1] \notin AllocatorFields
      BY <2>1, Places
    <3> QED
      BY <3>1 DEF ReadFrom, Chain, AllocatorStands
  <2>6. Begun(at') = 0
    BY <1>1 DEF Begun, Slot
  <2>7. ReadAllocator(lists)'
    BY <1>1, <1>2, <1>3, <2>5, <2>6 DEF ReadAllocator
  <2> QED
    BY <2>2, <2>3, <2>7 DEF Reading
<1>5. Reading'
  BY <1>1, <1>4 DEF Reading
<1>6. Kept'
  <2>1. ASSUME NEW lists
        PROVE  AtPlace(lists)'
    <3>1. \A k \in 1 .. Len(HeaderFields) : at' # Slot(HeaderFields[k])
      BY <1>2 DEF HeaderSlots
    <3> QED
      BY <1>1, <1>3, <3>1 DEF AtPlace
  <2> QED
    BY <1>1, <2>1 DEF LayoutInv, Kept
<1>7. NoResultYet' /\ LoadedStands'
  BY <1>1 DEF LayoutInv, NoResultYet, LoadedStands
<1> QED
  BY <1>5, <1>6, <1>7 DEF LayoutInv

(* All that was read is in the file.                                       *)
LEMMA ReadToTheEnd ==
  ASSUME NEW cells \in Seq(Nat), NEW m, NEW lists, NEW n, NEW p, ReadFrom(cells, m, lists, n, p)
  PROVE  ReadFrom(cells, m, lists, n, Len(cells))
<1>1. ASSUME NEW s \in DOMAIN m, s[1] \in AllocatorFields
      PROVE  Place(m, lists, s) <= Len(cells)
  BY <1>1 DEF ReadFrom, AllocatorStands, Holds
<1> QED
  BY <1>1 DEF ReadFrom

LEMMA AllocatorFreadLayout ==
  ASSUME IInv, LayoutInv, AllocatorFread
  PROVE  LayoutInv'
<1> DEFINE v == disk[pos + 1]
           next == After(at, mem', AddressCount(mem'))
<1>1. /\ mode = "load" /\ at[1] \in AllocatorFields /\ ~owned /\ Slot("padding") \in DOMAIN mem
      /\ OnWalk(mem, at, AddressCount(mem)) /\ Passed(mem, at)
  BY Places, WalkAt DEF AllocatorFread, IInv, Loading
<1>2. /\ pos < Len(disk) /\ mem' = Got /\ pos' = pos + 1
      /\ at' = (IF next = Done THEN Find ELSE next)
      /\ UNCHANGED <<file, disk, mode, found, owned, fresh, fault, result, calls>>
      /\ AddressCount(mem') = PaddedCount(mem'[Slot("block_count")])
  <2>1. Got[Slot("block_count")] \in Nat
    <3>1. IsMemory(Got) /\ DOMAIN Got = DOMAIN mem \union {at}
      BY GotIsWith DEF AllocatorFread, Get
    <3>2. Slot("block_count") \in DOMAIN mem \union {at}
      BY <1>1 DEF Passed, OnWalk
    <3> QED
      BY <3>1, <3>2 DEF IsMemory
  <2>2. mem' = Got
    BY DEF AllocatorFread, Get
  <2>3. AddressCount(mem') = PaddedCount(mem'[Slot("block_count")])
    BY <2>1, <2>2, AddressCountIs
  <2> QED
    BY <2>2, <2>3 DEF AllocatorFread, Get
<1>3. v \in Nat /\ Got = With(mem, at, v) /\ IsMemory(mem) /\ DOMAIN Got = DOMAIN mem \union {at}
      /\ \A x \in DOMAIN mem : x # at => Got[x] = mem[x]
  BY <1>2, GotIsWith
<1>4. disk \in Seq(Nat) /\ pos \in Nat /\ pos' \in Nat
  BY <1>2, Types
<1>5. Holds(disk, pos', v)
  BY <1>2, <1>4 DEF Holds
<1>6. at \notin HeaderSlots \union HeaderBlockSlots \union {SeekAllocator, Find, SeekHeaderBlock}
  BY <1>1, Places
<1> HIDE DEF v
<1>7. PICK lists \in ListPlaces : ReadAllocator(lists)
  BY <1>1 DEF LayoutInv, Reading
<1>8. ReadFrom(disk, mem, lists, Begun(at), pos) /\ pos + 1 = Place(mem, lists, at)
  BY <1>1, <1>7 DEF ReadAllocator
<1>9. /\ next = Done => ReadFrom(disk, mem', lists, FreeLists, pos')
      /\ next # Done => \E more \in ListPlaces :
           ReadFrom(disk, mem', more, Begun(next), pos') /\ pos' + 1 = Place(mem', more, next)
  BY <1>1, <1>2, <1>3, <1>4, <1>5, <1>8, HeaderInMemory, ReadWalk
<1>10. next # Done => next[1] \in AllocatorFields
  <2>1. Passed(mem, at) /\ OnWalk(mem, at, PaddedCount(mem[Slot("block_count")]))
    BY <1>1, WalkAt
  <2>2. next # Done => OnWalk(mem', next, PaddedCount(mem'[Slot("block_count")]))
    BY <1>2, <1>3, <2>1, ReadOn
  <2> QED
    BY <2>2 DEF OnWalk
<1> HIDE DEF next
<1>11. /\ at' \notin HeaderSlots \union HeaderBlockSlots \union {SeekAllocator, SeekHeaderBlock}
       /\ next = Done => at' = Find /\ at'[1] \notin AllocatorFields
       /\ next # Done => at' = next /\ at'[1] \in AllocatorFields /\ at' # Find
  BY <1>2, <1>10, Places
<1>12. ReadHeader'
  <2>1. HeaderRead(Len(HeaderFields))
    BY <1>1, <1>6 DEF LayoutInv, Reading, ReadHeader
  <2>2. \A s \in HeaderSlots : mem'[s] = mem[s]
    BY <1>1, <1>2, <1>3, <1>6, HeaderInMemory
  <2> QED
    BY <1>2, <1>11, <2>1, <2>2, HeaderStays
<1>13. ReadHeaderBlock'
  <2>1. ReadHeaderBlock
    BY <1>1 DEF LayoutInv, Reading
  <2>2. \A n \in 1 .. Len(HeaderBlockFields) : at' # Slot(HeaderBlockFields[n])
    BY <1>11 DEF HeaderBlockSlots
  <2>3. /\ \A s \in DOMAIN mem' : s \in HeaderSlots \union HeaderBlockSlots \/ s[1] \in AllocatorFields
        /\ DOMAIN mem' \intersect HeaderBlockSlots = {}
    BY <1>1, <1>2, <1>3, <1>6, <2>1 DEF ReadHeaderBlock
  <2> QED
    BY <1>11, <2>2, <2>3 DEF ReadHeaderBlock
<1>14. \E more \in ListPlaces : ReadAllocator(more)'
  <2>1. CASE next = Done
    <3>1. ReadFrom(disk, mem', lists, FreeLists, Len(disk))
      BY <1>4, <1>9, <2>1, ReadToTheEnd
    <3>2. ReadAllocator(lists)'
      BY <1>2, <1>11, <2>1, <3>1 DEF ReadAllocator
    <3> QED
      BY <1>7, <3>2
  <2>2. CASE next # Done
    <3>1. PICK more \in ListPlaces :
            ReadFrom(disk, mem', more, Begun(next), pos') /\ pos' + 1 = Place(mem', more, next)
      BY <1>9, <2>2
    <3>2. ReadAllocator(more)'
      BY <1>2, <1>11, <2>2, <3>1 DEF ReadAllocator
    <3> QED
      BY <3>2
  <2> QED
    BY <2>1, <2>2
<1>15. Reading'
  BY <1>12, <1>13, <1>14 DEF Reading
<1>16. NoResultYet' /\ LoadedStands' /\ Kept'
  BY <1>1, <1>2 DEF LayoutInv, NoResultYet, LoadedStands, Kept
<1> QED
  BY <1>15, <1>16 DEF LayoutInv

(* What the directory says of the header block. *)
LEMMA HeaderBlockNumberFacts ==
  ASSUME NEW m, IsMemory(m), AllRead(m), EntriesOf(m) # {}
  PROVE  \E e \in EntriesOf(m) :
           /\ e = CHOOSE i \in EntriesOf(m) : \A k \in EntriesOf(m) : i <= k
           /\ HeaderBlockNumber(m) = m[<<"block_number", e, 0>>]
           /\ <<"block_number", e, 0>> \in DOMAIN m /\ HeaderBlockNumber(m) \in Nat
<1> DEFINE e == CHOOSE i \in EntriesOf(m) : \A k \in EntriesOf(m) : i <= k
<1>1. EntriesOf(m) \in SUBSET Nat
  BY DEF EntriesOf, AllRead, IsMemory
<1>2. e \in EntriesOf(m)
  <2>1. \E i \in EntriesOf(m) : \A k \in EntriesOf(m) : i <= k
    BY <1>1, SmallestOf
  <2> QED
    BY <2>1
<1>3. HeaderBlockNumber(m) = m[<<"block_number", e, 0>>]
  BY DEF HeaderBlockNumber
<1> HIDE DEF e
<1>4. <<"block_number", e, 0>> \in DOMAIN m
  BY <1>2 DEF EntriesOf, AllRead, EntriesRead, EntryFields
<1>5. m[<<"block_number", e, 0>>] \in Nat
  BY <1>4 DEF IsMemory
<1> QED
  BY <1>2, <1>3, <1>4, <1>5 DEF e

(* The address of the header block is in memory. *)
LEMMA HeaderBlockAddress ==
  ASSUME NEW m, IsMemory(m), AllRead(m), HasHeaderBlock(m)
  PROVE  /\ HeaderBlockNumber(m) \in Nat
         /\ <<"block_addresses", HeaderBlockNumber(m), 0>> \in DOMAIN m
         /\ HeaderBlockPlace(m) \in Nat
<1> DEFINE b == HeaderBlockNumber(m)
           c == m[Slot("block_count")]
<1>1. b \in Nat /\ b < c
  <2>1. EntriesOf(m) # {}
    BY DEF HasHeaderBlock, HeaderBlockNumber
  <2> QED
    BY <2>1, HeaderBlockNumberFacts DEF HasHeaderBlock
<1>2. c \in Nat /\ AddressesRead(m, PaddedCount(c))
  BY DEF AllRead, IsMemory
<1>3. PaddedCount(c) \in Nat /\ PaddedCount(c) >= c
  BY <1>2, PaddedCountBounds
<1> HIDE DEF b, c
<1>4. b \in 0 .. PaddedCount(c) - 1
  BY <1>1, <1>2, <1>3
<1>5. <<"block_addresses", b, 0>> \in DOMAIN m
  BY <1>2, <1>4 DEF AddressesRead
<1>6. m[<<"block_addresses", b, 0>>] \in Nat
  BY <1>5 DEF IsMemory
<1>7. \A a \in Nat : 1 + (a \div Unit) * Unit \in Nat
  BY SizesAssumption
<1> QED
  BY <1>1, <1>5, <1>6, <1>7 DEF b, HeaderBlockPlace, BlockOffset

LEMMA FindDSDBLayout ==
  ASSUME IInv, LayoutInv, FindDSDB
  PROVE  LayoutInv'
<1>1. /\ mode = "load" /\ at = Find /\ ~owned
      /\ UNCHANGED <<file, disk, pos, mem, owned, fresh, fault, calls>>
      /\ found' = HeaderBlockNumber(mem)
  BY DEF FindDSDB, Entries, BlockOf, EntriesOf, HeaderBlockNumber, IInv, Loading
<1>2. Kept'
  BY <1>1 DEF Kept
<1>3. CASE mode' = "idle"
  <2>1. result' = "not loaded"
    BY <1>1, <1>3 DEF FindDSDB, Return
  <2> QED
    BY <1>1, <1>3, <2>1, ReturnLayout
<1>4. CASE mode' # "idle"
  <2>1. /\ mode' = mode /\ result' = result /\ at' = SeekHeaderBlock
        /\ HasHeaderBlock(mem)
    BY <1>1, <1>4 DEF FindDSDB, Return, HasHeaderBlock
  <2>2. /\ at \notin HeaderSlots \union HeaderBlockSlots
        /\ at' \notin HeaderSlots \union HeaderBlockSlots \union {SeekAllocator, Find}
        /\ at'[1] \notin AllocatorFields
    BY <1>1, <2>1, Places
  <2>3. ReadHeader /\ ReadHeaderBlock
    BY <1>1 DEF LayoutInv, Reading
  <2>4. ReadHeader'
    BY <1>1, <2>2, <2>3, HeaderStays DEF ReadHeader
  <2>5. ReadHeaderBlock'
    <3>1. \A n \in 1 .. Len(HeaderBlockFields) : at' # Slot(HeaderBlockFields[n])
      BY <2>2 DEF HeaderBlockSlots
    <3> QED
      BY <1>1, <2>1, <2>2, <2>3, <3>1 DEF ReadHeaderBlock
  <2>6. PICK lists \in ListPlaces : ReadAllocator(lists)
    BY <1>1 DEF LayoutInv, Reading
  <2>7. ReadAllocator(lists)'
    BY <1>1, <2>2, <2>6 DEF ReadAllocator
  <2>8. Reading'
    BY <2>4, <2>5, <2>7 DEF Reading
  <2> QED
    BY <1>1, <1>2, <2>1, <2>8 DEF LayoutInv, NoResultYet, LoadedStands
<1> QED
  BY <1>3, <1>4

LEMMA SeekToHeaderBlockLayout ==
  ASSUME IInv, LayoutInv, SeekToHeaderBlock
  PROVE  LayoutInv'
<1>1. /\ mode = "load" /\ at = SeekHeaderBlock /\ ~owned
      /\ UNCHANGED <<file, disk, mem, mode, found, owned, fresh, fault, result, calls>>
      /\ at' = Slot(HeaderBlockFields[1])
      /\ pos' = 1 + BlockOffset(mem[<<"block_addresses", found, 0>>])
  BY DEF SeekToHeaderBlock, IInv, Loading
<1>2. /\ IsMemory(mem) /\ AllRead(mem)
      /\ ReadHeader /\ ReadHeaderBlock
  BY <1>1 DEF SeekToHeaderBlock, LayoutInv, Reading, IInv, Loading, IsMemory
<1>3. found = HeaderBlockNumber(mem) /\ HasHeaderBlock(mem)
  BY <1>1, <1>2 DEF ReadHeaderBlock
<1>4. pos' = HeaderBlockPlace(mem) /\ HeaderBlockPlace(mem) \in Nat
  BY <1>1, <1>2, <1>3, HeaderBlockAddress DEF HeaderBlockPlace
<1>5. at' \in HeaderBlockSlots
  BY <1>1 DEF HeaderBlockSlots, HeaderBlockFields
<1>6. /\ at \notin HeaderSlots \union HeaderBlockSlots
      /\ at' \notin HeaderSlots \union {SeekAllocator, Find, SeekHeaderBlock}
      /\ at'[1] \notin AllocatorFields
  BY <1>1, <1>5, Places
<1>7. ReadHeader'
  BY <1>1, <1>2, <1>6, HeaderStays DEF ReadHeader
<1>8. ReadHeaderBlock'
  <2>1. ASSUME NEW n \in 1 .. Len(HeaderBlockFields), at' = Slot(HeaderBlockFields[n])
        PROVE  /\ pos' + 1 = HeaderBlockPlace(mem) + n
               /\ \A k \in 1 .. n - 1 : Slot(HeaderBlockFields[k]) \in DOMAIN mem
               /\ HeaderBlockStands(disk, mem, n - 1)
    <3>1. n = 1
      BY <1>1, <2>1, HeaderBlockIndex DEF HeaderBlockFields
    <3> QED
      BY <1>4, <3>1 DEF HeaderBlockStands
  <2> QED
    BY <1>1, <1>2, <1>3, <1>5, <1>6, <2>1 DEF ReadHeaderBlock
<1>9. PICK lists \in ListPlaces : ReadAllocator(lists)
  BY <1>1 DEF LayoutInv, Reading
<1>10. ReadAllocator(lists)'
  BY <1>1, <1>6, <1>9 DEF ReadAllocator
<1>11. Reading'
  BY <1>7, <1>8, <1>10 DEF Reading
<1> QED
  BY <1>1, <1>11 DEF LayoutInv, NoResultYet, LoadedStands, Kept

(* The header block leaves the allocator as it is.                         *)
LEMMA HeaderBlockRead ==
  ASSUME NEW m, IsMemory(m), Slot("allocator_offset") \in DOMAIN m, AllRead(m),
         NEW t \in HeaderBlockSlots, NEW v \in Nat, NEW lists, NEW cells, NEW p,
         ReadFrom(cells, m, lists, FreeLists, p), HasHeaderBlock(m)
  PROVE  LET g == With(m, t, v)
         IN  /\ AllRead(g) /\ ReadFrom(cells, g, lists, FreeLists, p)
             /\ HasHeaderBlock(g) /\ HeaderBlockNumber(g) = HeaderBlockNumber(m)
             /\ HeaderBlockPlace(g) = HeaderBlockPlace(m)
<1> DEFINE g == With(m, t, v)
           goal == /\ AllRead(g) /\ ReadFrom(cells, g, lists, FreeLists, p)
                   /\ HasHeaderBlock(g) /\ HeaderBlockNumber(g) = HeaderBlockNumber(m)
                   /\ HeaderBlockPlace(g) = HeaderBlockPlace(m)
<1>1. t[1] \notin AllocatorFields /\ t # Slot("allocator_offset")
  <2>1. Slot("allocator_offset") \in HeaderSlots
    BY DEF HeaderSlots, HeaderFields
  <2> QED
    BY <2>1, Places
<1>2. AllRead(g)
  BY <1>1, AllStays
<1>3. /\ DOMAIN g = DOMAIN m \union {t}
      /\ \A y \in DOMAIN m :
           y[1] \in AllocatorFields \/ y = Slot("allocator_offset") => g[y] = m[y] /\ y # t
  BY <1>1 DEF With
<1>4. ASSUME NEW x \in DOMAIN g, x[1] \in AllocatorFields
      PROVE  /\ x \in DOMAIN m /\ g[x] = m[x] /\ Known(g, x, FreeLists)
             /\ Place(g, lists, x) = Place(m, lists, x)
  <2>1. x \in DOMAIN m /\ g[x] = m[x]
    BY <1>1, <1>3, <1>4
  <2>2. Known(m, x, FreeLists)
    BY <1>4, <2>1 DEF ReadFrom
  <2>3. \A y \in DOMAIN m : y[1] \in AllocatorFields \/ y = Slot("allocator_offset") => y # t
    BY <1>3
  <2> QED
    BY <1>4, <2>1, <2>2, <2>3, PlaceStays
<1> HIDE DEF g
<1>5. /\ Slot("block_count") \in DOMAIN m /\ Slot("directory_count") \in DOMAIN m
      /\ g[Slot("block_count")] = m[Slot("block_count")]
      /\ g[Slot("directory_count")] = m[Slot("directory_count")]
      /\ g[Slot("allocator_offset")] = m[Slot("allocator_offset")]
  BY <1>3 DEF AllRead, Slot, AllocatorFields
<1>6. Chain(g, lists, FreeLists)
  <2> SUFFICES ASSUME NEW i \in 0 .. FreeLists - 1
               PROVE  ListStart(g, lists, i) = ListStart(m, lists, i)
    BY DEF ReadFrom, Chain
  <2>1. CASE i = 0
    BY <1>5, <2>1 DEF ListStart, Directory, Base, AddressCount
  <2>2. CASE i # 0
    <3>1. i - 1 \in 0 .. FreeLists - 1
      BY <2>2, SizesAssumption
    <3>2. <<"free_count", i - 1, 0>> \in DOMAIN m
      BY <3>1 DEF AllRead, ListsRead
    <3>3. g[<<"free_count", i - 1, 0>>] = m[<<"free_count", i - 1, 0>>]
      BY <1>3, <3>2 DEF AllocatorFields
    <3> QED
      BY <2>2, <3>3 DEF ListStart
  <2> QED
    BY <2>1, <2>2
<1>7. ReadFrom(cells, g, lists, FreeLists, p)
  <2>1. \A x \in DOMAIN g : x[1] \in AllocatorFields =>
          /\ Known(g, x, FreeLists) /\ Place(g, lists, x) <= p
          /\ Holds(cells, Place(g, lists, x), g[x])
    BY <1>4 DEF ReadFrom, AllocatorStands
  <2> QED
    BY <1>6, <2>1 DEF ReadFrom, AllocatorStands
<1>8. EntriesOf(g) = EntriesOf(m)
  <2>1. ASSUME NEW i \in 0 .. m[Slot("directory_count")] - 1
        PROVE  g[<<"bytes", i, 0>>] = m[<<"bytes", i, 0>>]
    <3>1. <<"bytes", i, 0>> \in DOMAIN m
      BY DEF AllRead, EntriesRead, EntryFields
    <3> QED
      BY <1>3, <3>1 DEF AllocatorFields
  <2> QED
    BY <1>5, <2>1 DEF EntriesOf
<1>9. EntriesOf(m) # {}
  BY DEF HasHeaderBlock, HeaderBlockNumber
<1>10. HeaderBlockNumber(g) = HeaderBlockNumber(m)
  <2>1. PICK e \in EntriesOf(m) :
           /\ e = CHOOSE i \in EntriesOf(m) : \A k \in EntriesOf(m) : i <= k
           /\ HeaderBlockNumber(m) = m[<<"block_number", e, 0>>]
           /\ <<"block_number", e, 0>> \in DOMAIN m
    BY <1>9, HeaderBlockNumberFacts
  <2>2. g[<<"block_number", e, 0>>] = m[<<"block_number", e, 0>>]
    BY <1>3, <2>1 DEF AllocatorFields
  <2>3. HeaderBlockNumber(g) = g[<<"block_number", e, 0>>]
    BY <1>8, <1>9, <2>1 DEF HeaderBlockNumber
  <2> QED
    BY <2>1, <2>2, <2>3
<1>11. HeaderBlockPlace(g) = HeaderBlockPlace(m)
  <2> DEFINE a == <<"block_addresses", HeaderBlockNumber(m), 0>>
  <2>1. a \in DOMAIN m
    BY HeaderBlockAddress
  <2>2. a[1] \in AllocatorFields
    BY DEF AllocatorFields
  <2>3. g[a] = m[a]
    BY <1>3, <2>1, <2>2
  <2> QED
    BY <1>10, <2>3 DEF HeaderBlockPlace
<1>12. goal
  BY <1>2, <1>5, <1>7, <1>10, <1>11 DEF HasHeaderBlock, g
<1> QED
  BY <1>12 DEF goal, g

LEMMA HeaderBlockFreadLayout ==
  ASSUME IInv, LayoutInv, HeaderBlockFread
  PROVE  LayoutInv'
<1> DEFINE v == disk[pos + 1]
<1>1. /\ mode = "load" /\ at \in HeaderBlockSlots /\ ~owned /\ disk' = disk /\ found' = found
      /\ pos < Len(disk) /\ mem' = Got /\ pos' = pos + 1 /\ fresh' = fresh
      /\ AllRead(mem) /\ Slot("padding") \in DOMAIN mem
  BY Places DEF HeaderBlockFread, Get, IInv, Loading
<1>2. v \in Nat /\ Got = With(mem, at, v) /\ IsMemory(mem) /\ DOMAIN Got = DOMAIN mem \union {at}
      /\ \A x \in DOMAIN mem : x # at => Got[x] = mem[x]
  BY <1>1, GotIsWith
<1>3. Got[at] = v /\ IsMemory(Got)
  BY <1>2 DEF With, IsMemory
<1>4. /\ at \notin HeaderSlots \union {SeekAllocator, Find, SeekHeaderBlock}
      /\ at[1] \notin AllocatorFields
  BY <1>1, Places
<1>5. PICK n \in 1 .. Len(HeaderBlockFields) : at = Slot(HeaderBlockFields[n])
  BY <1>1 DEF HeaderBlockSlots
<1>6. /\ ReadHeaderBlock /\ HasHeaderBlock(mem) /\ found = HeaderBlockNumber(mem)
      /\ pos + 1 = HeaderBlockPlace(mem) + n
      /\ \A k \in 1 .. n - 1 : Slot(HeaderBlockFields[k]) \in DOMAIN mem
      /\ HeaderBlockStands(disk, mem, n - 1)
  BY <1>1, <1>5 DEF LayoutInv, Reading, ReadHeaderBlock
<1>7. PICK lists \in ListPlaces : ReadAllocator(lists)
  BY <1>1 DEF LayoutInv, Reading
<1>8. ReadFrom(disk, mem, lists, FreeLists, Len(disk))
  BY <1>1, <1>7 DEF ReadAllocator
<1>9. Holds(disk, HeaderBlockPlace(mem) + n, v)
  <2>1. disk \in Seq(Nat) /\ pos \in Nat
    BY Types
  <2>2. Holds(disk, pos + 1, v)
    BY <1>1, <2>1 DEF Holds
  <2> QED
    BY <1>6, <2>2
<1> HIDE DEF v
<1>10. /\ AllRead(Got) /\ ReadFrom(disk, Got, lists, FreeLists, Len(disk))
       /\ HasHeaderBlock(Got) /\ HeaderBlockNumber(Got) = HeaderBlockNumber(mem)
       /\ HeaderBlockPlace(Got) = HeaderBlockPlace(mem)
  BY <1>1, <1>2, <1>6, <1>8, HeaderInMemory, HeaderBlockRead
<1>11. /\ HeaderRead(Len(HeaderFields))
       /\ \A s \in HeaderSlots : s \in DOMAIN mem /\ Got[s] = mem[s]
  BY <1>1, <1>2, <1>4, HeaderInMemory DEF LayoutInv, Reading, ReadHeader
<1>12. HeaderBlockStands(disk, Got, n)
  <2> SUFFICES ASSUME NEW k \in 1 .. n
               PROVE  Holds(disk, HeaderBlockPlace(mem) + k, Got[Slot(HeaderBlockFields[k])])
    BY <1>10 DEF HeaderBlockStands
  <2>1. CASE k = n
    BY <1>3, <1>5, <1>9, <2>1
  <2>2. CASE k \in 1 .. n - 1
    <3>1. Slot(HeaderBlockFields[k]) # at
      BY <1>5, <2>2, HeaderBlockIndex
    <3> QED
      BY <1>2, <1>6, <2>2, <3>1 DEF HeaderBlockStands
  <2> QED
    BY <2>1, <2>2
<1>13. \A k \in 1 .. n : Slot(HeaderBlockFields[k]) \in DOMAIN Got
  <2>1. \A k \in 1 .. n : k = n \/ k \in 1 .. n - 1
    OBVIOUS
  <2> QED
    BY <1>2, <1>5, <1>6, <2>1
<1>14. \A s \in DOMAIN Got : s \in HeaderSlots \union HeaderBlockSlots \/ s[1] \in AllocatorFields
  BY <1>1, <1>2, <1>6 DEF ReadHeaderBlock
<1> DEFINE next == IF n < Len(HeaderBlockFields) THEN Slot(HeaderBlockFields[n + 1]) ELSE Done
<1>15. Following(HeaderBlockFields, at, Done) = next
  BY <1>5, HeaderBlockIndex
<1>16. CASE ~HeaderBlockAccepts(at, Got)
  <2>1. mode' = "idle" /\ result' = "not loaded" /\ owned' = owned
    BY <1>16 DEF HeaderBlockFread, Return
  <2> QED
    BY <1>1, <2>1 DEF LayoutInv, NoResultYet, Reading, LoadedStands, Kept
<1>17. CASE HeaderBlockAccepts(at, Got) /\ n < Len(HeaderBlockFields)
  <2>1. n + 1 \in 1 .. Len(HeaderBlockFields) /\ next = Slot(HeaderBlockFields[n + 1])
    BY <1>17 DEF HeaderBlockFields
  <2>2. next \in HeaderBlockSlots
    BY <2>1 DEF HeaderBlockSlots
  <2>3. /\ next \notin HeaderSlots \union {SeekAllocator, Find, SeekHeaderBlock, Done}
        /\ next[1] \notin AllocatorFields
    BY <2>2, Places
  <2>4. /\ at' = Slot(HeaderBlockFields[n + 1]) /\ at' = next
        /\ mode' = mode /\ result' = result /\ owned' = owned
    BY <1>15, <1>17, <2>1, <2>3 DEF HeaderBlockFread
  <2> HIDE DEF next
  <2>5. ReadHeader'
    BY <1>1, <1>11, <2>3, <2>4, HeaderStays
  <2>6. ReadHeaderBlock'
    <3>1. ASSUME NEW k \in 1 .. Len(HeaderBlockFields), at' = Slot(HeaderBlockFields[k])
          PROVE  /\ pos' + 1 = HeaderBlockPlace(Got) + k
                 /\ \A j \in 1 .. k - 1 : Slot(HeaderBlockFields[j]) \in DOMAIN Got
                 /\ HeaderBlockStands(disk, Got, k - 1)
      <4>1. k = n + 1
        BY <2>1, <2>4, <3>1, HeaderBlockIndex
      <4>2. k - 1 = n
        BY <4>1
      <4>3. HeaderBlockPlace(mem) \in Nat
        BY <1>1, <1>2, <1>6, HeaderBlockAddress
      <4>4. pos' + 1 = HeaderBlockPlace(mem) + k
        <5>1. pos \in Nat
          BY Types
        <5> QED
          BY <1>1, <1>6, <4>1, <4>3, <5>1
      <4> QED
        BY <1>10, <1>12, <1>13, <4>2, <4>4
    <3> QED
      BY <1>1, <1>6, <1>10, <1>14, <2>2, <2>4, <3>1 DEF ReadHeaderBlock
  <2>7. ReadAllocator(lists)'
    BY <1>1, <1>10, <2>3, <2>4 DEF ReadAllocator
  <2>8. Reading'
    BY <2>5, <2>6, <2>7 DEF Reading
  <2> QED
    BY <1>1, <2>4, <2>8 DEF LayoutInv, NoResultYet, LoadedStands, Kept
<1>18. CASE HeaderBlockAccepts(at, Got) /\ n = Len(HeaderBlockFields)
  <2>1. /\ mode' = "idle" /\ result' = "loaded" /\ owned' = TRUE
    BY <1>15, <1>18 DEF HeaderBlockFread, Return, HeaderBlockFields
  <2>2. HasSlots(Got)
    <3>1. HeaderBlockSlots \subseteq DOMAIN Got
      BY <1>13, <1>18 DEF HeaderBlockSlots
    <3>2. HeaderSlots \subseteq DOMAIN Got
      BY <1>2, <1>11
    <3>3. \A s \in DOMAIN Got : s[1] \in AllocatorFields => OnWalk(Got, s, AddressCount(Got))
      BY <1>10 DEF ReadFrom, Known
    <3> QED
      BY <1>10, <1>14, <3>1, <3>2, <3>3 DEF HasSlots
  <2>3. HeaderStands(disk, Got, Len(HeaderFields)) /\ \A s \in HeaderSlots : HeaderAccepts(s, Got)
    <3>1. Slot("allocator_offset") \in HeaderSlots
      BY DEF HeaderSlots, HeaderFields
    <3>2. \A s \in HeaderSlots : HeaderAccepts(s, mem) => HeaderAccepts(s, Got)
      BY <1>11, <3>1 DEF HeaderAccepts
    <3>3. \A k \in 1 .. Len(HeaderFields) : Slot(HeaderFields[k]) \in HeaderSlots
      BY DEF HeaderSlots
    <3>4. HeaderStands(disk, Got, Len(HeaderFields))
      BY <1>11, <3>3 DEF HeaderRead, HeaderStands
    <3>5. \A s \in HeaderSlots : HeaderAccepts(s, mem)
      BY <1>11 DEF HeaderRead, HeaderSlots
    <3> QED
      BY <3>2, <3>4, <3>5
  <2>4. Got[Slot("tree_node_page_size")] = PageSize
    BY <1>5, <1>18 DEF HeaderBlockAccepts, HeaderBlockFields
  <2>5. IsLayout(disk, Got, lists)
    BY <1>3, <1>10, <1>12, <1>18, <2>2, <2>3, <2>4 DEF IsLayout, ReadFrom, IsMemory
  <2>6. LoadedStands'
    BY <1>1, <1>7, <2>5 DEF LoadedStands
  <2>7. Kept'
    <3>1. AtPlace(lists)'
      BY <2>1 DEF AtPlace
    <3> QED
      BY <1>1, <1>7, <2>5, <3>1 DEF Kept
  <2> QED
    BY <2>1, <2>6, <2>7 DEF LayoutInv, NoResultYet, Reading
<1>19. n < Len(HeaderBlockFields) \/ n = Len(HeaderBlockFields)
  BY DEF HeaderBlockFields
<1> QED
  BY <1>16, <1>17, <1>18, <1>19

(* The slot at hand of a rewriting is in the file where the writer is.     *)
LEMMA SlotStands ==
  ASSUME IInv, NEW lists, IsLayout(disk, mem, lists), AtPlace(lists), mode = "write",
         at # SeekAllocator
  PROVE  Holds(disk, pos + 1, mem[at])
<1>1. at \in HeaderSlots \/ at[1] \in AllocatorFields
  BY DEF IInv, Writing, OnWalk
<1>2. CASE at \in HeaderSlots
  <2>1. PICK k \in 1 .. Len(HeaderFields) : at = Slot(HeaderFields[k])
    BY <1>2 DEF HeaderSlots
  <2>2. pos + 1 = k
    BY <2>1 DEF AtPlace
  <2>3. Holds(disk, k, mem[Slot(HeaderFields[k])])
    BY <2>1 DEF IsLayout, HeaderStands
  <2> QED
    BY <2>1, <2>2, <2>3
<1>3. CASE at[1] \in AllocatorFields
  <2>1. at \in DOMAIN mem
    BY WrittenWasRead DEF WritesWhatWasRead
  <2>2. Holds(disk, Place(mem, lists, at), mem[at])
    BY <1>3, <2>1 DEF IsLayout, AllocatorStands
  <2> QED
    BY <1>3, <2>2 DEF AtPlace
<1> QED
  BY <1>1, <1>2, <1>3

(* The writer stays at the place of the field at hand.                     *)
LEMMA HeaderFwritePlace ==
  ASSUME IInv, HeaderFwrite, NEW lists, AtPlace(lists)
  PROVE  AtPlace(lists)'
<1>1. mode = "write" /\ at \in HeaderSlots /\ pos' = pos + 1 /\ pos \in Nat
  BY Types DEF HeaderFwrite
<1>2. PICK n \in 1 .. Len(HeaderFields) : at = Slot(HeaderFields[n])
  BY <1>1 DEF HeaderSlots
<1>3. pos + 1 = n /\ at' = IF n < Len(HeaderFields) THEN Slot(HeaderFields[n + 1]) ELSE SeekAllocator
  BY <1>1, <1>2, HeaderIndex DEF AtPlace, HeaderFwrite
<1>4. at' \in HeaderSlots \union {SeekAllocator}
  BY <1>3 DEF HeaderSlots, HeaderFields
<1>5. at'[1] \notin AllocatorFields
  BY <1>4, Places
<1>6. ASSUME NEW k \in 1 .. Len(HeaderFields), at' = Slot(HeaderFields[k])
      PROVE  pos' + 1 = k
  <2>1. at' # SeekAllocator
    BY <1>6, Places DEF HeaderSlots
  <2>2. n < Len(HeaderFields) /\ Slot(HeaderFields[n + 1]) = Slot(HeaderFields[k])
    BY <1>3, <1>6, <2>1
  <2>3. n + 1 = k
    BY <2>2, HeaderIndex DEF HeaderFields
  <2> QED
    BY <1>1, <1>3, <2>3
<1> QED
  BY <1>5, <1>6 DEF AtPlace

LEMMA AllocatorFwritePlace ==
  ASSUME IInv, AllocatorFwrite, NEW lists \in ListPlaces, AtPlace(lists),
         mem[Slot("block_count")] <= Factor, Chain(mem, lists, FreeLists)
  PROVE  AtPlace(lists)'
<1> DEFINE next == After(at, mem, Factor)
<1>1. /\ mode = "write" /\ at[1] \in AllocatorFields /\ pos' = pos + 1 /\ pos \in Nat /\ mem' = mem
      /\ owned /\ AllRead(mem) /\ mem[Slot("block_count")] # 0
      /\ OnWalk(mem, at, Factor)
  BY Types, Places DEF AllocatorFwrite, IInv, Writing, Owned
<1>2. \A s \in DOMAIN mem : mem[s] \in Nat
  BY DEF IInv
<1>3. AddressCount(mem) = Factor
  <2> DEFINE b == mem[Slot("block_count")]
  <2>1. b \in Nat
    BY <1>1, <1>2 DEF AllRead
  <2> HIDE DEF b
  <2>2. b \in 1 .. Factor
    BY <1>1, <2>1, SizesAssumption DEF b
  <2>3. PaddedCount(b) = Factor
    BY <2>2, SmallCount
  <2> QED
    BY <2>1, <2>3, AddressCountIs DEF b
<1>4. Numbers(mem, at)
  <2>1. at[1] \in {"free_count", "offsets"} => <<"free_count", at[2], 0>> \in DOMAIN mem
    BY <1>1 DEF AllRead, ListsRead, OnWalk
  <2> QED
    BY <1>1, <1>2, <1>3, <2>1, HeaderInMemory, SizesAssumption DEF Numbers, AllRead
<1>5. AddressCount(mem) \in Nat /\ OnWalk(mem, at, AddressCount(mem))
  BY <1>1, <1>3, SizesAssumption
<1>6. \/ next = Done /\ Begun(at) = FreeLists
      \/ /\ next # Done /\ next[1] # "free_count" /\ Begun(next) = Begun(at)
         /\ Place(mem, lists, next) = Place(mem, lists, at) + 1
      \/ /\ Begun(at) \in 0 .. FreeLists - 1 /\ next = <<"free_count", Begun(at), 0>>
         /\ ListStart(mem, lists, Begun(at)) = Place(mem, lists, at) + 1
  BY <1>3, <1>4, <1>5, NextPlace
<1>7. \/ next = Done /\ mode' = "idle"
      \/ next # Done /\ at' = next /\ mode' = mode
  BY DEF AllocatorFwrite, WrittenCount, Return
<1>8. next # Done => OnWalk(mem, next, Factor)
  <2>1. /\ at[1] \in EntryFields \union {"directory_count"} =>
             mem[Slot("directory_count")] \in Nat
        /\ at[1] \in {"free_count", "offsets"} => mem[<<"free_count", at[2], 0>>] \in Nat
    BY <1>4 DEF Numbers
  <2> QED
    BY <1>1, <2>1, AfterOnWalk, SizesAssumption
<1> HIDE DEF next
<1>9. next # Done => Place(mem, lists, next) = pos' + 1
  <2>1. Place(mem, lists, at) = pos + 1
    BY <1>1 DEF AtPlace
  <2>2. ASSUME Begun(at) \in 0 .. FreeLists - 1, next = <<"free_count", Begun(at), 0>>
        PROVE  Place(mem, lists, next) = ListStart(mem, lists, Begun(at))
    BY <2>2 DEF Place, Chain
  <2> QED
    BY <1>1, <1>6, <2>1, <2>2
<1>10. next # Done => \A k \in 1 .. Len(HeaderFields) : next # Slot(HeaderFields[k])
  BY <1>8, Places DEF OnWalk, HeaderSlots
<1> QED
  BY <1>1, <1>7, <1>9, <1>10 DEF AtPlace

(* One fwrite into a store that fits: the file stays as it is.             *)
LEMMA FwriteSame ==
  ASSUME IInv, NEW lists, IsLayout(disk, mem, lists), AtPlace(lists),
         HeaderFwrite \/ AllocatorFwrite
  PROVE  disk' = disk
<1>1. mode = "write" /\ at # SeekAllocator /\ disk' = Put(mem[at])
  BY Places DEF HeaderFwrite, AllocatorFwrite
<1> QED
  BY <1>1, SlotStands, PutSame

LEMMA FwriteLayout ==
  ASSUME IInv, LayoutInv, HeaderFwrite \/ AllocatorFwrite
  PROVE  LayoutInv'
<1>1. /\ mode = "write" /\ mode' \in {"write", "idle"}
      /\ result' = result \/ (mode' = "idle" /\ result' = "not written")
      /\ mem' = mem /\ owned' = owned /\ fresh' = fresh
  <2>1. CASE HeaderFwrite
    BY <2>1 DEF HeaderFwrite
  <2>2. CASE AllocatorFwrite
    BY <2>2 DEF AllocatorFwrite, Return
  <2> QED
    BY <2>1, <2>2
<1>2. NoResultYet' /\ LoadedStands' /\ Reading'
  BY <1>1 DEF LayoutInv, NoResultYet, LoadedStands, Reading
<1>3. ASSUME owned, ~fresh, mem[Slot("block_count")] <= Factor
      PROVE  \E lists \in ListPlaces : IsLayout(disk', mem', lists) /\ AtPlace(lists)'
  <2>1. PICK lists \in ListPlaces : IsLayout(disk, mem, lists) /\ AtPlace(lists)
    BY <1>3 DEF LayoutInv, Kept
  <2>2. disk' = disk
    BY <2>1, FwriteSame
  <2>3. Chain(mem, lists, FreeLists)
    BY <2>1 DEF IsLayout
  <2>4. AtPlace(lists)'
    BY <1>3, <2>1, <2>3, HeaderFwritePlace, AllocatorFwritePlace
  <2> QED
    BY <1>1, <2>1, <2>2, <2>4
<1>4. Kept'
  BY <1>1, <1>3 DEF Kept
<1> QED
  BY <1>2, <1>4 DEF LayoutInv

LEMMA FailsLayout ==
  ASSUME LayoutInv, FreadFails \/ SeekFails \/ FwriteFails
  PROVE  LayoutInv'
<1>1. mode' = "idle" /\ result' # "loaded" /\ UNCHANGED <<mem, disk, owned, fresh>>
  BY DEF FreadFails, SeekFails, FwriteFails, Return
<1> QED
  BY <1>1, ReturnLayout

LEMMA StutterLayout ==
  ASSUME LayoutInv, UNCHANGED vars
  PROVE  LayoutInv'
<1> USE DEF vars
<1>1. ReadHeader => ReadHeader'
  BY DEF ReadHeader, HeaderRead
<1>2. ReadHeaderBlock => ReadHeaderBlock'
  BY DEF ReadHeaderBlock
<1>3. \A lists : ReadAllocator(lists) => ReadAllocator(lists)'
  BY DEF ReadAllocator
<1>4. Reading'
  BY <1>1, <1>2, <1>3 DEF LayoutInv, Reading
<1>5. \A lists : AtPlace(lists) => AtPlace(lists)'
  BY DEF AtPlace
<1>6. NoResultYet' /\ LoadedStands' /\ Kept'
  BY <1>5 DEF LayoutInv, NoResultYet, LoadedStands, Kept
<1> QED
  BY <1>4, <1>6 DEF LayoutInv

-----------------------------------------------------------------------------
(* Theorems about every file.                                              *)

(* While ds_store_fread runs, all that is in memory stands in the file at  *)
(* the places that the fields read so far give, and the next field is at   *)
(* the position of the file: for any file, whole or not.                   *)
THEOREM LayoutInvariance == Spec => []LayoutInv
<1>1. Init => LayoutInv
  BY InitLayout
<1>2. IInv /\ LayoutInv /\ [Next]_vars => LayoutInv'
  BY CallFreadLayout, CallFwriteLayout, HeaderFreadLayout, SeekBuddyAllocatorLayout,
     AllocatorFreadLayout, FindDSDBLayout, SeekToHeaderBlockLayout, HeaderBlockFreadLayout,
     FwriteLayout, FailsLayout, StutterLayout DEF Next, Step
<1> QED
  BY <1>1, <1>2, Invariance, PTL DEF Spec

(* A store that ds_store_fread returns stands in the file in full, and the *)
(* file's checks hold of it: of no file, cut off, damaged or half written, *)
(* is more returned than what it says.                                     *)
THEOREM LoadedStoreStandsInFile == Spec => []LoadedStands
<1>1. LayoutInv => LoadedStands
  BY DEF LayoutInv
<1> QED
  BY <1>1, LayoutInvariance, PTL

(* Of a store with at most 256 addresses, each fwrite into the file that   *)
(* it was read from puts back the value that is there.                     *)
THEOREM SmallStoresAreRewrittenAsTheyAre == Spec => SmallRewriteIsHarmless
<1>1. ASSUME IInv, LayoutInv, [Next]_vars, mode = "write", ~fresh,
             mem[Slot("block_count")] <= Factor
      PROVE  disk' = disk
  <2>1. owned
    BY <1>1 DEF IInv, Writing
  <2>2. PICK lists \in ListPlaces : IsLayout(disk, mem, lists) /\ AtPlace(lists)
    BY <1>1, <2>1 DEF LayoutInv, Kept
  <2>3. CASE HeaderFwrite \/ AllocatorFwrite
    BY <1>1, <2>2, <2>3, FwriteSame
  <2>4. CASE ~(HeaderFwrite \/ AllocatorFwrite)
    BY <1>1, <2>4 DEF Next, Step, CallFread, CallFwrite, Begin, HeaderFread, SeekBuddyAllocator,
         AllocatorFread, FindDSDB, SeekToHeaderBlock, HeaderBlockFread, FreadFails, SeekFails,
         FwriteFails, vars
  <2> QED
    BY <2>3, <2>4
<1>2. IInv /\ LayoutInv /\ [Next]_vars =>
        [mode = "write" /\ ~fresh /\ mem[Slot("block_count")] <= Factor => disk' = disk]_vars
  BY <1>1
<1> QED
  BY <1>2, Invariance, LayoutInvariance, PTL DEF Spec, SmallRewriteIsHarmless

-----------------------------------------------------------------------------
(* The list of addresses that is written.                                  *)

LEMMA SeekWriterAt ==
  ASSUME IInv, SeekBuddyAllocator
  PROVE  WriterAt'
<1>1. /\ at' = Slot("block_count") /\ mem' = mem
      /\ pos' = 1 + mem[Slot("allocator_offset")]
  BY DEF SeekBuddyAllocator
<1>2. /\ Slot("block_count")[1] # "block_addresses"
      /\ Slot("block_count") # Slot("unknown")
      /\ Slot("block_count") # Slot("directory_count")
  BY DEF Slot
<1> QED
  BY <1>1, <1>2 DEF WriterAt

LEMMA FwriteWriterAt ==
  ASSUME IInv, WriterAt, AllocatorFwrite
  PROVE  WriterAt'
<1> DEFINE begin == 1 + mem[Slot("allocator_offset")]
           next == After(at, mem, Factor)
<1>1. /\ mode = "write" /\ pos' = pos + 1 /\ mem' = mem
      /\ mode' = "idle" \/ at' = next
  BY DEF AllocatorFwrite, WrittenCount, Return
<1>2. /\ OnWalk(mem, at, Factor) /\ begin \in Nat
  <2>1. mem[Slot("allocator_offset")] \in Nat
    BY HeaderInMemory DEF IsMemory
  <2>2. at \notin HeaderSlots \union {SeekAllocator}
    BY Places DEF AllocatorFwrite
  <2>3. OnWalk(mem, at, Factor)
    BY <1>1, <2>2 DEF IInv, Writing
  <2> QED
    BY <2>1, <2>3
<1>3. /\ at[1] = "block_count" => pos = begin
      /\ at[1] = "unknown" => pos = begin + 1
      /\ at[1] = "block_addresses" => pos = begin + 2 + at[2]
  BY <1>1, <1>2 DEF WriterAt, OnWalk
<1> HIDE DEF begin, next
<1>4. CASE at[1] = "block_count"
  <2>1. next = <<"unknown", 0, 0>>
    BY <1>4 DEF next, After, Slot
  <2> QED
    BY <1>1, <1>2, <1>3, <1>4, <2>1 DEF WriterAt, Slot, begin
<1>5. ASSUME NEW k \in 0 .. Factor, pos + 1 = begin + 2 + k,
             next = IF k < Factor THEN <<"block_addresses", k, 0>> ELSE Slot("directory_count")
      PROVE  WriterAt'
  <2>1. CASE k < Factor
    <3>1. next = <<"block_addresses", k, 0>>
      BY <1>5, <2>1
    <3> QED
      BY <1>1, <1>5, <3>1 DEF WriterAt, Slot, begin
  <2>2. CASE k = Factor
    <3>1. next = <<"directory_count", 0, 0>>
      BY <1>5, <2>2, SizesAssumption DEF Slot
    <3> QED
      BY <1>1, <1>5, <2>2, <3>1 DEF WriterAt, Slot, begin
  <2> QED
    BY <2>1, <2>2, SizesAssumption
<1>6. CASE at[1] = "unknown"
  <2>1. next = IF 0 < Factor THEN <<"block_addresses", 0, 0>> ELSE Slot("directory_count")
    BY <1>6 DEF next, After
  <2>2. pos + 1 = begin + 2 + 0 /\ 0 \in 0 .. Factor
    BY <1>2, <1>3, <1>6, SizesAssumption
  <2> QED
    BY <1>5, <2>1, <2>2
<1>7. CASE at[1] = "block_addresses"
  <2>1. next = IF at[2] + 1 < Factor THEN <<"block_addresses", at[2] + 1, 0>>
                                     ELSE Slot("directory_count")
    BY <1>7 DEF next, After
  <2>2. at[2] \in 0 .. Factor - 1
    BY <1>2, <1>7 DEF OnWalk
  <2>3. pos + 1 = begin + 2 + (at[2] + 1) /\ at[2] + 1 \in 0 .. Factor
    BY <1>2, <1>3, <1>7, <2>2, SizesAssumption
  <2> QED
    BY <1>5, <2>1, <2>3
<1>8. CASE at[1] \notin {"block_count", "unknown", "block_addresses"}
  <2>1. next = Done \/ next[1] \in {"count", "bytes", "block_number", "free_count", "offsets"}
    BY <1>2, <1>8 DEF next, After, OnWalk, AllocatorFields, EntryFrom, OffsetFrom, FreeListFrom
  <2> QED
    BY <1>1, <2>1 DEF WriterAt, Done, Slot
<1> QED
  BY <1>4, <1>6, <1>7, <1>8

LEMMA HeaderWriterAt ==
  ASSUME at' \in HeaderSlots \union {SeekAllocator}
  PROVE  WriterAt'
<1>1. at'[1] \notin AllocatorFields
  BY Places
<1> QED
  BY <1>1 DEF WriterAt, AllocatorFields, Slot

(* A store with at most 256 addresses, which are one block at least, is    *)
(* written with the list that the reader wants: the finding about          *)
(* dsstore_buddy_allocator_state_fwrite is about larger ones only.         *)
THEOREM SmallListsArePadded == Spec => []SmallListIsPadded
<1>1. Init => WriterAt
  BY DEF Init, WriterAt
<1>2. IInv /\ WriterAt /\ [Next]_vars => WriterAt'
  <2> SUFFICES ASSUME IInv, WriterAt, [Next]_vars
               PROVE  WriterAt'
    OBVIOUS
  <2>1. CASE CallFwrite
    <3>1. at' \in HeaderSlots
      BY <2>1 DEF CallFwrite, Begin, HeaderSlots, HeaderFields
    <3> QED
      BY <3>1, HeaderWriterAt
  <2>2. CASE HeaderFwrite
    <3>1. at' \in HeaderSlots \union {SeekAllocator}
      BY <2>2, HeaderWalk DEF HeaderFwrite
    <3> QED
      BY <3>1, HeaderWriterAt
  <2>3. CASE UNCHANGED vars
    BY <2>3 DEF vars, WriterAt
  <2>4. ASSUME mode' # "write"
        PROVE  WriterAt'
    BY <2>4 DEF WriterAt
  <2>5. CASE \/ CallFread \/ HeaderFread \/ AllocatorFread \/ FindDSDB \/ SeekToHeaderBlock
             \/ HeaderBlockFread \/ FreadFails \/ SeekFails \/ FwriteFails
    <3>1. mode' # "write"
      BY <2>5 DEF CallFread, Begin, HeaderFread, AllocatorFread, FindDSDB, SeekToHeaderBlock,
           HeaderBlockFread, FreadFails, SeekFails, FwriteFails, Return
    <3> QED
      BY <2>4, <3>1
  <2> QED
    BY <2>1, <2>2, <2>3, <2>5, SeekWriterAt, FwriteWriterAt DEF Next, Step
<1>3. IInv /\ WriterAt => SmallListIsPadded
  <2> SUFFICES ASSUME IInv, WriterAt, mem[Slot("block_count")] <= Factor,
                      mode = "write", at = Slot("directory_count")
               PROVE  pos = 1 + mem[Slot("allocator_offset")] + 2
                              + PaddedCount(mem[Slot("block_count")])
    BY DEF SmallListIsPadded, WritesPaddedList
  <2> DEFINE b == mem[Slot("block_count")]
  <2>1. b \in Nat /\ b # 0
    BY DEF IInv, Writing, Owned, AllRead
  <2>2. PaddedCount(b) = Factor
    <3> HIDE DEF b
    <3>1. b \in 1 .. Factor
      BY <2>1, SizesAssumption DEF b
    <3> QED
      BY <3>1, SmallCount
  <2> QED
    BY <2>2 DEF WriterAt
<1> QED
  BY <1>1, <1>2, <1>3, Invariance, PTL DEF Spec

-----------------------------------------------------------------------------
(* Two memories that stand in the same file.                               *)

(* What a store of a file is: the slots of the allocator have values. *)
IsStore(m, lists) ==
  /\ m \in [DOMAIN m -> Nat] /\ HasSlots(m)
  /\ lists \in ListPlaces /\ Chain(m, lists, FreeLists)

(* m is read from cells, as far as p and with n free lists begun; cells    *)
(* agrees with the store M.                                                *)
ReadAgain(cells, M, L, m, lists, n, p) ==
  /\ IsStore(M, L) /\ Agrees(cells, M, L)
  /\ n \in 0 .. FreeLists /\ ReadFrom(cells, m, lists, n, p)
  /\ m[Slot("allocator_offset")] = M[Slot("allocator_offset")]
  /\ n > 0 => Slot("block_count") \in DOMAIN m /\ Slot("directory_count") \in DOMAIN m
  /\ \A i \in 0 .. n - 2 : <<"free_count", i, 0>> \in DOMAIN m

(* The counts and the free lists that have begun are those of the store.   *)
LEMMA CountsAgree ==
  ASSUME NEW cells, NEW M, NEW L, NEW m, NEW lists, NEW n, NEW p,
         ReadAgain(cells, M, L, m, lists, n, p)
  PROVE  /\ Slot("block_count") \in DOMAIN m => m[Slot("block_count")] = M[Slot("block_count")]
         /\ Slot("directory_count") \in DOMAIN m =>
              m[Slot("directory_count")] = M[Slot("directory_count")]
         /\ \A i \in 0 .. n - 1 : lists[i] = L[i]
         /\ \A i \in 0 .. n - 1 : <<"free_count", i, 0>> \in DOMAIN m =>
              m[<<"free_count", i, 0>>] = M[<<"free_count", i, 0>>]
<1> DEFINE bc == Slot("block_count")
           dc == Slot("directory_count")
           fc(i) == <<"free_count", i, 0>>
<1> USE DEF ReadAgain
<1>1. AllRead(M) /\ Base(m) = Base(M)
  BY DEF IsStore, HasSlots, Base
<1>2. bc \in DOMAIN M /\ dc \in DOMAIN M /\ \A i \in 0 .. FreeLists - 1 : fc(i) \in DOMAIN M
  BY <1>1 DEF AllRead, ListsRead
<1>3. ASSUME NEW s \in DOMAIN m, s \in DOMAIN M, s[1] \in AllocatorFields,
             Place(m, lists, s) = Place(M, L, s)
      PROVE  m[s] = M[s]
  <2>1. Holds(cells, Place(m, lists, s), m[s])
    BY <1>3 DEF ReadFrom, AllocatorStands
  <2>2. Place(M, L, s) <= Len(cells) /\ cells[Place(M, L, s)] = m[s]
    BY <1>3, <2>1 DEF Holds
  <2> QED
    BY <1>3, <2>2 DEF Agrees
<1>4. bc \in DOMAIN m => m[bc] = M[bc]
  <2>1. Place(m, lists, bc) = Place(M, L, bc) /\ bc[1] \in AllocatorFields
    BY <1>1 DEF Place, Slot, AllocatorFields
  <2> HIDE DEF bc
  <2> QED
    BY <1>2, <1>3, <2>1
<1>5. bc \in DOMAIN m => Directory(m) = Directory(M)
  BY <1>1, <1>4 DEF Directory, AddressCount
<1>6. dc \in DOMAIN m => bc \in DOMAIN m /\ m[dc] = M[dc]
  <2>1. dc[1] \in AllocatorFields
    BY DEF Slot, AllocatorFields
  <2>2. dc \in DOMAIN m => bc \in DOMAIN m
    BY <2>1 DEF ReadFrom, Known
  <2>3. bc \in DOMAIN m => Place(m, lists, dc) = Place(M, L, dc)
    BY <1>5 DEF Place, Slot
  <2> HIDE DEF bc, dc
  <2> QED
    BY <1>2, <1>3, <2>1, <2>2, <2>3
<1>7. \A i \in 0 .. FreeLists - 1 : lists[i] = L[i] /\ fc(i) \in DOMAIN m => m[fc(i)] = M[fc(i)]
  <2> SUFFICES ASSUME NEW i \in 0 .. FreeLists - 1, lists[i] = L[i], fc(i) \in DOMAIN m
               PROVE  m[fc(i)] = M[fc(i)]
    OBVIOUS
  <2>1. fc(i)[1] \in AllocatorFields /\ Place(m, lists, fc(i)) = Place(M, L, fc(i))
    BY DEF Place, AllocatorFields
  <2>2. fc(i) \in DOMAIN M
    BY <1>2
  <2> HIDE DEF fc
  <2> QED
    BY <1>3, <2>1, <2>2
<1>8. \A i \in 0 .. n - 1 : lists[i] = L[i]
  <2> DEFINE S == {i \in 0 .. n - 1 : lists[i] # L[i]}
  <2> SUFFICES ASSUME S # {}
               PROVE  FALSE
    OBVIOUS
  <2>1. S \in SUBSET Nat
    OBVIOUS
  <2>2. PICK i \in S : \A k \in S : i <= k
    BY <2>1, SmallestOf
  <2>3. /\ i \in 0 .. n - 1 /\ i \in 0 .. FreeLists - 1 /\ n > 0
        /\ lists[i] = ListStart(m, lists, i) /\ L[i] = ListStart(M, L, i)
    BY SizesAssumption DEF ReadFrom, IsStore, Chain
  <2>4. CASE i = 0
    BY <1>5, <1>6, <2>3, <2>4 DEF ListStart
  <2>5. CASE i # 0
    <3>1. i - 1 \in 0 .. n - 2 /\ i - 1 \in 0 .. FreeLists - 1 /\ i - 1 \in 0 .. n - 1 /\ i - 1 < i
      BY <2>3, <2>5, SizesAssumption
    <3>2. lists[i - 1] = L[i - 1]
      BY <2>2, <3>1
    <3>3. m[fc(i - 1)] = M[fc(i - 1)]
      BY <1>7, <3>1, <3>2
    <3> QED
      BY <2>3, <2>5, <3>2, <3>3 DEF ListStart
  <2> QED
    BY <2>4, <2>5
<1>9. \A i \in 0 .. n - 1 : fc(i) \in DOMAIN m => m[fc(i)] = M[fc(i)]
  <2>1. \A i \in 0 .. n - 1 : i \in 0 .. FreeLists - 1
    BY SizesAssumption
  <2> QED
    BY <1>7, <1>8, <2>1
<1> QED
  BY <1>4, <1>6, <1>8, <1>9

(* The walk comes to no slot that the store does not have.                 *)
LEMMA WalkInStore ==
  ASSUME NEW m, AllRead(m), m[Slot("block_count")] \in Nat,
         NEW s, OnWalk(m, s, AddressCount(m))
  PROVE  s \in DOMAIN m
<1>1. CASE s[1] \in {"block_count", "unknown", "directory_count"}
  BY <1>1 DEF OnWalk, AllRead
<1>2. CASE s[1] = "block_addresses"
  BY <1>2, AddressCountIs DEF OnWalk, AllRead, AddressesRead
<1>3. CASE s[1] \in EntryFields
  BY <1>3 DEF OnWalk, AllRead, EntriesRead
<1>4. CASE s[1] \in {"free_count", "offsets"}
  BY <1>4 DEF OnWalk, AllRead, ListsRead, OffsetsRead
<1> QED
  BY <1>1, <1>2, <1>3, <1>4 DEF OnWalk, AllocatorFields, EntryFields

(* What the reader must know to come to s. *)
Ahead(m, s, n) ==
  /\ OnWalk(m, s, AddressCount(m))
  /\ s[1] # "block_count" => Slot("block_count") \in DOMAIN m
  /\ s[1] \in EntryFields \union {"free_count", "offsets"} => Slot("directory_count") \in DOMAIN m
  /\ s[1] \in {"free_count", "offsets"} => s[2] < n
  /\ s[1] = "offsets" => <<"free_count", s[2], 0>> \in DOMAIN m

(* So are the slots, read or next, and their places.                       *)
LEMMA SlotAgrees ==
  ASSUME NEW cells, NEW M, NEW L, NEW m, NEW lists, NEW n, NEW p,
         ReadAgain(cells, M, L, m, lists, n, p),
         NEW s, Ahead(m, s, n)
  PROVE  /\ s \in DOMAIN M /\ Place(m, lists, s) = Place(M, L, s)
         /\ s \in DOMAIN m => m[s] = M[s]
<1>1. /\ Slot("block_count") \in DOMAIN m => m[Slot("block_count")] = M[Slot("block_count")]
      /\ Slot("directory_count") \in DOMAIN m =>
           m[Slot("directory_count")] = M[Slot("directory_count")]
      /\ \A i \in 0 .. n - 1 : lists[i] = L[i]
      /\ \A i \in 0 .. n - 1 : <<"free_count", i, 0>> \in DOMAIN m =>
           m[<<"free_count", i, 0>>] = M[<<"free_count", i, 0>>]
  BY CountsAgree
<1> USE DEF ReadAgain
<1>2. s[1] \in AllocatorFields
  BY DEF Ahead, OnWalk
<1>3. s[1] # "block_count" => AddressCount(m) = AddressCount(M) /\ Directory(m) = Directory(M)
  BY <1>1 DEF Ahead, AddressCount, Directory, Base
<1>4. s[1] \in {"free_count", "offsets"} => s[2] \in 0 .. n - 1
  BY SizesAssumption DEF Ahead, OnWalk
<1>5. Place(m, lists, s) = Place(M, L, s)
  <2>1. CASE s[1] = "block_count"
    BY <2>1 DEF Place, Base
  <2>2. CASE s[1] # "block_count"
    BY <1>1, <1>3, <1>4, <2>2 DEF Place, Base
  <2> QED
    BY <2>1, <2>2
<1>6. OnWalk(M, s, AddressCount(M))
  <2>1. CASE s[1] = "block_count"
    BY <2>1 DEF Ahead, OnWalk, EntryFields
  <2>2. CASE s[1] # "block_count"
    <3>1. s[1] \in EntryFields => m[Slot("directory_count")] = M[Slot("directory_count")]
      BY <1>1 DEF Ahead
    <3>2. s[1] = "offsets" => m[<<"free_count", s[2], 0>>] = M[<<"free_count", s[2], 0>>]
      BY <1>1, <1>4 DEF Ahead
    <3> QED
      BY <1>3, <2>2, <3>1, <3>2 DEF Ahead, OnWalk
  <2> QED
    BY <2>1, <2>2
<1>7. s \in DOMAIN M
  <2>1. AllRead(M) /\ M[Slot("block_count")] \in Nat
    BY DEF ReadAgain, IsStore, HasSlots, AllRead
  <2> QED
    BY <1>6, <2>1, WalkInStore
<1>8. ASSUME s \in DOMAIN m
      PROVE  m[s] = M[s]
  <2>1. Holds(cells, Place(m, lists, s), m[s])
    BY <1>2, <1>8 DEF ReadFrom, AllocatorStands
  <2>2. Place(M, L, s) <= Len(cells) /\ cells[Place(M, L, s)] = m[s]
    BY <1>5, <2>1 DEF Holds
  <2> QED
    BY <1>2, <1>7, <2>2 DEF Agrees
<1> QED
  BY <1>5, <1>7, <1>8


(* Of the store that a layout says the file is, all slots are ahead.       *)
LEMMA StoreAhead ==
  ASSUME NEW m, AllRead(m), NEW s, OnWalk(m, s, AddressCount(m))
  PROVE  Ahead(m, s, FreeLists)
<1>1. s[1] \in {"free_count", "offsets"} => s[2] \in 0 .. FreeLists - 1
  BY DEF OnWalk
<1>2. s[1] = "offsets" => <<"free_count", s[2], 0>> \in DOMAIN m
  BY <1>1 DEF AllRead, ListsRead
<1> QED
  BY <1>1, <1>2, SizesAssumption DEF Ahead, AllRead

(* What was read in full from a file of a store is the store's allocator.  *)
LEMMA StoreAgain ==
  ASSUME NEW cells, NEW M, NEW L, NEW m, NEW lists, NEW p, AllRead(m),
         ReadAgain(cells, M, L, m, lists, FreeLists, p)
  PROVE  /\ \A s : s[1] \in AllocatorFields => (s \in DOMAIN m <=> s \in DOMAIN M)
         /\ \A s \in DOMAIN m : s[1] \in AllocatorFields =>
              m[s] = M[s] /\ Place(m, lists, s) = Place(M, L, s)
<1>1. ASSUME NEW s, s[1] \in AllocatorFields, OnWalk(m, s, AddressCount(m))
      PROVE  /\ s \in DOMAIN M /\ Place(m, lists, s) = Place(M, L, s)
             /\ s \in DOMAIN m => m[s] = M[s]
  BY <1>1, StoreAhead, SlotAgrees
<1>2. ASSUME NEW s \in DOMAIN m, s[1] \in AllocatorFields
      PROVE  OnWalk(m, s, AddressCount(m))
  BY <1>2 DEF ReadAgain, ReadFrom, Known
<1>3. /\ m[Slot("block_count")] = M[Slot("block_count")]
      /\ m[Slot("directory_count")] = M[Slot("directory_count")]
      /\ \A i \in 0 .. FreeLists - 1 : <<"free_count", i, 0>> \in DOMAIN m =>
           m[<<"free_count", i, 0>>] = M[<<"free_count", i, 0>>]
  BY CountsAgree DEF AllRead
<1>4. \A i \in 0 .. FreeLists - 1 : m[<<"free_count", i, 0>>] = M[<<"free_count", i, 0>>]
  BY <1>3 DEF AllRead, ListsRead
<1>5. ASSUME NEW s \in DOMAIN M, s[1] \in AllocatorFields
      PROVE  s \in DOMAIN m
  <2>1. OnWalk(M, s, AddressCount(M))
    <3>1. s \notin HeaderSlots \union HeaderBlockSlots
      BY <1>5, Places
    <3> QED
      BY <3>1 DEF ReadAgain, IsStore, HasSlots
  <2>2. AddressCount(m) = AddressCount(M)
    BY <1>3 DEF AddressCount
  <2>3. OnWalk(m, s, AddressCount(m))
    BY <1>3, <1>4, <2>1, <2>2 DEF OnWalk
  <2>4. m[Slot("block_count")] \in Nat
    BY <1>3 DEF ReadAgain, IsStore, HasSlots, AllRead
  <2> QED
    BY <2>3, <2>4, WalkInStore
<1> QED
  BY <1>1, <1>2, <1>5

(* So the header block is the same one. *)
LEMMA SameHeaderBlock ==
  ASSUME NEW M, NEW m, IsMemory(m), AllRead(m), AllRead(M),
         \A s \in DOMAIN m : s[1] \in AllocatorFields => m[s] = M[s]
  PROVE  /\ HeaderBlockNumber(m) = HeaderBlockNumber(M)
         /\ HasHeaderBlock(m) <=> HasHeaderBlock(M)
         /\ HasHeaderBlock(m) => HeaderBlockPlace(m) = HeaderBlockPlace(M)
<1>1. /\ m[Slot("block_count")] = M[Slot("block_count")]
      /\ m[Slot("directory_count")] = M[Slot("directory_count")]
  <2>1. /\ Slot("block_count")[1] \in AllocatorFields
        /\ Slot("directory_count")[1] \in AllocatorFields
    BY DEF Slot, AllocatorFields
  <2> QED
    BY <2>1 DEF AllRead
<1>2. ASSUME NEW i \in 0 .. m[Slot("directory_count")] - 1, NEW f \in EntryFields
      PROVE  m[<<f, i, 0>>] = M[<<f, i, 0>>]
  <2>1. <<f, i, 0>> \in DOMAIN m
    BY <1>2 DEF AllRead, EntriesRead
  <2>2. <<f, i, 0>>[1] \in AllocatorFields
    BY DEF EntryFields, AllocatorFields
  <2> QED
    BY <2>1, <2>2
<1>3. EntriesOf(m) = EntriesOf(M)
  BY <1>1, <1>2 DEF EntriesOf, EntryFields
<1>4. HeaderBlockNumber(m) = HeaderBlockNumber(M)
  <2>1. CASE EntriesOf(m) = {}
    BY <1>3, <2>1 DEF HeaderBlockNumber
  <2>2. CASE EntriesOf(m) # {}
    <3>1. PICK e \in EntriesOf(m) :
            /\ e = CHOOSE i \in EntriesOf(m) : \A k \in EntriesOf(m) : i <= k
            /\ HeaderBlockNumber(m) = m[<<"block_number", e, 0>>]
      BY <2>2, HeaderBlockNumberFacts
    <3>2. e = CHOOSE i \in EntriesOf(M) : \A k \in EntriesOf(M) : i <= k
      BY <1>3, <3>1
    <3>3. HeaderBlockNumber(M) = M[<<"block_number", e, 0>>]
      BY <1>3, <2>2, <3>2 DEF HeaderBlockNumber
    <3>4. m[<<"block_number", e, 0>>] = M[<<"block_number", e, 0>>]
      BY <1>2, <3>1 DEF EntriesOf, EntryFields
    <3> QED
      BY <3>1, <3>3, <3>4
  <2> QED
    BY <2>1, <2>2
<1>5. HasHeaderBlock(m) <=> HasHeaderBlock(M)
  BY <1>1, <1>4 DEF HasHeaderBlock
<1>6. ASSUME HasHeaderBlock(m)
      PROVE  HeaderBlockPlace(m) = HeaderBlockPlace(M)
  <2> DEFINE a == <<"block_addresses", HeaderBlockNumber(m), 0>>
  <2>1. a \in DOMAIN m /\ a[1] \in AllocatorFields
    BY <1>6, HeaderBlockAddress DEF AllocatorFields
  <2>2. m[a] = M[a]
    BY <2>1
  <2> QED
    BY <1>4, <2>2 DEF HeaderBlockPlace
<1> QED
  BY <1>4, <1>5, <1>6


(* A layout is a file that agrees with its store. *)
LEMMA LayoutAgrees ==
  ASSUME NEW cells, NEW M, NEW L, IsLayout(cells, M, L)
  PROVE  IsStore(M, L) /\ Agrees(cells, M, L)
BY DEF IsLayout, IsStore, Agrees, HeaderStands, AllocatorStands, Holds

(* The header of two stores in the same file is the same. *)
LEMMA SameHeader ==
  ASSUME NEW cells, NEW M, NEW L, Agrees(cells, M, L), NEW m, NEW n \in 0 .. Len(HeaderFields),
         HeaderStands(cells, m, n)
  PROVE  \A k \in 1 .. n : m[Slot(HeaderFields[k])] = M[Slot(HeaderFields[k])]
BY DEF Agrees, HeaderStands, Holds, HeaderFields

LEMMA SameOffset ==
  ASSUME NEW cells, NEW M, NEW L, Agrees(cells, M, L), NEW m,
         HeaderStands(cells, m, Len(HeaderFields))
  PROVE  m[Slot("allocator_offset")] = M[Slot("allocator_offset")]
<1>1. 3 \in 1 .. Len(HeaderFields) /\ HeaderFields[3] = "allocator_offset"
  BY DEF HeaderFields
<1> QED
  BY <1>1, SameHeader DEF HeaderFields

(* A layout of a file that agrees with a store is read from it again.      *)
LEMMA LayoutAgain ==
  ASSUME NEW cells \in Seq(Nat), NEW M, NEW L, IsStore(M, L), Agrees(cells, M, L),
         NEW m, NEW lists, IsLayout(cells, m, lists)
  PROVE  /\ ReadAgain(cells, M, L, m, lists, FreeLists, Len(cells))
         /\ IsMemory(m) /\ AllRead(m)
<1>1. IsMemory(m) /\ AllRead(m)
  BY DEF IsLayout, IsMemory, HasSlots
<1>2. ASSUME NEW s \in DOMAIN m, s[1] \in AllocatorFields
      PROVE  Known(m, s, FreeLists) /\ Place(m, lists, s) <= Len(cells)
  <2>1. s \notin HeaderSlots \union HeaderBlockSlots
    BY <1>2, Places
  <2>2. OnWalk(m, s, AddressCount(m))
    BY <2>1 DEF IsLayout, HasSlots
  <2>3. Ahead(m, s, FreeLists)
    BY <1>1, <2>2, StoreAhead
  <2>4. s[1] \in {"free_count", "offsets"} => s[2] \in 0 .. FreeLists - 1
    BY <2>2 DEF OnWalk
  <2>5. Known(m, s, FreeLists)
    BY <1>1, <2>3, <2>4 DEF Ahead, Known, AllRead, ListsRead
  <2> QED
    BY <1>2, <2>5 DEF IsLayout, AllocatorStands, Holds
<1>3. ReadFrom(cells, m, lists, FreeLists, Len(cells))
  BY <1>2 DEF IsLayout, ReadFrom
<1>4. m[Slot("allocator_offset")] = M[Slot("allocator_offset")]
  BY SameOffset DEF IsLayout
<1>5. \A i \in 0 .. FreeLists - 2 : i \in 0 .. FreeLists - 1
  BY SizesAssumption
<1> QED
  BY <1>1, <1>3, <1>4, <1>5, SizesAssumption DEF ReadAgain, AllRead, ListsRead

(* A file is the file of one store only.                                   *)
LEMMA OneStore ==
  ASSUME NEW cells \in Seq(Nat), NEW M, NEW L, IsLayout(cells, M, L),
         NEW m, NEW lists, IsLayout(cells, m, lists)
  PROVE  m = M
<1>1. IsStore(M, L) /\ Agrees(cells, M, L)
  BY LayoutAgrees
<1>2. /\ IsMemory(m) /\ AllRead(m) /\ AllRead(M)
      /\ ReadAgain(cells, M, L, m, lists, FreeLists, Len(cells))
  BY <1>1, LayoutAgain DEF IsStore, HasSlots
<1>3. /\ \A s : s[1] \in AllocatorFields => (s \in DOMAIN m <=> s \in DOMAIN M)
      /\ \A s \in DOMAIN m : s[1] \in AllocatorFields => m[s] = M[s]
  BY <1>2, StoreAgain
<1>4. HeaderBlockPlace(m) = HeaderBlockPlace(M)
  BY <1>2, <1>3, SameHeaderBlock DEF IsLayout
<1>5. \A s \in HeaderSlots : m[s] = M[s]
  <2>1. \A k \in 1 .. Len(HeaderFields) : m[Slot(HeaderFields[k])] = M[Slot(HeaderFields[k])]
    BY DEF IsLayout, HeaderStands, Holds
  <2> QED
    BY <2>1 DEF HeaderSlots
<1>6. \A s \in HeaderBlockSlots : m[s] = M[s]
  <2>1. \A k \in 1 .. Len(HeaderBlockFields) :
          m[Slot(HeaderBlockFields[k])] = M[Slot(HeaderBlockFields[k])]
    BY <1>4 DEF IsLayout, HeaderBlockStands, Holds
  <2> QED
    BY <2>1 DEF HeaderBlockSlots
<1>7. ASSUME NEW x, HasSlots(x)
      PROVE  /\ HeaderSlots \union HeaderBlockSlots \subseteq DOMAIN x
             /\ \A s \in DOMAIN x :
                  s \in HeaderSlots \union HeaderBlockSlots \/ s[1] \in AllocatorFields
  BY <1>7 DEF HasSlots, OnWalk
<1>8. DOMAIN m = DOMAIN M
  BY <1>3, <1>7 DEF IsLayout
<1>9. \A s \in DOMAIN m : m[s] = M[s]
  BY <1>3, <1>5, <1>6, <1>7 DEF IsLayout
<1>10. m = [s \in DOMAIN m |-> m[s]] /\ M = [s \in DOMAIN M |-> M[s]]
  BY DEF IsLayout
<1> QED
  BY <1>8, <1>9, <1>10

(* The allocator begins at its block_count.                                *)
LEMMA PlaceBound ==
  ASSUME NEW M, NEW L, IsStore(M, L), NEW s \in DOMAIN M, s[1] \in AllocatorFields
  PROVE  Base(M) \in Nat /\ Base(M) >= 2 /\ Place(M, L, s) \in Nat /\ Place(M, L, s) >= Base(M)
<1> DEFINE b == Base(M)
           fc(i) == <<"free_count", i, 0>>
<1>1. /\ \A x \in DOMAIN M : M[x] \in Nat
      /\ HeaderSlots \subseteq DOMAIN M /\ AllRead(M)
      /\ OnWalk(M, s, AddressCount(M)) /\ Chain(M, L, FreeLists) /\ L \in ListPlaces
  BY Places DEF IsStore, HasSlots
<1>2. b \in Nat /\ b >= 2
  <2>1. Slot("allocator_offset") \in HeaderSlots
    BY DEF HeaderSlots, HeaderFields
  <2>2. M[Slot("allocator_offset")] \in Nat
    BY <1>1, <2>1
  <2> QED
    BY <2>2 DEF Base
<1>3. AddressCount(M) \in Nat /\ M[Slot("directory_count")] \in Nat
  BY <1>1, PaddedCountBounds, AddressCountIs DEF AllRead
<1>4. \A i \in 0 .. FreeLists - 1 : M[fc(i)] \in Nat
  BY <1>1 DEF AllRead, ListsRead
<1> HIDE DEF b
<1>5. Directory(M) \in Nat /\ Directory(M) >= b
  BY <1>2, <1>3 DEF Directory, b
<1>6. \A i \in 0 .. FreeLists - 1 : L[i] \in Nat
  BY <1>1 DEF ListPlaces
<1>7. \A i \in 0 .. FreeLists - 1 : L[i] >= b
  <2> DEFINE S == {i \in 0 .. FreeLists - 1 : ~(L[i] >= b)}
  <2> SUFFICES ASSUME S # {}
               PROVE  FALSE
    OBVIOUS
  <2>1. S \in SUBSET Nat
    OBVIOUS
  <2>2. PICK i \in S : \A k \in S : i <= k
    BY <2>1, SmallestOf
  <2>3. i \in 0 .. FreeLists - 1 /\ ~(L[i] >= b) /\ L[i] = ListStart(M, L, i)
    BY <1>1 DEF Chain
  <2>4. CASE i = 0
    BY <1>2, <1>3, <1>5, <2>3, <2>4 DEF ListStart
  <2>5. CASE i # 0
    <3>1. i - 1 \in 0 .. FreeLists - 1 /\ i - 1 < i
      BY <2>3, <2>5, SizesAssumption
    <3>2. i - 1 \notin S
      BY <2>2, <3>1
    <3>3. L[i - 1] >= b /\ L[i - 1] \in Nat /\ M[fc(i - 1)] \in Nat
      BY <1>4, <1>6, <3>1, <3>2
    <3> QED
      BY <1>2, <2>3, <2>5, <3>3 DEF ListStart
  <2> QED
    BY <2>4, <2>5
<1>8. CASE s[1] \in {"block_count", "unknown", "directory_count"}
  <2>1. Place(M, L, s) \in {b, b + 1, Directory(M)}
    BY <1>8 DEF Place, b
  <2> QED
    BY <1>2, <1>5, <2>1 DEF b
<1>9. CASE s[1] = "block_addresses"
  <2>1. s[2] \in Nat
    BY <1>1, <1>3, <1>9 DEF OnWalk
  <2> QED
    BY <1>2, <1>9, <2>1 DEF Place, b
<1>10. CASE s[1] \in EntryFields
  <2>1. s[2] \in Nat
    BY <1>1, <1>3, <1>10 DEF OnWalk
  <2>2. Place(M, L, s) \in {Directory(M) + 1 + 3 * s[2], Directory(M) + 2 + 3 * s[2],
                            Directory(M) + 3 + 3 * s[2]}
    BY <1>10 DEF Place, EntryFields
  <2> QED
    BY <1>2, <1>5, <2>1, <2>2 DEF b
<1>11. CASE s[1] = "free_count"
  <2>1. s[2] \in 0 .. FreeLists - 1
    BY <1>1, <1>11 DEF OnWalk
  <2> QED
    BY <1>2, <1>6, <1>7, <1>11, <2>1 DEF Place, b
<1>12. CASE s[1] = "offsets"
  <2>1. s[2] \in 0 .. FreeLists - 1 /\ s[3] \in Nat
    BY <1>1, <1>4, <1>12 DEF OnWalk
  <2>2. L[s[2]] \in Nat /\ L[s[2]] >= b
    BY <1>6, <1>7, <2>1
  <2> QED
    BY <1>2, <1>12, <2>1, <2>2 DEF Place, b
<1> QED
  BY <1>1, <1>8, <1>9, <1>10, <1>11, <1>12 DEF OnWalk, AllocatorFields, EntryFields


-----------------------------------------------------------------------------
(* Reading a file that stands for a store.                                 *)

(* The file, whether it is the client's or a new one, agrees with it.      *)
LEMMA WholeAgrees ==
  ASSUME IInv, WholeInv, file.whole
  PROVE  /\ IsStore(file.slots, file.lists) /\ Agrees(disk, file.slots, file.lists)
         /\ ~fresh => IsLayout(disk, file.slots, file.lists)
<1>1. IsLayout(file.cells, file.slots, file.lists)
  BY LayoutAssumption DEF IInv, TypeOK
<1> QED
  BY <1>1, LayoutAgrees DEF WholeInv, SameStore, NewFile

(* When the header has been read, it is the one of the store.              *)
LEMMA OffsetAgain ==
  ASSUME IInv, LayoutInv, WholeInv, file.whole, mode = "load", at \notin HeaderSlots
  PROVE  mem[Slot("allocator_offset")] = file.slots[Slot("allocator_offset")]
<1>1. HeaderStands(disk, mem, Len(HeaderFields))
  BY DEF LayoutInv, Reading, ReadHeader, HeaderRead
<1> QED
  BY <1>1, WholeAgrees, SameOffset

(* The slot of the allocator that is read next is at its place in the file *)
(* of the store.                                                           *)
LEMMA NextAgain ==
  ASSUME IInv, LayoutInv, WholeInv, file.whole, mode = "load", at[1] \in AllocatorFields
  PROVE  at \in DOMAIN file.slots /\ pos + 1 = Place(file.slots, file.lists, at)
<1> DEFINE n == Begun(at)
<1>1. PICK lists \in ListPlaces : ReadAllocator(lists)
  BY DEF LayoutInv, Reading
<1>2. ReadFrom(disk, mem, lists, n, pos) /\ pos + 1 = Place(mem, lists, at)
  BY <1>1 DEF ReadAllocator
<1>3. OnWalk(mem, at, AddressCount(mem)) /\ Passed(mem, at)
  BY WalkAt
<1>4. at[1] \in {"free_count", "offsets"} => at[2] \in 0 .. FreeLists - 1 /\ n = at[2] + 1
  BY <1>3 DEF OnWalk, Begun
<1>5. at[1] \notin {"free_count", "offsets"} => n = 0
  BY DEF Begun
<1> HIDE DEF n
<1>6. n \in 0 .. FreeLists
  BY <1>4, <1>5, SizesAssumption
<1>7. at[1] \in {"free_count", "offsets"} => \A i \in 0 .. n - 2 : i \in 0 .. at[2] - 1
  BY <1>4
<1>8. ReadAgain(disk, file.slots, file.lists, mem, lists, n, pos)
  <2>1. at \notin HeaderSlots
    BY Places
  <2>2. mem[Slot("allocator_offset")] = file.slots[Slot("allocator_offset")]
    BY <2>1, OffsetAgain
  <2>3. n > 0 => /\ Slot("block_count") \in DOMAIN mem
                 /\ Slot("directory_count") \in DOMAIN mem
    BY <1>3, <1>5 DEF Passed
  <2>4. \A i \in 0 .. n - 2 : <<"free_count", i, 0>> \in DOMAIN mem
    <3>1. CASE at[1] \in {"free_count", "offsets"}
      BY <1>3, <1>7, <3>1 DEF Passed, ListsRead
    <3>2. CASE at[1] \notin {"free_count", "offsets"}
      BY <1>5, <3>2
    <3> QED
      BY <3>1, <3>2
  <2> QED
    BY <1>2, <1>6, <2>2, <2>3, <2>4, WholeAgrees DEF ReadAgain
<1>9. Ahead(mem, at, n)
  BY <1>3, <1>4 DEF Ahead, Passed
<1> QED
  BY <1>2, <1>8, <1>9, SlotAgrees

(* When the allocator has been read, the header block is the one of the    *)
(* store.                                                                  *)
LEMMA HeaderBlockAgain ==
  ASSUME IInv, LayoutInv, WholeInv, file.whole, mode = "load",
         at \in HeaderBlockSlots \union {Find, SeekHeaderBlock}
  PROVE  /\ HasHeaderBlock(mem)
         /\ HeaderBlockPlace(mem) = HeaderBlockPlace(file.slots)
<1>1. IsMemory(mem) /\ AllRead(mem)
  BY DEF IInv, IsMemory, Loading
<1>2. PICK lists \in ListPlaces : ReadAllocator(lists)
  BY DEF LayoutInv, Reading
<1>3. ReadFrom(disk, mem, lists, FreeLists, Len(disk))
  BY <1>2 DEF ReadAllocator
<1>4. ReadAgain(disk, file.slots, file.lists, mem, lists, FreeLists, Len(disk))
  <2>1. mem[Slot("allocator_offset")] = file.slots[Slot("allocator_offset")]
    BY OffsetAgain, Places
  <2>2. \A i \in 0 .. FreeLists - 2 : i \in 0 .. FreeLists - 1
    BY SizesAssumption
  <2> QED
    BY <1>1, <1>3, <2>1, <2>2, WholeAgrees, SizesAssumption DEF ReadAgain, AllRead, ListsRead
<1>5. \A s \in DOMAIN mem : s[1] \in AllocatorFields => mem[s] = file.slots[s]
  BY <1>1, <1>4, StoreAgain
<1>6. AllRead(file.slots) /\ HasHeaderBlock(file.slots)
  BY LayoutAssumption DEF IInv, TypeOK, IsLayout, HasSlots
<1> QED
  BY <1>1, <1>5, <1>6, SameHeaderBlock


(* The value that is read next is in the file: the header's is the store's *)
(* and so is the header block's.                                           *)
LEMMA ValueIsThere ==
  ASSUME IInv, LayoutInv, WholeInv, file.whole, ~fresh, mode = "load",
         at \notin {SeekAllocator, Find, SeekHeaderBlock}
  PROVE  /\ pos < Len(disk)
         /\ at \in HeaderSlots \union HeaderBlockSlots => disk[pos + 1] = file.slots[at]
<1> DEFINE M == file.slots
<1>1. IsLayout(disk, M, file.lists) /\ disk \in Seq(Nat) /\ pos \in Nat
  BY WholeAgrees, Types
<1>2. \/ at \in HeaderSlots \union HeaderBlockSlots
      \/ at[1] \in AllocatorFields
  BY DEF IInv, Loading
<1>3. ASSUME NEW v, Holds(disk, pos + 1, v)
      PROVE  pos < Len(disk) /\ disk[pos + 1] = v
  BY <1>1, <1>3 DEF Holds
<1>4. CASE at \in HeaderSlots
  <2>1. PICK k \in 1 .. Len(HeaderFields) : at = Slot(HeaderFields[k])
    BY <1>4 DEF HeaderSlots
  <2>2. pos + 1 = k
    BY <2>1 DEF LayoutInv, Reading, ReadHeader
  <2>3. Holds(disk, k, M[at])
    BY <1>1, <2>1 DEF IsLayout, HeaderStands
  <2> QED
    BY <1>3, <2>2, <2>3
<1>5. CASE at[1] \in AllocatorFields
  <2>1. at \in DOMAIN M /\ pos + 1 = Place(M, file.lists, at)
    BY <1>5, NextAgain
  <2>2. Holds(disk, Place(M, file.lists, at), M[at])
    BY <1>1, <1>5, <2>1 DEF IsLayout, AllocatorStands
  <2>3. at \notin HeaderSlots \union HeaderBlockSlots
    BY <1>5, Places
  <2> QED
    BY <1>3, <2>1, <2>2, <2>3
<1>6. CASE at \in HeaderBlockSlots
  <2>1. PICK k \in 1 .. Len(HeaderBlockFields) : at = Slot(HeaderBlockFields[k])
    BY <1>6 DEF HeaderBlockSlots
  <2>2. pos + 1 = HeaderBlockPlace(mem) + k
    BY <2>1 DEF LayoutInv, Reading, ReadHeaderBlock
  <2>3. HeaderBlockPlace(mem) = HeaderBlockPlace(M)
    BY <1>6, HeaderBlockAgain
  <2>4. Holds(disk, HeaderBlockPlace(M) + k, M[at])
    BY <1>1, <2>1 DEF IsLayout, HeaderBlockStands
  <2> QED
    BY <1>3, <2>2, <2>3, <2>4
<1> QED
  BY <1>2, <1>4, <1>5, <1>6

(* The checks accept what is read.                                         *)
LEMMA HeaderIsAccepted ==
  ASSUME IInv, LayoutInv, WholeInv, file.whole, ~fresh, mode = "load", at \in HeaderSlots
  PROVE  HeaderAccepts(at, Got)
<1> DEFINE M == file.slots
<1>1. at \notin {SeekAllocator, Find, SeekHeaderBlock}
  BY Places
<1>2. Got[at] = M[at]
  BY <1>1, ValueIsThere DEF Got
<1>3. HeaderAccepts(at, M)
  BY WholeAgrees DEF IsLayout
<1>4. CASE at # Slot("allocator_offset_check")
  BY <1>2, <1>3, <1>4 DEF HeaderAccepts
<1>5. CASE at = Slot("allocator_offset_check")
  <2>1. 5 \in 1 .. Len(HeaderFields) /\ at = Slot(HeaderFields[5])
    BY <1>5 DEF HeaderFields
  <2>2. HeaderStands(disk, mem, 5 - 1)
    BY <2>1 DEF LayoutInv, Reading, ReadHeader, HeaderRead
  <2>3. /\ 5 - 1 \in 0 .. Len(HeaderFields) /\ 3 \in 1 .. 5 - 1
        /\ HeaderFields[3] = "allocator_offset"
    BY DEF HeaderFields
  <2>4. \A k \in 1 .. 5 - 1 : mem[Slot(HeaderFields[k])] = M[Slot(HeaderFields[k])]
    BY <2>2, <2>3, WholeAgrees, SameHeader
  <2>5. mem[Slot("allocator_offset")] = M[Slot("allocator_offset")]
    BY <2>3, <2>4
  <2>6. Got[Slot("allocator_offset")] = mem[Slot("allocator_offset")]
    BY <1>5, HeaderInMemory DEF Got, Slot
  <2> QED
    BY <1>2, <1>3, <1>5, <2>5, <2>6 DEF HeaderAccepts, Slot
<1> QED
  BY <1>4, <1>5

LEMMA HeaderBlockIsAccepted ==
  ASSUME IInv, LayoutInv, WholeInv, file.whole, ~fresh, mode = "load", at \in HeaderBlockSlots
  PROVE  HeaderBlockAccepts(at, Got)
<1>1. at \notin {SeekAllocator, Find, SeekHeaderBlock}
  BY Places
<1>2. Got[at] = file.slots[at]
  BY <1>1, ValueIsThere DEF Got
<1>3. file.slots[Slot("tree_node_page_size")] = PageSize
  BY WholeAgrees DEF IsLayout
<1> QED
  BY <1>2, <1>3 DEF HeaderBlockAccepts

(* What is loaded is the store of the client's file: no other file stands  *)
(* for one, and a new file has no page size.                               *)
LEMMA LoadedAgain ==
  ASSUME IInv, WholeInv, OnlyWholeFilesAreStores,
         NEW m, NEW lists, IsLayout(disk, m, lists)
  PROVE  file.whole /\ ~fresh /\ m = file.slots
<1>1. disk \in Seq(Nat) /\ file \in Files
  BY Types DEF IInv, TypeOK
<1>2. CASE fresh
  <2>1. /\ file.whole
        /\ PageSizePlace(file.slots) <= Len(disk) => disk[PageSizePlace(file.slots)] = 0
    BY <1>2 DEF WholeInv, NewFile
  <2>2. IsStore(file.slots, file.lists) /\ Agrees(disk, file.slots, file.lists)
    BY <2>1, WholeAgrees
  <2>3. /\ ReadAgain(disk, file.slots, file.lists, m, lists, FreeLists, Len(disk))
        /\ IsMemory(m) /\ AllRead(m)
    BY <1>1, <2>2, LayoutAgain
  <2>4. \A s \in DOMAIN m : s[1] \in AllocatorFields => m[s] = file.slots[s]
    BY <2>3, StoreAgain
  <2>5. HeaderBlockPlace(m) = HeaderBlockPlace(file.slots)
    BY <2>2, <2>3, <2>4, SameHeaderBlock DEF IsLayout, IsStore, HasSlots
  <2>6. Holds(disk, PageSizePlace(file.slots), PageSize)
    <3>1. Len(HeaderBlockFields) = 5 /\ 5 \in 1 .. Len(HeaderBlockFields)
          /\ HeaderBlockFields[5] = "tree_node_page_size"
      BY DEF HeaderBlockFields
    <3>2. Holds(disk, HeaderBlockPlace(m) + 5, m[Slot(HeaderBlockFields[5])])
      BY <3>1 DEF IsLayout, HeaderBlockStands
    <3> QED
      BY <2>5, <3>1, <3>2 DEF IsLayout, PageSizePlace
  <2> QED
    BY <1>1, <2>1, <2>6, LayoutAssumption DEF Holds
<1>3. CASE ~fresh
  <2>1. disk = file.cells
    BY <1>3 DEF WholeInv, SameStore
  <2>2. file.whole
    BY <1>1, <2>1 DEF OnlyWholeFilesAreStores
  <2>3. IsLayout(disk, file.slots, file.lists)
    BY <1>3, <2>2, WholeAgrees
  <2> QED
    BY <1>1, <1>3, <2>2, <2>3, OneStore
<1> QED
  BY <1>2, <1>3


-----------------------------------------------------------------------------
(* The invariant of loading and rewriting the same file, action by action. *)

(* A call that only reads leaves the file as it is.                        *)
LEMMA ReadsOnly ==
  ASSUME WholeInv, UNCHANGED <<file, disk, fresh>>, ~owned', mode' # "write",
         LoadedIsWhole', WholeIsLoaded'
  PROVE  WholeInv'
BY DEF WholeInv, SameStore, NewFile, NoOtherGap

(* A call that ends without a store. *)
LEMMA EndsWhole ==
  ASSUME WholeInv, UNCHANGED <<file, disk, mem, owned, fresh>>, mode' = "idle",
         result' # "loaded", WholeIsLoaded'
  PROVE  WholeInv'
BY DEF WholeInv, SameStore, AtPlace, NewFile, NoOtherGap, LoadedIsWhole

LEMMA InitWhole ==
  ASSUME Init
  PROVE  WholeInv
BY DEF Init, WholeInv, SameStore, NewFile, NoOtherGap, LoadedIsWhole, WholeIsLoaded

LEMMA CallFreadWhole ==
  ASSUME WholeInv, CallFread
  PROVE  WholeInv'
<1>1. /\ UNCHANGED <<file, disk, fresh>> /\ ~owned' /\ mode' = "load" /\ result' = "none"
  BY DEF CallFread, Begin
<1> QED
  BY <1>1, ReadsOnly DEF LoadedIsWhole, WholeIsLoaded

(* An empty file agrees with every store.                                  *)
LEMMA CallFwriteWhole ==
  ASSUME IInv, WholeInv, CallFwrite
  PROVE  WholeInv'
<1> DEFINE M == file.slots
           L == file.lists
<1>1. /\ owned /\ UNCHANGED <<file, mem, owned>> /\ mode' = "write" /\ result' = "none"
      /\ at' = Slot(HeaderFields[1]) /\ pos' = 0
      /\ (disk' = disk /\ fresh' = fresh) \/ (disk' = <<>> /\ fresh' = TRUE)
  BY DEF CallFwrite, Begin
<1>2. at' \in HeaderSlots /\ at'[1] \notin AllocatorFields
  <2>1. at' \in HeaderSlots
    BY <1>1 DEF HeaderSlots, HeaderFields
  <2> QED
    BY <2>1, Places
<1>3. file.whole /\ mem = M
  BY <1>1 DEF WholeInv, SameStore
<1>4. AtPlace(L)'
  <2>1. \A k \in 1 .. Len(HeaderFields) : at' = Slot(HeaderFields[k]) => k = 1
    BY <1>1, HeaderIndex DEF HeaderFields
  <2> QED
    BY <1>1, <1>2, <2>1 DEF AtPlace
<1>5. SameStore'
  BY <1>1, <1>3, <1>4 DEF WholeInv, SameStore
<1>6. NewFile'
  <2>1. CASE disk' = disk /\ fresh' = fresh
    BY <1>1, <2>1 DEF WholeInv, NewFile
  <2>2. CASE disk' = <<>> /\ fresh' = TRUE
    <3>1. Len(disk') = 0
      BY <2>2
    <3>2. IsLayout(file.cells, M, L)
      BY <1>3, LayoutAssumption DEF IInv, TypeOK
    <3>3. IsStore(M, L)
      BY <3>2, LayoutAgrees
    <3>4. \A s \in DOMAIN M : s[1] \in AllocatorFields => ~(Place(M, L, s) <= 0)
      <4> SUFFICES ASSUME NEW s \in DOMAIN M, s[1] \in AllocatorFields
                   PROVE  ~(Place(M, L, s) <= 0)
        OBVIOUS
      <4>1. Base(M) \in Nat /\ Base(M) >= 2 /\ Place(M, L, s) \in Nat /\ Place(M, L, s) >= Base(M)
        BY <3>3, PlaceBound
      <4> QED
        BY <4>1
    <3>5. ~(PageSizePlace(M) <= 0)
      <4>1. HeaderBlockPlace(M) \in Nat
        BY <3>2, HeaderBlockAddress DEF IsLayout, HasSlots, IsMemory
      <4> QED
        BY <4>1 DEF PageSizePlace, HeaderBlockFields
    <3>6. Agrees(<<>>, M, L)
      BY <3>4 DEF Agrees
    <3> QED
      BY <1>1, <1>3, <2>2, <3>1, <3>5, <3>6 DEF NewFile
  <2> QED
    BY <1>1, <2>1, <2>2
<1>7. NoOtherGap'
  <2>1. disk \in Seq(Nat) /\ <<>> \in Seq(Nat)
    BY Types
  <2>2. Len(disk') \in Nat
    BY <1>1, <2>1
  <2> QED
    BY <1>1, <1>2, <2>2 DEF NoOtherGap
<1>8. LoadedIsWhole' /\ WholeIsLoaded'
  BY <1>1 DEF LoadedIsWhole, WholeIsLoaded
<1> QED
  BY <1>5, <1>6, <1>7, <1>8 DEF WholeInv

LEMMA HeaderFreadWhole ==
  ASSUME IInv, LayoutInv, WholeInv, HeaderFread
  PROVE  WholeInv'
<1>1. /\ mode = "load" /\ at \in HeaderSlots /\ ~owned /\ result = "none"
      /\ UNCHANGED <<file, disk, fresh, owned, fault>>
  BY DEF HeaderFread, IInv, Loading, LayoutInv, NoResultYet
<1>2. CASE HeaderAccepts(at, Got)
  <2>1. mode' = mode /\ result' = result
    BY <1>2 DEF HeaderFread
  <2> QED
    BY <1>1, <2>1, ReadsOnly DEF LoadedIsWhole, WholeIsLoaded
<1>3. CASE ~HeaderAccepts(at, Got)
  <2>1. mode' = "idle" /\ result' = "not loaded"
    BY <1>3 DEF HeaderFread, Return
  <2>2. ~fresh => ~file.whole
    BY <1>1, <1>3, HeaderIsAccepted
  <2> QED
    BY <1>1, <2>1, <2>2, ReadsOnly DEF LoadedIsWhole, WholeIsLoaded
<1> QED
  BY <1>2, <1>3

LEMMA SeekBuddyAllocatorWhole ==
  ASSUME IInv, LayoutInv, WholeInv, SeekBuddyAllocator
  PROVE  WholeInv'
<1>1. /\ at = SeekAllocator /\ pos' = 1 + mem[Slot("allocator_offset")]
      /\ at' = Slot("block_count")
      /\ UNCHANGED <<file, disk, mem, mode, found, owned, fresh, fault, result>>
  BY DEF SeekBuddyAllocator
<1>2. mode \in {"load", "write"} /\ result = "none"
  <2>1. mode # "idle"
    BY <1>1, Places DEF IInv, TypeOK
  <2> QED
    BY <2>1 DEF IInv, TypeOK, LayoutInv, NoResultYet
<1>3. CASE mode = "load"
  <2>1. ~owned
    BY <1>3 DEF IInv, Loading
  <2> QED
    BY <1>1, <1>2, <1>3, <2>1, ReadsOnly DEF LoadedIsWhole, WholeIsLoaded
<1>4. CASE mode = "write"
  <2>1. at' \notin HeaderSlots /\ Slot("allocator_offset") \in DOMAIN mem
    <3>1. at'[1] \in AllocatorFields
      BY <1>1 DEF Slot, AllocatorFields
    <3> QED
      BY <3>1, Places, HeaderInMemory
  <2>2. mem[Slot("allocator_offset")] \in Nat
    BY <2>1 DEF IInv
  <2>3. pos' + 1 = Place(mem, file.lists, at')
    BY <1>1, <2>2 DEF Place, Base, Slot
  <2>4. \A k \in 1 .. Len(HeaderFields) : at' # Slot(HeaderFields[k])
    BY <2>1 DEF HeaderSlots
  <2>5. AtPlace(file.lists)'
    BY <1>1, <2>3, <2>4 DEF AtPlace
  <2>6. SameStore' /\ NewFile'
    BY <1>1, <2>5 DEF WholeInv, SameStore, NewFile
  <2>7. NoOtherGap'
    <3>1. at \notin HeaderSlots
      BY <1>1, Places
    <3> QED
      BY <1>1, <1>4, <2>1, <3>1 DEF WholeInv, NoOtherGap
  <2> QED
    BY <1>1, <1>2, <2>6, <2>7 DEF WholeInv, LoadedIsWhole, WholeIsLoaded
<1> QED
  BY <1>2, <1>3, <1>4

LEMMA AllocatorFreadWhole ==
  ASSUME IInv, LayoutInv, WholeInv, AllocatorFread
  PROVE  WholeInv'
<1>1. /\ mode' = "load" /\ ~owned' /\ result' = "none"
      /\ UNCHANGED <<file, disk, fresh>>
  BY DEF AllocatorFread, IInv, Loading, LayoutInv, NoResultYet
<1> QED
  BY <1>1, ReadsOnly DEF LoadedIsWhole, WholeIsLoaded

LEMMA FindDSDBWhole ==
  ASSUME IInv, LayoutInv, WholeInv, FindDSDB
  PROVE  WholeInv'
<1>1. /\ mode = "load" /\ at = Find /\ ~owned /\ result = "none"
      /\ UNCHANGED <<file, disk, mem, fresh, owned, fault>>
      /\ found' = HeaderBlockNumber(mem)
  BY DEF FindDSDB, Entries, BlockOf, EntriesOf, HeaderBlockNumber, IInv, Loading, LayoutInv,
     NoResultYet
<1>2. CASE HasHeaderBlock(mem)
  <2>1. mode' = mode /\ result' = result
    BY <1>1, <1>2 DEF FindDSDB, HasHeaderBlock
  <2> QED
    BY <1>1, <2>1, ReadsOnly DEF LoadedIsWhole, WholeIsLoaded
<1>3. CASE ~HasHeaderBlock(mem)
  <2>1. mode' = "idle" /\ result' = "not loaded"
    BY <1>1, <1>3 DEF FindDSDB, Return, HasHeaderBlock
  <2>2. ~file.whole
    BY <1>1, <1>3, HeaderBlockAgain
  <2> QED
    BY <1>1, <2>1, <2>2, ReadsOnly DEF LoadedIsWhole, WholeIsLoaded
<1> QED
  BY <1>2, <1>3

LEMMA SeekToHeaderBlockWhole ==
  ASSUME IInv, LayoutInv, WholeInv, SeekToHeaderBlock
  PROVE  WholeInv'
<1>1. /\ mode' = "load" /\ ~owned' /\ result' = "none"
      /\ UNCHANGED <<file, disk, fresh>>
  BY DEF SeekToHeaderBlock, IInv, Loading, LayoutInv, NoResultYet
<1> QED
  BY <1>1, ReadsOnly DEF LoadedIsWhole, WholeIsLoaded

LEMMA HeaderBlockFreadWhole ==
  ASSUME IInv, LayoutInv, LayoutInv', WholeInv, OnlyWholeFilesAreStores, HeaderBlockFread
  PROVE  WholeInv'
<1>1. /\ mode = "load" /\ at \in HeaderBlockSlots /\ ~owned /\ result = "none"
      /\ UNCHANGED <<file, disk, fresh, fault>>
  BY DEF HeaderBlockFread, IInv, Loading, LayoutInv, NoResultYet
<1>2. CASE ~HeaderBlockAccepts(at, Got)
  <2>1. mode' = "idle" /\ result' = "not loaded" /\ ~owned'
    BY <1>1, <1>2 DEF HeaderBlockFread, Return
  <2>2. ~fresh => ~file.whole
    BY <1>1, <1>2, HeaderBlockIsAccepted
  <2> QED
    BY <1>1, <2>1, <2>2, ReadsOnly DEF LoadedIsWhole, WholeIsLoaded
<1>3. CASE HeaderBlockAccepts(at, Got) /\ Following(HeaderBlockFields, at, Done) # Done
  <2>1. mode' = mode /\ result' = result /\ ~owned'
    BY <1>1, <1>3 DEF HeaderBlockFread
  <2> QED
    BY <1>1, <2>1, ReadsOnly DEF LoadedIsWhole, WholeIsLoaded
<1>4. CASE HeaderBlockAccepts(at, Got) /\ Following(HeaderBlockFields, at, Done) = Done
  <2>1. mode' = "idle" /\ result' = "loaded" /\ owned'
    BY <1>4 DEF HeaderBlockFread, Return
  <2>2. PICK lists \in ListPlaces : IsLayout(disk, mem', lists)
    BY <1>1, <2>1 DEF LayoutInv, LoadedStands
  <2>3. file.whole /\ ~fresh /\ mem' = file.slots
    BY <2>2, LoadedAgain
  <2>4. AtPlace(file.lists)'
    BY <2>1 DEF AtPlace
  <2>5. SameStore' /\ NewFile' /\ NoOtherGap'
    BY <1>1, <2>1, <2>3, <2>4 DEF WholeInv, SameStore, NewFile, NoOtherGap
  <2> QED
    BY <1>1, <2>1, <2>3, <2>5 DEF WholeInv, LoadedIsWhole, WholeIsLoaded
<1> QED
  BY <1>2, <1>3, <1>4

LEMMA FailsWhole ==
  ASSUME IInv, LayoutInv, WholeInv, FreadFails \/ SeekFails \/ FwriteFails
  PROVE  WholeInv'
<1>1. /\ UNCHANGED <<file, disk, mem, owned, fresh>> /\ mode' = "idle"
      /\ result' # "loaded"
  BY DEF FreadFails, SeekFails, FwriteFails, Return
<1>2. WholeIsLoaded'
  <2>1. CASE FreadFails
    <3>1. /\ mode = "load" /\ at \notin {SeekAllocator, Find, SeekHeaderBlock}
          /\ ~fault' => ~(pos < Len(disk))
      BY <2>1 DEF FreadFails
    <3> QED
      BY <1>1, <3>1, ValueIsThere DEF WholeIsLoaded
  <2>2. CASE SeekFails \/ FwriteFails
    BY <2>2 DEF SeekFails, FwriteFails, WholeIsLoaded
  <2> QED
    BY <2>1, <2>2
<1> QED
  BY <1>1, <1>2, EndsWhole


LEMMA PutFacts ==
  ASSUME IInv, NEW v
  PROVE  /\ Len(Put(v)) \in Nat /\ pos + 1 <= Len(Put(v)) /\ Len(disk) <= Len(Put(v))
         /\ Put(v)[pos + 1] = v
         /\ \A k \in 1 .. Len(Put(v)) :
              k # pos + 1 => Put(v)[k] = IF k <= Len(disk) THEN disk[k] ELSE 0
         /\ Len(Put(v)) = pos + 1 \/ Len(Put(v)) = Len(disk)
<1> DEFINE n == IF pos < Len(disk) THEN Len(disk) ELSE pos + 1
<1>1. disk \in Seq(Nat) /\ pos \in Nat
  BY Types
<1>2. n \in Nat /\ pos + 1 <= n /\ Len(disk) <= n /\ pos + 1 \in 1 .. n
      /\ (n = pos + 1 \/ n = Len(disk))
  BY <1>1
<1> HIDE DEF n
<1>3. Put(v) = [k \in 1 .. n |-> IF k = pos + 1 THEN v ELSE IF k <= Len(disk) THEN disk[k] ELSE 0]
  BY DEF Put, n
<1>4. Len(Put(v)) = n
  BY <1>2, <1>3
<1> QED
  BY <1>2, <1>3, <1>4

(* The value that is written stands in the client's file at the same cell. *)
LEMMA WrittenStood ==
  ASSUME IInv, WholeInv, mode = "write", at # SeekAllocator
  PROVE  /\ Holds(file.cells, pos + 1, mem[at])
         /\ at \in HeaderSlots => pos + 1 \in 1 .. Len(HeaderFields)
         /\ at[1] \in AllocatorFields =>
              at \in DOMAIN file.slots /\ pos + 1 = Place(file.slots, file.lists, at)
<1>1. /\ owned /\ (at \in HeaderSlots \/ at[1] \in AllocatorFields)
  BY DEF IInv, Writing, OnWalk
<1>2. file.whole /\ mem = file.slots /\ AtPlace(file.lists)
  BY <1>1 DEF WholeInv, SameStore
<1>3. IsLayout(file.cells, mem, file.lists)
  BY <1>2, LayoutAssumption DEF IInv, TypeOK
<1>4. CASE at \in HeaderSlots
  <2>1. PICK k \in 1 .. Len(HeaderFields) : at = Slot(HeaderFields[k])
    BY <1>4 DEF HeaderSlots
  <2>2. pos + 1 = k
    BY <1>2, <2>1 DEF AtPlace
  <2>3. Holds(file.cells, k, mem[at])
    BY <1>3, <2>1 DEF IsLayout, HeaderStands
  <2>4. at[1] \notin AllocatorFields
    BY <1>4, Places
  <2> QED
    BY <2>2, <2>3, <2>4
<1>5. CASE at[1] \in AllocatorFields
  <2>1. at \in DOMAIN mem
    BY WrittenWasRead DEF WritesWhatWasRead
  <2>2. pos + 1 = Place(mem, file.lists, at)
    BY <1>2, <1>5 DEF AtPlace
  <2>3. Holds(file.cells, pos + 1, mem[at])
    BY <1>3, <1>5, <2>1, <2>2 DEF IsLayout, AllocatorStands
  <2>4. at \notin HeaderSlots
    BY <1>5, Places
  <2> QED
    BY <1>2, <2>1, <2>2, <2>3, <2>4
<1> QED
  BY <1>1, <1>4, <1>5

(* A new file goes on to agree with the store, and to have no page size.   *)
LEMMA NewFileGrows ==
  ASSUME IInv, WholeInv, HeaderBlocksAreApart(Files), fresh, mode = "write",
         at # SeekAllocator
  PROVE  /\ Agrees(Put(mem[at]), file.slots, file.lists)
         /\ PageSizePlace(file.slots) <= Len(Put(mem[at])) =>
              Put(mem[at])[PageSizePlace(file.slots)] = 0
<1> DEFINE M == file.slots
           L == file.lists
           v == mem[at]
           P == Put(v)
           q == pos + 1
           z == PageSizePlace(M)
<1>1. /\ file.whole /\ file \in Files
      /\ Agrees(disk, M, L) /\ (z <= Len(disk) => disk[z] = 0)
  BY DEF WholeInv, NewFile, IInv, TypeOK
<1>2. IsLayout(file.cells, M, L) /\ IsStore(M, L)
  BY <1>1, LayoutAssumption, LayoutAgrees
<1>3. disk \in Seq(Nat) /\ pos \in Nat /\ q \in Nat
  BY Types
<1>4. /\ Len(P) \in Nat /\ q <= Len(P) /\ Len(disk) <= Len(P) /\ P[q] = v
      /\ \A k \in 1 .. Len(P) : k # q => P[k] = IF k <= Len(disk) THEN disk[k] ELSE 0
      /\ Len(P) = q \/ Len(P) = Len(disk)
  BY PutFacts
<1>5. /\ Holds(file.cells, q, v)
      /\ at \in HeaderSlots => q \in 1 .. Len(HeaderFields)
      /\ at[1] \in AllocatorFields => at \in DOMAIN M /\ q = Place(M, L, at)
      /\ at \in HeaderSlots \/ at[1] \in AllocatorFields
  BY WrittenStood DEF IInv, Writing, OnWalk
<1>6. /\ pos <= Len(disk) \/ (at = Slot("block_count") /\ Len(HeaderFields) <= Len(disk))
  BY <1>5, Places DEF WholeInv, NoOtherGap
<1> HIDE DEF P, v
<1>7. \A k \in 1 .. Len(HeaderFields) : k <= Len(P) => P[k] = M[Slot(HeaderFields[k])]
  <2> SUFFICES ASSUME NEW k \in 1 .. Len(HeaderFields), k <= Len(P)
               PROVE  P[k] = M[Slot(HeaderFields[k])]
    OBVIOUS
  <2>1. CASE k = q
    <3>1. Holds(file.cells, k, M[Slot(HeaderFields[k])])
      BY <1>2 DEF IsLayout, HeaderStands
    <3> QED
      BY <1>4, <1>5, <2>1, <3>1 DEF Holds
  <2>2. CASE k # q
    <3>1. k <= Len(disk)
      BY <1>3, <1>4, <1>6, <2>2
    <3>2. disk[k] = M[Slot(HeaderFields[k])]
      BY <1>1, <3>1 DEF Agrees
    <3> QED
      BY <1>4, <2>2, <3>1, <3>2
  <2> QED
    BY <2>1, <2>2
<1>8. \A s \in DOMAIN M : s[1] \in AllocatorFields /\ Place(M, L, s) <= Len(P) =>
        P[Place(M, L, s)] = M[s]
  <2> SUFFICES ASSUME NEW s \in DOMAIN M, s[1] \in AllocatorFields, NEW k, k = Place(M, L, s),
                      k <= Len(P)
               PROVE  P[k] = M[s]
    OBVIOUS
  <2>1. Base(M) \in Nat /\ Base(M) >= 2 /\ k \in Nat /\ k >= Base(M)
    BY <1>2, PlaceBound
  <2>2. k \in 1 .. Len(P)
    BY <1>4, <2>1
  <2>3. CASE k = q
    <3>1. Holds(file.cells, k, M[s])
      BY <1>2 DEF IsLayout, AllocatorStands
    <3> QED
      BY <1>4, <1>5, <2>3, <3>1 DEF Holds
  <2>4. CASE k # q
    <3>1. at = Slot("block_count") => q = Base(M)
      BY <1>5 DEF Place, Slot, AllocatorFields
    <3>2. k <= Len(disk)
      BY <1>3, <1>4, <1>6, <2>1, <2>2, <2>4, <3>1
    <3>3. disk[k] = M[s]
      BY <1>1, <3>2 DEF Agrees
    <3> QED
      BY <1>4, <2>2, <2>4, <3>2, <3>3
  <2> QED
    BY <2>3, <2>4
<1>9. z <= Len(P) => P[z] = 0
  <2>1. z \in Nat /\ z # 0
    <3>1. HeaderBlockPlace(M) \in Nat
      BY <1>2, HeaderBlockAddress DEF IsLayout, HasSlots, IsMemory
    <3> QED
      BY <3>1 DEF PageSizePlace, HeaderBlockFields
  <2>2. z # q
    <3>1. CASE at \in HeaderSlots
      <4>1. z > Len(HeaderFields) /\ q \in 1 .. Len(HeaderFields)
        BY <1>1, <1>5, <3>1 DEF HeaderBlocksAreApart
      <4> HIDE DEF q, z
      <4> QED
        BY <2>1, <4>1 DEF HeaderFields
    <3>2. CASE at[1] \in AllocatorFields
      BY <1>1, <1>5, <3>2 DEF HeaderBlocksAreApart
    <3> QED
      BY <1>5, <3>1, <3>2
  <2> HIDE DEF z
  <2>3. z <= Len(P) => z \in 1 .. Len(P)
    BY <1>4, <2>1
  <2> QED
    BY <1>1, <1>4, <2>2, <2>3
<1> QED
  BY <1>7, <1>8, <1>9 DEF Agrees, P, v

LEMMA FwriteWhole ==
  ASSUME IInv, LayoutInv, WholeInv, StoresAreSmall(Files), HeaderBlocksAreApart(Files),
         HeaderFwrite \/ AllocatorFwrite
  PROVE  WholeInv'
<1> DEFINE M == file.slots
           L == file.lists
<1>1. /\ mode = "write" /\ at # SeekAllocator /\ disk' = Put(mem[at]) /\ pos' = pos + 1
      /\ UNCHANGED <<file, mem, owned, fresh>> /\ owned
  BY Places DEF HeaderFwrite, AllocatorFwrite, IInv, Writing
<1>2. /\ file \in Files /\ file.whole /\ mem = M /\ AtPlace(L)
      /\ IsLayout(file.cells, mem, L) /\ mem[Slot("block_count")] <= Factor
  BY <1>1, LayoutAssumption DEF WholeInv, SameStore, IInv, TypeOK, StoresAreSmall
<1>3. AtPlace(L)'
  <2>1. PICK lists \in ListPlaces : lists = L
    BY <1>2 DEF IsLayout
  <2>2. Chain(mem, lists, FreeLists) /\ AtPlace(lists)
    BY <1>2, <2>1 DEF IsLayout
  <2>3. AtPlace(lists)'
    BY <1>2, <2>2, HeaderFwritePlace, AllocatorFwritePlace
  <2>4. L' = lists
    BY <1>1, <2>1
  <2> QED
    BY <2>3, <2>4
<1>4. ~fresh => disk' = disk /\ disk = file.cells
  <2>1. ~fresh => disk = file.cells
    BY DEF WholeInv, SameStore
  <2> QED
    BY <1>2, <2>1, FwriteSame
<1>5. SameStore'
  BY <1>1, <1>2, <1>3, <1>4 DEF SameStore
<1>6. NewFile'
  BY <1>1, <1>2, NewFileGrows DEF NewFile
<1>7. NoOtherGap'
  <2>1. /\ Len(disk') \in Nat /\ pos' <= Len(disk') /\ Len(disk) <= Len(disk')
        /\ Len(disk) \in Nat /\ pos \in Nat
    BY <1>1, PutFacts, Types
  <2>2. Len(HeaderFields) <= Len(disk') \/ at' \in HeaderSlots \/ mode' # "write"
    <3>1. CASE HeaderFwrite
      <4>1. PICK n \in 1 .. Len(HeaderFields) : at = Slot(HeaderFields[n])
        BY <3>1 DEF HeaderFwrite, HeaderSlots
      <4>2. pos' = n
        BY <1>1, <1>2, <4>1 DEF AtPlace
      <4>3. at' = IF n < Len(HeaderFields) THEN Slot(HeaderFields[n + 1]) ELSE SeekAllocator
        BY <3>1, <4>1, HeaderIndex DEF HeaderFwrite
      <4>4. CASE n < Len(HeaderFields)
        BY <4>3, <4>4 DEF HeaderSlots, HeaderFields
      <4>5. CASE n = Len(HeaderFields)
        BY <2>1, <4>2, <4>5
      <4> QED
        BY <4>4, <4>5 DEF HeaderFields
    <3>2. CASE AllocatorFwrite
      <4>1. at \notin HeaderSlots
        BY <3>2, Places DEF AllocatorFwrite
      <4>2. Len(HeaderFields) <= Len(disk)
        BY <1>1, <4>1 DEF WholeInv, NoOtherGap
      <4> QED
        BY <2>1, <4>2 DEF HeaderFields
    <3> QED
      BY <3>1, <3>2
  <2> QED
    BY <2>1, <2>2 DEF NoOtherGap
<1>8. result' # "loaded" /\ result' # "not loaded"
  <2>1. result = "none"
    BY <1>1 DEF LayoutInv, NoResultYet
  <2> QED
    BY <2>1 DEF HeaderFwrite, AllocatorFwrite, Return
<1> QED
  BY <1>5, <1>6, <1>7, <1>8 DEF WholeInv, LoadedIsWhole, WholeIsLoaded

LEMMA StutterWhole ==
  ASSUME WholeInv, UNCHANGED vars
  PROVE  WholeInv'
BY DEF vars, WholeInv, SameStore, AtPlace, NewFile, NoOtherGap, LoadedIsWhole, WholeIsLoaded

-----------------------------------------------------------------------------
(* Theorems about files of which the stores fit and have their header      *)
(* block to itself.                                                        *)

(* The store in memory is the one of the client's file, which is as it was *)
(* found unless the client made a new one.                                 *)
THEOREM WholeInvariance ==
  ASSUME OnlyWholeFilesAreStores, StoresAreSmall(Files), HeaderBlocksAreApart(Files)
  PROVE  Spec => []WholeInv
<1>1. Init => WholeInv
  BY InitWhole
<1>2. IInv /\ LayoutInv /\ LayoutInv' /\ WholeInv /\ [Next]_vars => WholeInv'
  BY CallFreadWhole, CallFwriteWhole, HeaderFreadWhole, SeekBuddyAllocatorWhole,
     AllocatorFreadWhole, FindDSDBWhole, SeekToHeaderBlockWhole, HeaderBlockFreadWhole,
     FwriteWhole, FailsWhole, StutterWhole DEF Next, Step
<1> QED
  BY <1>1, <1>2, Invariance, LayoutInvariance, PTL DEF Spec

(* ds_store_fread returns a store only of a whole file that it did not     *)
(* begin itself, and it is the store that the file stands for: also after  *)
(* ds_store_fwrite has written over it, however far it came.               *)
THEOREM OnlyWholeFilesAreLoaded ==
  ASSUME OnlyWholeFilesAreStores, StoresAreSmall(Files), HeaderBlocksAreApart(Files)
  PROVE  Spec => []LoadedIsWhole
<1>1. WholeInv => LoadedIsWhole
  BY DEF WholeInv
<1> QED
  BY <1>1, WholeInvariance, PTL

(* A whole file is loaded unless the device fails.                         *)
THEOREM WholeFilesAreLoaded ==
  ASSUME OnlyWholeFilesAreStores, StoresAreSmall(Files), HeaderBlocksAreApart(Files)
  PROVE  Spec => []WholeIsLoaded
<1>1. WholeInv => WholeIsLoaded
  BY DEF WholeInv
<1> QED
  BY <1>1, WholeInvariance, PTL

(* ds_store_fwrite into the file that the store was read from changes      *)
(* nothing in it.                                                          *)
THEOREM RewritingIsHarmless ==
  ASSUME OnlyWholeFilesAreStores, StoresAreSmall(Files), HeaderBlocksAreApart(Files)
  PROVE  Spec => RewriteIsHarmless
<1>1. ASSUME IInv, WholeInv, mode = "write", ~fresh
      PROVE  mem[Slot("block_count")] <= Factor
  BY <1>1 DEF IInv, TypeOK, Writing, WholeInv, SameStore, StoresAreSmall
<1>2. IInv /\ WholeInv /\
        [mode = "write" /\ ~fresh /\ mem[Slot("block_count")] <= Factor => disk' = disk]_vars =>
        [mode = "write" /\ ~fresh => disk' = disk]_vars
  BY <1>1
<1> QED
  BY <1>2, Invariance, WholeInvariance, SmallStoresAreRewrittenAsTheyAre, PTL
     DEF SmallRewriteIsHarmless, RewriteIsHarmless

=============================================================================
