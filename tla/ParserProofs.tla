---------------------------- MODULE ParserProofs ----------------------------
(***************************************************************************)
(* Proofs about the two parsers of a record's data, Alias and Bookmark.    *)
(*                                                                         *)
(* The cursor of alias_create_from_data stays inside the data, for any     *)
(* data and any width of the integers, and the entries it keeps are those  *)
(* of the data, each behind the other.  AliasInv adds that the cursor is   *)
(* even, which a length padded to 0 or to an even number leaves it, that   *)
(* the size in the header has been checked, and which entry is in hand.    *)
(*                                                                         *)
(* A bookmark that _ds_get_data_as_pBBk returns is the whole chain of its  *)
(* tables, whatever they are and however they are linked, and one with a   *)
(* single table fits.                                                      *)
(***************************************************************************)
EXTENDS Alias, Bookmark, SequenceTheorems, TLAPS

-----------------------------------------------------------------------------
(* The aliases.                                                            *)

(* What an alias is, and that words are read inside it. *)
LEMMA AliasFacts ==
  ASSUME alias \in Aliases
  PROVE  /\ alias.size \in Nat /\ alias.size >= HeaderSize
         /\ alias.record_size \in 0 .. Word - 1
         /\ alias.words \in Seq(0 .. Word - 1)
         /\ HeaderSize + 2 * Len(alias.words) >= alias.size
         /\ Len(alias.words) \in Nat
BY AliasesAssumption

(* A word that begins at an even offset before the end is one of the data. *)
LEMMA WordAtType ==
  ASSUME alias \in Aliases, NEW p \in Nat, p >= HeaderSize, p % 2 = 0,
         p + 2 <= alias.size
  PROVE  WordAt(p) \in 0 .. Word - 1
<1>1. PICK n \in Nat : n = Len(alias.words)
  BY AliasFacts
<1>2. PICK h \in Nat : h = HeaderSize /\ h % 2 = 0
  BY SizesAssumption
<1>3. PICK s \in Nat : s = alias.size /\ h + 2 * n >= s /\ p + 2 <= s /\ p >= h
  BY AliasFacts, <1>1, <1>2
<1>4. (p - h) \div 2 + 1 \in 1 .. n
  BY <1>2, <1>3
<1>5. alias.words \in Seq(0 .. Word - 1)
  BY AliasFacts
<1>6. ASSUME NEW k \in 1 .. Len(alias.words)
      PROVE  alias.words[k] \in 0 .. Word - 1
  BY <1>5, ElementOfSeq
<1> QED
  BY <1>1, <1>2, <1>4, <1>6 DEF WordAt

(* A padded length is even, and no shorter than the length unless it is    *)
(* wrapped to 0.                                                           *)
LEMMA EntryLengthEven ==
  ASSUME NEW n \in 0 .. Word - 1
  PROVE  EntryLength(n) \in Nat /\ EntryLength(n) % 2 = 0
<1>1. PICK w \in Nat : w = Word /\ w > 1 /\ w % 2 = 0
  BY SizesAssumption
<1>2. n \in Nat /\ n < w
  BY <1>1
<1>3. CASE n % 2 = 0
  BY <1>2, <1>3 DEF EntryLength
<1>4. CASE n % 2 # 0 /\ n + 1 < w
  <2>1. (n + 1) % w = n + 1 /\ (n + 1) % 2 = 0
    BY <1>1, <1>2, <1>4
  <2> QED
    BY <1>1, <1>2, <1>4, <2>1 DEF EntryLength
<1>5. CASE n % 2 # 0 /\ n + 1 = w
  <2>1. (n + 1) % w = 0
    BY <1>1, <1>2, <1>5
  <2> QED
    BY <1>1, <1>2, <1>5, <2>1 DEF EntryLength
<1> QED
  BY <1>2, <1>3, <1>4, <1>5

LEMMA AliasInitInv == AliasInit => AliasInv
<1> SUFFICES ASSUME AliasInit PROVE AliasInv
  OBVIOUS
<1>1. 0 \in 0 .. Word - 1
  BY SizesAssumption
<1>2. 0 <= alias.size
  BY AliasFacts DEF AliasInit
<1>3. metadata = <<>> /\ Len(metadata) = 0 /\ metadata \in Seq(EntryType)
  BY DEF AliasInit
<1>4. AliasTypeOK
  BY <1>1, <1>3 DEF AliasInit, AliasTypeOK
<1>5. EntriesTile /\ EntriesSayWhatIsThere
  BY <1>3 DEF AliasInit, EntriesTile, EntriesSayWhatIsThere
<1> QED
  BY <1>2, <1>3, <1>4, <1>5
  DEF AliasInit, AliasInv, CursorInData, CursorEven, EntryInHand, Undecided, CompleteOrNothing

(* The steps that leave the entries as they are. *)
LEMMA SameEntries ==
  ASSUME AliasInv, UNCHANGED <<alias, metadata>>, phase' # "loop"
  PROVE  EntriesTile' /\ EntriesSayWhatIsThere'
BY DEF AliasInv, EntriesTile, EntriesSayWhatIsThere, WordAt, EndOf

(* What the data says of the next entry depends on nothing else. *)
LEMMA SameNext ==
  ASSUME UNCHANGED <<alias, metadata>>
  PROVE  /\ HeaderRight' = HeaderRight /\ AnotherEntry' = AnotherEntry
         /\ NextIsSentinel' = NextIsSentinel /\ NextFits' = NextFits
BY DEF HeaderRight, AnotherEntry, NextIsSentinel, NextFits, NextEntry, EndOf, WordAt

(* As long as nothing is returned there is nothing to be complete. *)
LEMMA NothingReturned ==
  ASSUME result' = "none"
  PROVE  CompleteOrNothing'
BY DEF CompleteOrNothing

(* Where the next entry is. *)
LEMMA NextEntryType ==
  ASSUME AliasInv
  PROVE  NextEntry \in Nat
<1>1. metadata \in Seq(EntryType)
  BY DEF AliasInv, AliasTypeOK
<1>2. CASE metadata = <<>>
  BY <1>2, SizesAssumption DEF NextEntry
<1>3. CASE metadata # <<>>
  <2>1. Len(metadata) \in 1 .. Len(metadata)
    BY <1>1, <1>3
  <2>2. metadata[Len(metadata)] \in EntryType
    BY <1>1, <2>1, ElementOfSeq
  <2>3. EndOf(metadata[Len(metadata)]) \in Nat
    BY <2>2, EntryLengthEven DEF EntryType, EndOf
  <2> QED
    BY <1>3, <2>3 DEF NextEntry
<1> QED
  BY <1>2, <1>3

(* The entry in hand is in the data, and fits if ValueTooLong says so. *)
LEMMA HandOnData ==
  ASSUME AliasInv, phase = "value"
  PROVE  /\ HeaderRight /\ AnotherEntry
         /\ NextIsSentinel <=> tag = Sentinel
         /\ NextFits <=> ~ValueTooLong
<1>1. /\ HeaderRight /\ pos = NextEntry + 4
      /\ tag = WordAt(NextEntry) /\ length = WordAt(NextEntry + 2)
  BY DEF AliasInv, CursorEven, EntryInHand
<1>2. PICK s \in Nat : s = alias.size /\ s = alias.record_size
  BY AliasFacts DEF AliasInv, AliasTypeOK, CursorEven
<1>3. PICK n \in Nat : n = EntryLength(length)
  BY EntryLengthEven DEF AliasInv, AliasTypeOK
<1>4. PICK q \in Nat : q = NextEntry
  BY NextEntryType
<1>5. AnotherEntry
  BY <1>1, <1>2, <1>4 DEF AliasInv, CursorInData, AnotherEntry
<1>6. NextFits <=> ~ValueTooLong
  <2>1. NextFits <=> q + 4 + n <= s
    BY <1>1, <1>2, <1>3, <1>4 DEF NextFits
  <2>2. ValueTooLong <=> q + 4 > s - n
    BY <1>1, <1>2, <1>3, <1>4 DEF ValueTooLong
  <2> QED
    BY <2>1, <2>2
<1> QED
  BY <1>1, <1>5, <1>6 DEF NextIsSentinel

(* The header is not right, or the next entry does not fit: nothing is     *)
(* returned.                                                               *)
LEMMA ReturnNullInv ==
  ASSUME AliasInv, ReturnNull, UNCHANGED <<alias, pos, tag, length, metadata>>,
         HeaderRight => AnotherEntry /\ ~NextFits
  PROVE  AliasInv'
<1>1. EntriesTile' /\ EntriesSayWhatIsThere'
  BY SameEntries DEF ReturnNull
<1>2. AliasTypeOK'
  BY DEF AliasInv, AliasTypeOK, ReturnNull
<1>3. CompleteOrNothing'
  BY SameNext DEF ReturnNull, CompleteOrNothing
<1> QED
  BY <1>1, <1>2, <1>3
  DEF AliasInv, CursorInData, CursorEven, EntryInHand, Undecided, ReturnNull

LEMMA CheckSizeInv ==
  ASSUME AliasInv, CheckSize
  PROVE  AliasInv'
<1>1. CASE ReturnNull
  <2>1. CASE alias.record_size # alias.size
    BY <1>1, <2>1, ReturnNullInv DEF CheckSize, HeaderRight
  <2>2. CASE alias.record_size = alias.size
    BY <1>1, <2>2 DEF CheckSize, ReturnNull
  <2> QED
    BY <2>1, <2>2
<1>2. CASE phase' = "version" /\ UNCHANGED <<result, live>>
  <2>1. EntriesTile' /\ EntriesSayWhatIsThere'
    BY <1>2, SameEntries DEF CheckSize
  <2>2. AliasTypeOK'
    BY <1>2 DEF AliasInv, AliasTypeOK, CheckSize
  <2>3. alias.record_size = alias.size
    BY <1>2 DEF CheckSize, ReturnNull
  <2>4. CompleteOrNothing'
    BY <1>2, NothingReturned DEF CheckSize, AliasInv, Undecided
  <2> QED
    BY <1>2, <2>1, <2>2, <2>3, <2>4
    DEF AliasInv, CursorInData, CursorEven, EntryInHand, Undecided, CheckSize
<1> QED
  BY <1>1, <1>2 DEF CheckSize

LEMMA CheckVersionInv ==
  ASSUME AliasInv, CheckVersion
  PROVE  AliasInv'
<1>1. CASE ReturnNull /\ UNCHANGED pos
  <2>1. CASE alias.version # 2
    BY <1>1, <2>1, ReturnNullInv DEF CheckVersion, HeaderRight
  <2>2. CASE alias.version = 2
    BY <1>1, <2>2 DEF CheckVersion, ReturnNull
  <2> QED
    BY <2>1, <2>2
<1>2. CASE phase' = "loop" /\ pos' = HeaderSize /\ UNCHANGED <<result, live>>
  <2>1. /\ phase = "version" /\ metadata = <<>> /\ metadata' = <<>> /\ alias' = alias
        /\ UNCHANGED <<alias, tag, length, metadata, result, live>>
    BY <1>2 DEF CheckVersion, AliasInv, Undecided
  <2>2. EntriesTile' /\ EntriesSayWhatIsThere'
    BY <1>2, <2>1 DEF EntriesTile, EntriesSayWhatIsThere, NextEntry
  <2>3. AliasTypeOK'
    BY <1>2, <2>1, SizesAssumption DEF AliasInv, AliasTypeOK
  <2>4. CursorInData'
    BY <1>2, <2>1, AliasFacts DEF AliasInv, AliasTypeOK, CursorInData
  <2>5. CursorEven'
    <3>1. HeaderRight'
      BY <1>2, <2>1 DEF CheckVersion, ReturnNull, AliasInv, CursorEven, HeaderRight
    <3> QED
      BY <1>2, <2>1, <3>1, SizesAssumption DEF AliasInv, CursorEven
  <2>6. CompleteOrNothing'
    BY <2>1, NothingReturned DEF AliasInv, Undecided
  <2> QED
    BY <1>2, <2>1, <2>2, <2>3, <2>4, <2>5, <2>6
    DEF AliasInv, EntryInHand, Undecided
<1> QED
  BY <1>1, <1>2 DEF CheckVersion

(* The tag and the length are words of the data. *)
LEMMA ReadTagAndLengthInv ==
  ASSUME AliasInv, ReadTagAndLength
  PROVE  AliasInv'
<1>1. /\ phase = "loop" /\ phase' = "value" /\ pos' = pos + 4
      /\ tag' = WordAt(pos) /\ length' = WordAt(pos + 2)
      /\ pos <= alias.record_size - 4
      /\ UNCHANGED <<alias, metadata, live, result>>
  BY DEF ReadTagAndLength
<1>2. /\ alias \in Aliases /\ pos \in Nat /\ alias.record_size = alias.size
      /\ pos >= HeaderSize /\ pos % 2 = 0 /\ pos = NextEntry /\ HeaderRight
  BY <1>1 DEF AliasInv, AliasTypeOK, CursorEven, EntriesTile
<1>3. PICK s \in Nat : s = alias.size
  BY <1>2, AliasFacts
<1>4. /\ pos + 2 \in Nat /\ pos + 2 >= HeaderSize /\ (pos + 2) % 2 = 0
      /\ pos + 4 \in Nat /\ pos + 4 >= HeaderSize /\ (pos + 4) % 2 = 0
      /\ pos + 2 <= s /\ (pos + 2) + 2 <= s /\ pos + 4 <= s
  BY <1>1, <1>2, <1>3, SizesAssumption
<1>5. WordAt(pos) \in 0 .. Word - 1 /\ WordAt(pos + 2) \in 0 .. Word - 1
  BY <1>2, <1>3, <1>4, WordAtType
<1>6. AliasTypeOK'
  BY <1>1, <1>4, <1>5 DEF AliasInv, AliasTypeOK
<1>7. CursorInData' /\ CursorEven'
  BY <1>1, <1>2, <1>3, <1>4, SameNext DEF CursorInData, CursorEven
<1>8. EntriesTile' /\ EntriesSayWhatIsThere'
  BY <1>1, SameEntries
<1>9. EntryInHand'
  <2>1. NextEntry' = NextEntry
    BY <1>1 DEF NextEntry, EndOf
  <2> QED
    BY <1>1, <1>2, <2>1 DEF EntryInHand, WordAt
<1>10. CompleteOrNothing'
  BY <1>1, NothingReturned DEF AliasInv, Undecided
<1> QED
  BY <1>1, <1>6, <1>7, <1>8, <1>9, <1>10 DEF AliasInv, Undecided

LEMMA RejectValueInv ==
  ASSUME AliasInv, RejectValue
  PROVE  AliasInv'
BY ReturnNullInv, HandOnData DEF RejectValue

(* Where the cursor goes past a value that fits. *)
LEMMA PastValue ==
  ASSUME AliasInv, phase = "value", ~ValueTooLong
  PROVE  /\ pos + EntryLength(length) \in Nat
         /\ pos + EntryLength(length) <= alias.size
         /\ pos + EntryLength(length) >= HeaderSize
         /\ (pos + EntryLength(length)) % 2 = 0
<1>1. PICK n \in Nat : n = EntryLength(length) /\ n % 2 = 0
  BY EntryLengthEven DEF AliasInv, AliasTypeOK
<1>2. PICK s \in Nat : s = alias.size /\ s = alias.record_size
  BY AliasFacts DEF AliasInv, AliasTypeOK, CursorEven
<1>3. PICK q \in Nat : q = pos /\ q >= HeaderSize /\ q % 2 = 0
  BY DEF AliasInv, AliasTypeOK, CursorEven
<1>4. q <= s - n
  BY <1>1, <1>2, <1>3 DEF ValueTooLong
<1> QED
  BY <1>1, <1>2, <1>3, <1>4, SizesAssumption

(* The entry in hand is kept behind the others. *)
LEMMA KeepEntryInv ==
  ASSUME AliasInv, KeepEntry
  PROVE  AliasInv'
<1> DEFINE e == [at |-> pos - 4, tag |-> tag, length |-> length]
<1>1. /\ phase = "value" /\ ~ValueTooLong /\ phase' = "loop" /\ tag # Sentinel
      /\ metadata' = Append(metadata, e)
      /\ pos' = pos + EntryLength(length)
      /\ UNCHANGED <<alias, tag, length, live, result>>
  BY DEF KeepEntry
<1>2. /\ pos' \in Nat /\ pos' <= alias.size /\ pos' >= HeaderSize /\ pos' % 2 = 0
  BY <1>1, PastValue
<1>3. PICK a \in Nat : a = NextEntry /\ pos = a + 4 /\ pos - 4 = a
  <2>1. pos \in Nat /\ pos = NextEntry + 4 /\ NextEntry \in Nat
    BY <1>1, NextEntryType DEF AliasInv, AliasTypeOK, EntryInHand
  <2>2. pos >= HeaderSize /\ HeaderSize >= 4 /\ HeaderSize \in Nat
    BY <1>1, SizesAssumption DEF AliasInv, CursorEven
  <2> QED
    BY <2>1, <2>2
<1>4. e.at = a /\ e.tag = tag /\ e.length = length /\ e \in EntryType
  BY <1>3 DEF AliasInv, AliasTypeOK, EntryType
<1>5. metadata' \in Seq(EntryType) /\ metadata \in Seq(EntryType)
  BY <1>1, <1>4 DEF AliasInv, AliasTypeOK
<1>6. PICK n \in Nat : n = Len(metadata) /\ Len(metadata') = n + 1 /\ metadata'[n + 1] = e
  BY <1>1, <1>5
<1>7. \A i \in 1 .. n : metadata'[i] = metadata[i]
  BY <1>1, <1>5, <1>6
<1>8. NextEntry' = EndOf(e) /\ EndOf(e) = pos + EntryLength(length)
  <2>1. metadata' # <<>> /\ metadata'[Len(metadata')] = e
    BY <1>6, <1>5
  <2>2. EntryLength(length) \in Nat
    BY EntryLengthEven DEF AliasInv, AliasTypeOK
  <2>3. NextEntry' = EndOf(e)
    BY <2>1 DEF NextEntry, EndOf
  <2>4. EndOf(e) = a + 4 + EntryLength(length)
    BY <1>4 DEF EndOf
  <2> QED
    BY <1>3, <2>2, <2>3, <2>4
<1>9. AliasTypeOK'
  BY <1>1, <1>2, <1>5 DEF AliasInv, AliasTypeOK
<1>10. EntriesTile'
  <2>1. pos' = NextEntry'
    BY <1>1, <1>8
  <2>2. ASSUME NEW i \in 1 .. n
        PROVE  metadata'[i].at = IF i = 1 THEN HeaderSize ELSE EndOf(metadata'[i - 1])
    <3>1. metadata[i].at = IF i = 1 THEN HeaderSize ELSE EndOf(metadata[i - 1])
      BY <1>6 DEF AliasInv, EntriesTile
    <3>2. i # 1 => i - 1 \in 1 .. n
      OBVIOUS
    <3> QED
      BY <1>7, <3>1, <3>2
  <2>3. e.at = IF n + 1 = 1 THEN HeaderSize ELSE EndOf(metadata'[n])
    <3>1. CASE n = 0
      <4>1. metadata = <<>>
        BY <1>5, <1>6, <3>1, EmptySeq
      <4> QED
        BY <1>3, <1>4, <3>1, <4>1 DEF NextEntry
    <3>2. CASE n # 0
      <4>1. n \in 1 .. n /\ metadata # <<>>
        BY <1>6, <3>2
      <4>2. NextEntry = EndOf(metadata[n])
        BY <1>6, <4>1 DEF NextEntry
      <4> QED
        BY <1>3, <1>4, <1>7, <3>2, <4>1, <4>2
    <3> QED
      BY <3>1, <3>2
  <2>4. ASSUME NEW i \in 1 .. n + 1
        PROVE  metadata'[i].at = IF i = 1 THEN HeaderSize ELSE EndOf(metadata'[i - 1])
    <3>1. CASE i \in 1 .. n
      BY <2>2, <3>1
    <3>2. CASE i = n + 1
      <4>1. (n + 1) - 1 = n
        OBVIOUS
      <4> QED
        BY <1>6, <2>3, <3>2, <4>1
    <3> QED
      BY <3>1, <3>2
  <2> QED
    BY <1>6, <2>1, <2>4 DEF EntriesTile, EndOf
<1>11. EntriesSayWhatIsThere'
  <2>1. e.tag = WordAt(e.at) /\ e.length = WordAt(e.at + 2) /\ e.tag # Sentinel
    BY <1>1, <1>3, <1>4 DEF AliasInv, EntryInHand
  <2>2. ASSUME NEW i \in 1 .. n + 1
        PROVE  /\ metadata'[i].tag = WordAt(metadata'[i].at) /\ metadata'[i].tag # Sentinel
               /\ metadata'[i].length = WordAt(metadata'[i].at + 2)
    <3>1. CASE i \in 1 .. n
      BY <1>6, <1>7, <3>1 DEF AliasInv, EntriesSayWhatIsThere
    <3>2. CASE i = n + 1
      BY <1>6, <2>1, <3>2
    <3> QED
      BY <3>1, <3>2
  <2> QED
    BY <1>1, <1>6, <2>2 DEF EntriesSayWhatIsThere, WordAt
<1>12. CursorInData' /\ CursorEven' /\ EntryInHand'
  BY <1>1, <1>2 DEF AliasInv, CursorInData, CursorEven, EntryInHand, HeaderRight
<1>13. CompleteOrNothing'
  BY <1>1, NothingReturned DEF AliasInv, Undecided
<1> QED
  BY <1>1, <1>9, <1>10, <1>11, <1>12, <1>13 DEF AliasInv, Undecided

(* The sentinel, and the end of the record. *)
LEMMA StopAtSentinelInv ==
  ASSUME AliasInv, StopAtSentinel
  PROVE  AliasInv'
<1>1. /\ phase = "value" /\ ~ValueTooLong /\ phase' = "returned" /\ tag = Sentinel
      /\ result' = "alias" /\ pos' = pos + EntryLength(length)
      /\ UNCHANGED <<alias, tag, length, metadata, live>>
  BY DEF StopAtSentinel
<1>2. pos' \in Nat /\ pos' <= alias.size
  BY <1>1, PastValue
<1>3. EntriesTile' /\ EntriesSayWhatIsThere'
  BY <1>1, SameEntries
<1>4. AliasTypeOK'
  BY <1>1, <1>2 DEF AliasInv, AliasTypeOK
<1>5. CompleteOrNothing'
  <2>1. HeaderRight /\ NextIsSentinel /\ NextFits /\ live
    BY <1>1, HandOnData DEF AliasInv, Undecided
  <2> QED
    BY <1>1, <2>1, SameNext DEF CompleteOrNothing
<1> QED
  BY <1>1, <1>2, <1>3, <1>4, <1>5
  DEF AliasInv, CursorInData, CursorEven, EntryInHand, Undecided

LEMMA EndOfRecordInv ==
  ASSUME AliasInv, EndOfRecord
  PROVE  AliasInv'
<1>1. /\ phase = "loop" /\ phase' = "returned" /\ pos > alias.record_size - 4
      /\ result' = "alias" /\ UNCHANGED <<alias, pos, tag, length, metadata, live>>
  BY DEF EndOfRecord
<1>2. EntriesTile' /\ EntriesSayWhatIsThere'
  BY <1>1, SameEntries
<1>3. AliasTypeOK'
  BY <1>1 DEF AliasInv, AliasTypeOK
<1>4. CompleteOrNothing'
  <2>1. HeaderRight /\ pos = NextEntry /\ pos \in Nat /\ live
    BY <1>1 DEF AliasInv, AliasTypeOK, CursorEven, EntriesTile, Undecided
  <2>2. alias.record_size \in Nat
    BY AliasFacts DEF AliasInv, AliasTypeOK
  <2>3. ~AnotherEntry
    BY <1>1, <2>1, <2>2 DEF AnotherEntry
  <2> QED
    BY <1>1, <2>1, <2>3, SameNext DEF CompleteOrNothing
<1> QED
  BY <1>1, <1>2, <1>3, <1>4
  DEF AliasInv, CursorInData, CursorEven, EntryInHand, Undecided

LEMMA StutterInv ==
  ASSUME AliasInv, UNCHANGED aliasVars
  PROVE  AliasInv'
<1>1. UNCHANGED <<alias, phase, pos, tag, length, metadata, live, result>>
  BY DEF aliasVars
<1>2. AliasTypeOK'
  BY <1>1 DEF AliasInv, AliasTypeOK
<1>3. EntriesTile' /\ EntriesSayWhatIsThere' /\ EntryInHand'
  BY <1>1 DEF AliasInv, EntriesTile, EntriesSayWhatIsThere, EntryInHand, WordAt, NextEntry, EndOf
<1>4. CompleteOrNothing'
  BY <1>1, SameNext DEF AliasInv, CompleteOrNothing
<1> QED
  BY <1>1, <1>2, <1>3, <1>4, SameNext DEF AliasInv, CursorInData, CursorEven, Undecided

(* The invariant holds in every reachable state. *)
THEOREM AliasInvariance == AliasSpec => []AliasInv
<1>1. AliasInit => AliasInv
  BY AliasInitInv
<1>2. AliasInv /\ [AliasNext]_aliasVars => AliasInv'
  BY CheckSizeInv, CheckVersionInv, ReadTagAndLengthInv, RejectValueInv, KeepEntryInv,
     StopAtSentinelInv, EndOfRecordInv, StutterInv DEF AliasNext
<1> QED
  BY <1>1, <1>2, PTL DEF AliasSpec

(* The variables keep their types: every tag and length is one that was    *)
(* read inside the data.                                                   *)
THEOREM AliasTypeCorrect == AliasSpec => []AliasTypeOK
<1>1. AliasInv => AliasTypeOK
  BY DEF AliasInv
<1> QED
  BY <1>1, AliasInvariance, PTL

(* alias_create_from_data reads nothing outside the data it is given,      *)
(* whatever lengths the entries state.                                     *)
THEOREM CursorStaysInData == AliasSpec => []CursorInData
<1>1. AliasInv => CursorInData
  BY DEF AliasInv
<1> QED
  BY <1>1, AliasInvariance, PTL

(* The entries that are kept are the first ones of the data, without a gap *)
(* and as they are there; the sentinel is not one of them, nor is anything *)
(* behind it.                                                              *)
THEOREM EntriesAreFaithful == AliasSpec => []EntriesAreTheData
<1>1. AliasInv => EntriesAreTheData
  BY DEF AliasInv, EntriesAreTheData
<1> QED
  BY <1>1, AliasInvariance, PTL

(* An alias is returned only when all entries were read, and refused and   *)
(* freed only when the header is not right or the next entry does not fit. *)
THEOREM AliasIsComplete == AliasSpec => []CompleteOrNothing
<1>1. AliasInv => CompleteOrNothing
  BY DEF AliasInv
<1> QED
  BY <1>1, AliasInvariance, PTL

-----------------------------------------------------------------------------
(* The bookmarks.                                                          *)

First == mark.toc_offset

(* What MarksAssumption says of the bookmark that is read. *)
LEMMA MarkFacts ==
  ASSUME mark \in Marks
  PROVE  /\ First \in DOMAIN mark.tables \union {0}
         /\ First # 0 =>
              /\ First \in DOMAIN mark.tables
              /\ mark.tables[First].next \in DOMAIN mark.tables \union {0}
              /\ mark.tables[First].count \in Nat
BY MarksAssumption DEF First, IsMark

LEMMA SizeFacts == TocSize \in Nat \ {0} /\ EntriesSize \in Nat
BY MarksAssumption, EntriesSizeAssumption

(* At the start nothing is read. *)
LEMMA InitInv == Init => IInv
<1> SUFFICES ASSUME Init PROVE IInv
  OBVIOUS
<1>1. /\ toc = <<>> /\ entries = <<>> /\ Len(toc) = 0 /\ Len(entries) = 0
      /\ toc \in Seq(Tables(mark)) /\ entries \in Seq(Entries(mark))
  BY EmptySeq DEF Init
<1>2. TypeOK
  BY <1>1, SizeFacts DEF Init, TypeOK
<1>3. FirstAgain
  BY <1>1 DEF Init, FirstAgain
<1>4. InHand
  BY DEF Init, InHand
<1> QED
  BY <1>2, <1>3, <1>4 DEF IInv

(* The chain begins where the header says. *)
LEMMA ReadHeaderInv == ASSUME IInv, ReadHeader PROVE IInv'
<1>1. TypeOK'
  BY MarkFacts DEF IInv, TypeOK, ReadHeader, Tables, Entries, First
<1>2. FirstAgain'
  BY DEF IInv, FirstAgain, ReadHeader
<1>3. InHand'
  BY DEF InHand, ReadHeader
<1> QED
  BY <1>1, <1>2, <1>3 DEF IInv

(* The table in hand is the header's. *)
LEMMA ReadTableInv == ASSUME IInv, ReadTable PROVE IInv'
<1>1. First # 0
  BY DEF IInv, FirstAgain, ReadTable, First
<1>2. /\ mark \in Marks
      /\ mark.tables[First].next \in DOMAIN mark.tables \union {0}
      /\ mark.tables[First].count \in Nat
  BY <1>1, MarkFacts DEF IInv, TypeOK
<1>3. entries' = <<>> /\ Len(entries') = 0 /\ entries' \in Seq(Entries(mark))
  BY EmptySeq DEF ReadTable
<1>4. TypeOK'
  BY <1>2, <1>3, SizeFacts DEF IInv, TypeOK, ReadTable, Tables, Entries, First
<1>5. FirstAgain'
  BY <1>1 DEF IInv, FirstAgain, ReadTable, First
<1>6. InHand'
  BY <1>1, <1>2, <1>3 DEF IInv, TypeOK, InHand, ReadTable, First
<1> QED
  BY <1>4, <1>5, <1>6 DEF IInv

(* The entries in hand are the table's first ones. *)
LEMMA ReadEntryInv == ASSUME IInv, ReadEntry PROVE IInv'
<1> DEFINE e == EntryAt(mark, First, Len(entries) + 1)
<1>1. PICK n \in Nat : n = Len(entries)
  BY DEF IInv, TypeOK
<1>2. /\ mark \in Marks /\ entries \in Seq(Entries(mark))
      /\ First # 0 /\ count = mark.tables[First].count /\ count \in Nat
      /\ n < count /\ n < EntriesSize
      /\ \A i \in 1 .. n : entries[i] = EntryAt(mark, First, i)
  BY <1>1 DEF IInv, TypeOK, InHand, ReadEntry, First
<1>3. e \in Entries(mark)
  <2>1. First \in DOMAIN mark.tables /\ n + 1 \in 1 .. mark.tables[First].count
    BY <1>1, <1>2, MarkFacts
  <2> QED
    BY <1>1, <2>1 DEF Entries
<1>4. /\ entries' = Append(entries, e) /\ entries' \in Seq(Entries(mark))
      /\ Len(entries') = n + 1
      /\ \A i \in 1 .. n : entries'[i] = entries[i]
      /\ entries'[n + 1] = e
  BY <1>1, <1>2, <1>3, AppendProperties DEF ReadEntry, First
<1>5. \A i \in 1 .. Len(entries') : entries'[i] = EntryAt(mark, First, i)
  BY <1>1, <1>2, <1>4
<1>6. TypeOK'
  BY <1>1, <1>2, <1>4, SizeFacts DEF IInv, TypeOK, ReadEntry, Tables, Entries
<1>7. FirstAgain'
  BY DEF IInv, FirstAgain, ReadEntry
<1>8. InHand'
  <2>1. Len(entries') <= count
    BY <1>1, <1>2, <1>4
  <2> QED
    BY <1>5, <2>1 DEF IInv, InHand, ReadEntry, First, EntryAt
<1> QED
  BY <1>6, <1>7, <1>8 DEF IInv

(* The table in hand is complete, and it is the header's. *)
LEMMA TableDoneInv == ASSUME IInv, TableDone PROVE IInv'
<1> DEFINE t == TableOf(next, count, entries)
<1>1. PICK n \in Nat : n = Len(toc)
  BY DEF IInv, TypeOK
<1>2. /\ mark \in Marks /\ toc \in Seq(Tables(mark)) /\ entries \in Seq(Entries(mark))
      /\ First # 0 /\ n < TocSize
      /\ next = mark.tables[First].next /\ count = mark.tables[First].count
      /\ Len(entries) = count
      /\ \A i \in 1 .. Len(entries) : entries[i] = EntryAt(mark, First, i)
  BY <1>1 DEF IInv, TypeOK, InHand, TableDone, First
<1>3. First \in DOMAIN mark.tables
  BY <1>2, MarkFacts
<1>4. t = TableAt(mark, First)
  <2>1. entries = [i \in 1 .. Len(entries) |-> entries[i]]
    BY <1>2, SeqDef
  <2>2. entries = [i \in 1 .. count |-> EntryAt(mark, First, i)]
    BY <1>2, <2>1
  <2> QED
    BY <1>2, <2>2 DEF TableAt
<1>5. t \in Tables(mark)
  BY <1>3, <1>4 DEF Tables
<1>6. /\ toc' = Append(toc, t) /\ toc' \in Seq(Tables(mark))
      /\ Len(toc') = n + 1
      /\ \A k \in 1 .. n : toc'[k] = toc[k]
      /\ toc'[n + 1] = t
  BY <1>1, <1>2, <1>5, AppendProperties DEF TableDone
<1>7. TypeOK'
  <2>1. n + 1 <= TocSize
    BY <1>2, SizeFacts
  <2>2. Tables(mark)' = Tables(mark) /\ Entries(mark)' = Entries(mark)
    BY DEF TableDone, Tables, Entries, TableAt, EntryAt
  <2> QED
    BY <1>1, <1>2, <1>6, <2>1, <2>2 DEF IInv, TypeOK, TableDone
<1>8. FirstAgain'
  <2>1. \A k \in 1 .. Len(toc') : toc'[k] = TableAt(mark, First)
    <3>1. \A k \in 1 .. n : toc[k] = TableAt(mark, First)
      BY <1>1 DEF IInv, FirstAgain, First
    <3> QED
      BY <1>1, <1>4, <1>6, <3>1
  <2>2. toc' # <<>>
    BY <1>1, <1>6, EmptySeq
  <2>3. toc_offset' = mark.tables[First].next
    BY <1>2 DEF TableDone
  <2>4. Len(toc') > 1 => mark.tables[First].next # 0
    <3>1. CASE toc = <<>>
      BY <1>1, <1>6, <3>1, EmptySeq
    <3>2. CASE toc # <<>>
      BY <3>2 DEF IInv, FirstAgain, InHand, TableDone, First
    <3> QED
      BY <3>1, <3>2
  <2> QED
    BY <1>2, <2>1, <2>2, <2>3, <2>4 DEF FirstAgain, TableDone, First, TableAt, EntryAt
<1>9. InHand'
  BY DEF InHand, TableDone
<1> QED
  BY <1>7, <1>8, <1>9 DEF IInv

(* Every step preserves the invariant. *)
LEMMA StepInv == IInv /\ [Next]_vars => IInv'
<1> SUFFICES ASSUME IInv, [Next]_vars PROVE IInv'
  OBVIOUS
<1>1. CASE ReadHeader
  BY <1>1, ReadHeaderInv
<1>2. CASE ReadTable
  BY <1>2, ReadTableInv
<1>3. CASE ReadEntry
  BY <1>3, ReadEntryInv
<1>4. CASE TableDone
  BY <1>4, TableDoneInv
<1>5. CASE Overrun
  <2>1. TypeOK'
    BY <1>5 DEF IInv, TypeOK, Overrun, Tables, Entries
  <2>2. FirstAgain'
    BY <1>5 DEF IInv, FirstAgain, InHand, Overrun
  <2>3. InHand'
    BY <1>5 DEF InHand, Overrun
  <2> QED
    BY <2>1, <2>2, <2>3 DEF IInv
<1>6. CASE Finish
  <2>1. TypeOK'
    BY <1>6 DEF IInv, TypeOK, Finish, Tables, Entries
  <2>2. FirstAgain'
    BY <1>6 DEF IInv, FirstAgain, Finish
  <2>3. InHand'
    BY <1>6 DEF InHand, Finish
  <2> QED
    BY <2>1, <2>2, <2>3 DEF IInv
<1>7. CASE UNCHANGED vars
  <2>1. TypeOK'
    BY <1>7 DEF vars, IInv, TypeOK, Tables, Entries
  <2>3. FirstAgain'
    BY <1>7 DEF vars, IInv, FirstAgain, TableAt, EntryAt
  <2>2. InHand'
    BY <1>7 DEF vars, IInv, InHand, EntryAt
  <2> QED
    BY <2>1, <2>2, <2>3 DEF IInv
<1> QED
  BY <1>1, <1>2, <1>3, <1>4, <1>5, <1>6, <1>7 DEF Next

(* IInv is an invariant: all tables in hand are the header's, however the *)
(* tables are linked, and after one that names no other the loop is left. *)
THEOREM Invariance == Spec => []IInv
BY InitInv, StepInv, PTL DEF Spec

(* TypeOK is an invariant: the arrays of pBBk_t are not written past their *)
(* ends before the place that Overrun marks.                               *)
THEOREM TypeCorrect == Spec => []TypeOK
<1>1. IInv => TypeOK
  BY DEF IInv
<1> QED
  BY <1>1, Invariance, PTL

(* ReturnedIsTheChain is an invariant: what is returned is complete. *)
THEOREM ChainCorrect == Spec => []ReturnedIsTheChain
<1>1. IInv => ReturnedIsTheChain
  <2> SUFFICES ASSUME IInv, pc = "returned" PROVE IsChain(mark, toc)
    BY DEF ReturnedIsTheChain
  <2>1. /\ 0 = IF toc = <<>> THEN First ELSE mark.tables[First].next
        /\ \A k \in 1 .. Len(toc) : toc[k] = TableAt(mark, First)
        /\ toc # <<>> => First # 0
        /\ Len(toc) > 1 => mark.tables[First].next # 0
    BY DEF IInv, FirstAgain, First
  <2>2. Len(toc) \in Nat /\ (toc # <<>> => Len(toc) >= 1)
    BY EmptySeq DEF IInv, TypeOK
  <2>3. CASE toc = <<>>
    BY <2>1, <2>3, EmptySeq DEF IsChain, First
  <2>4. CASE toc # <<>>
    <3>1. Len(toc) = 1
      <4>1. PICK n \in Nat : n = Len(toc)
        BY <2>2
      <4>2. n >= 1
        BY <2>2, <2>4, <4>1
      <4>3. mark.tables[First].next = 0
        BY <2>1, <2>4
      <4>4. ~(n > 1)
        BY <2>1, <4>1, <4>3
      <4>5. n = 1
        BY <4>2, <4>4
      <4> QED
        BY <4>1, <4>5
    <3>2. toc[1] = TableAt(mark, First) /\ First # 0 /\ mark.tables[First].next = 0
      BY <2>1, <2>4, <3>1
    <3>3. toc[1].next = 0
      BY <3>2 DEF TableAt, TableOf
    <3> QED
      BY <2>4, <3>1, <3>2, <3>3 DEF IsChain, First
  <2> QED
    BY <2>3, <2>4
<1> QED
  BY <1>1, Invariance, PTL

(* OneTableFits is an invariant of the steps: a bookmark with one table    *)
(* that has room never reaches the end of an array.                        *)
THEOREM RoomEnough == Spec => []OneTableFits
<1>1. IInv /\ OneTableFits /\ [Next]_vars => OneTableFits'
  <2> SUFFICES ASSUME IInv, OneTableFits, [Next]_vars, OneTable(mark)', pc' = "overrun"
               PROVE  FALSE
    BY DEF OneTableFits
  <2>1. mark' = mark
    BY DEF Next, vars, ReadHeader, ReadTable, ReadEntry, TableDone, Overrun, Finish
  <2>2. OneTable(mark) /\ pc # "overrun"
    BY <2>1 DEF OneTable, OneTableFits
  <2>3. Overrun
    BY <2>2 DEF Next, vars, ReadHeader, ReadTable, ReadEntry, TableDone, Finish
  <2>4. CASE pc = "tocs" /\ toc_offset # 0 /\ Len(toc) = TocSize
    <3>1. toc # <<>>
      BY <2>4, SizeFacts, EmptySeq
    <3>2. First # 0 /\ toc_offset = mark.tables[First].next
      BY <2>4, <3>1 DEF IInv, FirstAgain, First
    <3> QED
      BY <2>2, <2>4, <3>2 DEF OneTable, First
  <2>5. CASE pc = "entries" /\ Len(entries) < count /\ Len(entries) = EntriesSize
    <3>1. First # 0 /\ count = mark.tables[First].count /\ count \in Nat
      BY <2>5 DEF IInv, TypeOK, InHand, First
    <3>2. count <= EntriesSize
      BY <2>2, <3>1 DEF OneTable, First
    <3> QED
      BY <2>5, <3>1, <3>2, SizeFacts
  <2> QED
    BY <2>3, <2>4, <2>5 DEF Overrun
<1>2. Init => OneTableFits
  BY DEF Init, OneTableFits
<1> QED
  BY <1>1, <1>2, Invariance, PTL DEF Spec

=============================================================================
