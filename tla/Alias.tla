-------------------------------- MODULE Alias --------------------------------
(***************************************************************************)
(* The alias records inside 'pict' records: alias_create_from_data         *)
(* (alias.cpp).  After a header of fixed size comes a list of metadata     *)
(* entries, each a tag, a length and a value that is padded to an even     *)
(* length, and a sentinel with the tag -1.                                 *)
(*                                                                         *)
(* An alias is a sequence of 16-bit words after the header: the metadata   *)
(* is read at even offsets only.  Of the header only the size and the      *)
(* version decide anything here; the rest is copied, with the lengths of   *)
(* its two names unchecked, which Conversion takes up.  Numbers of 16 bits *)
(* are taken modulo Word.                                                  *)
(***************************************************************************)
EXTENDS Integers, Sequences

CONSTANTS
  Word,            \* 2^16
  HeaderSize,      \* alias_header_size, 150
  Aliases          \* the data that is parsed; see AliasesAssumption

(* size is that of the data, record_size and version are those the header  *)
(* states, words is the metadata; the last word may be half outside.       *)
ASSUME SizesAssumption ==
  /\ Word \in Nat /\ Word > 1 /\ Word % 2 = 0
  /\ HeaderSize \in Nat /\ HeaderSize % 2 = 0 /\ HeaderSize >= 4

ASSUME AliasesAssumption ==
  \A a \in Aliases :
    /\ a.size \in Nat /\ a.size >= HeaderSize
    /\ a.record_size \in 0 .. Word - 1 /\ a.version \in 0 .. Word - 1
    /\ a.words \in Seq(0 .. Word - 1)
    /\ HeaderSize + 2 * Len(a.words) >= a.size

VARIABLES
  alias,           \* what is parsed
  phase,           \* "size", "version", "loop", "value", "returned"
  pos,             \* data - data_start
  tag, length,     \* of the entry that is read
  metadata,        \* metadata_entries: where each begins, its tag and length
  live,            \* the alias_t is allocated
  result           \* "none", "alias" or "null"

aliasVars == <<alias, phase, pos, tag, length, metadata, live, result>>

Sentinel == Word - 1

(* The 16-bit number at the even offset p. *)
WordAt(p) == alias.words[(p - HeaderSize) \div 2 + 1]

(* entry.length, or entry.length + 1 in 16 bits. *)
EntryLength(n) == IF n % 2 = 0 THEN n ELSE (n + 1) % Word

AliasInit ==
  /\ alias \in Aliases
  /\ phase = "size"
  /\ pos = 0 /\ tag = 0 /\ length = 0
  /\ metadata = <<>>
  /\ live = TRUE
  /\ result = "none"

(* The error paths free the alias and return nullptr. *)
ReturnNull ==
  /\ phase' = "returned" /\ result' = "null"
  /\ live' = FALSE

CheckSize ==
  /\ phase = "size"
  /\ IF alias.record_size # alias.size THEN ReturnNull
     ELSE phase' = "version" /\ UNCHANGED <<result, live>>
  /\ UNCHANGED <<alias, pos, tag, length, metadata>>

(* The version; then the rest of the header is read. *)
CheckVersion ==
  /\ phase = "version"
  /\ IF alias.version # 2 THEN ReturnNull /\ UNCHANGED pos
     ELSE phase' = "loop" /\ pos' = HeaderSize /\ UNCHANGED <<result, live>>
  /\ UNCHANGED <<alias, tag, length, metadata>>

(* Room for a tag and a length is left: they are read. *)
ReadTagAndLength ==
  /\ phase = "loop"
  /\ pos <= alias.record_size - 4
  /\ tag' = WordAt(pos) /\ length' = WordAt(pos + 2)
  /\ pos' = pos + 4
  /\ phase' = "value"
  /\ UNCHANGED <<alias, metadata, live, result>>

(* Mutant: only the tag and the length are checked. *)
ValueTooLong_Header == pos > alias.record_size

(* Mutant: an entry that fits exactly is refused. *)
ValueTooLong_Exact == pos >= alias.record_size - EntryLength(length)

ValueTooLong == pos > alias.record_size - EntryLength(length)

(* The value does not fit into the record. *)
RejectValue ==
  /\ phase = "value" /\ ValueTooLong
  /\ ReturnNull
  /\ UNCHANGED <<alias, pos, tag, length, metadata>>

(* Mutant: the padded length is kept, in more than 16 bits. *)
KeepEntry_Padded ==
  /\ phase = "value" /\ ~ValueTooLong
  /\ tag # Sentinel
  /\ metadata' = Append(metadata, [at |-> pos - 4, tag |-> tag, length |-> length + (length % 2)])
  /\ pos' = pos + EntryLength(length)
  /\ phase' = "loop"
  /\ UNCHANGED <<alias, tag, length, live, result>>

(* Mutant: the entry is read again. *)
KeepEntry_Again ==
  /\ phase = "value" /\ ~ValueTooLong
  /\ tag # Sentinel
  /\ metadata' = metadata
  /\ pos' = pos - 4
  /\ phase' = "loop"
  /\ UNCHANGED <<alias, tag, length, live, result>>

(* The value is read, and the entry is kept. *)
KeepEntry ==
  /\ phase = "value" /\ ~ValueTooLong
  /\ tag # Sentinel
  /\ metadata' = Append(metadata, [at |-> pos - 4, tag |-> tag, length |-> length])
  /\ pos' = pos + EntryLength(length)
  /\ phase' = "loop"
  /\ UNCHANGED <<alias, tag, length, live, result>>

(* Mutant: the loop goes on behind the sentinel. *)
StopAtSentinel_GoesOn ==
  /\ phase = "value" /\ ~ValueTooLong
  /\ tag = Sentinel
  /\ pos' = pos + EntryLength(length)
  /\ phase' = "loop"
  /\ UNCHANGED <<alias, tag, length, metadata, live, result>>

(* The sentinel ends the list, whatever follows it, and is not kept. *)
StopAtSentinel ==
  /\ phase = "value" /\ ~ValueTooLong
  /\ tag = Sentinel
  /\ pos' = pos + EntryLength(length)
  /\ phase' = "returned" /\ result' = "alias"
  /\ UNCHANGED <<alias, tag, length, metadata, live>>

(* Less than an entry is left: that is only warned of. *)
EndOfRecord ==
  /\ phase = "loop"
  /\ pos > alias.record_size - 4
  /\ phase' = "returned" /\ result' = "alias"
  /\ UNCHANGED <<alias, pos, tag, length, metadata, live>>

AliasNext ==
  \/ CheckSize \/ CheckVersion \/ ReadTagAndLength \/ RejectValue \/ KeepEntry
  \/ StopAtSentinel \/ EndOfRecord

(* The function runs to its end. *)
AliasSpec == AliasInit /\ [][AliasNext]_aliasVars /\ WF_aliasVars(AliasNext)

-----------------------------------------------------------------------------
(* Properties.                                                             *)

EntryType == [at : Nat, tag : 0 .. Word - 1, length : 0 .. Word - 1]

AliasTypeOK ==
  /\ alias \in Aliases
  /\ phase \in {"size", "version", "loop", "value", "returned"}
  /\ pos \in Nat
  /\ tag \in 0 .. Word - 1 /\ length \in 0 .. Word - 1
  /\ metadata \in Seq(EntryType)
  /\ live \in BOOLEAN
  /\ result \in {"none", "alias", "null"}

(* The cursor never leaves the data, however the entries are chained and   *)
(* whatever lengths they state, 0xFFFF, which is padded to 0, included.    *)
CursorInData == pos <= alias.size

(* Where the value of an entry, and the entry, end. *)
EndOf(e) == e.at + 4 + EntryLength(e.length)

(* Where the next entry is, after those that are kept. *)
NextEntry == IF metadata = <<>> THEN HeaderSize ELSE EndOf(metadata[Len(metadata)])

(* The entries follow each other without a gap from the end of the header  *)
(* on, and the cursor is at the end of the last: no entry is dropped, read *)
(* twice or taken out of the value of another.                             *)
EntriesTile ==
  /\ \A i \in 1 .. Len(metadata) :
       metadata[i].at = IF i = 1 THEN HeaderSize ELSE EndOf(metadata[i - 1])
  /\ phase = "loop" => pos = NextEntry

(* The sentinel is not among the entries, and every entry says what the    *)
(* data says at its place.                                                 *)
EntriesSayWhatIsThere ==
  \A i \in 1 .. Len(metadata) :
    /\ metadata[i].tag = WordAt(metadata[i].at) /\ metadata[i].tag # Sentinel
    /\ metadata[i].length = WordAt(metadata[i].at + 2)

(* The entries that are kept are the first ones of the data, all of them   *)
(* up to the cursor and as they are there; at the sentinel, which is not   *)
(* kept, the loop does not go on to what follows it.                       *)
EntriesAreTheData == EntriesTile /\ EntriesSayWhatIsThere

(* What the data says of the entry after those that are kept. *)
HeaderRight == alias.record_size = alias.size /\ alias.version = 2
AnotherEntry == NextEntry + 4 <= alias.record_size
NextIsSentinel == WordAt(NextEntry) = Sentinel
NextFits == NextEntry + 4 + EntryLength(WordAt(NextEntry + 2)) <= alias.record_size

(* An alias is returned only when no entry is left: the next is a sentinel *)
(* whose value fits, or there is no room for one.  Nothing is returned,    *)
(* and nothing left allocated, only if the header is not right or the next *)
(* entry does not fit, the sentinel included; one that fits exactly does.  *)
CompleteOrNothing ==
  /\ result = "alias" =>
       live /\ HeaderRight /\ (AnotherEntry => NextIsSentinel /\ NextFits)
  /\ result = "null" =>
       ~live /\ (HeaderRight => AnotherEntry /\ ~NextFits)

(* The function returns: each round moves the cursor. *)
Terminates == <>(phase = "returned")

(* The inductive invariant behind these properties.                       *)

(* The size is checked first, then the version; in the loop the cursor is  *)
(* even and behind the header.                                             *)
CursorEven ==
  /\ phase \in {"version", "loop", "value"} => alias.record_size = alias.size
  /\ phase \in {"loop", "value"} => HeaderRight /\ pos >= HeaderSize /\ pos % 2 = 0

(* The entry in hand is the next one. *)
EntryInHand ==
  phase = "value" =>
    /\ pos = NextEntry + 4
    /\ tag = WordAt(NextEntry) /\ length = WordAt(NextEntry + 2)

(* Before the loop nothing is kept; before the end nothing is decided. *)
Undecided ==
  /\ phase \in {"size", "version"} => metadata = <<>>
  /\ phase # "returned" => live /\ result = "none"

AliasInv ==
  /\ AliasTypeOK
  /\ CursorInData
  /\ CursorEven
  /\ EntriesTile
  /\ EntryInHand
  /\ EntriesSayWhatIsThere
  /\ Undecided
  /\ CompleteOrNothing

=============================================================================
