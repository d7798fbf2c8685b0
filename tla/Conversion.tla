------------------------------ MODULE Conversion ------------------------------
(***************************************************************************)
(* What becomes of the records an enumeration delivers: the record         *)
(* functions of amg_dump_file and amg_convert_file, and the dictionary     *)
(* that ds_record_copy_dictionary makes of a record (dsrecord.cpp) with    *)
(* the recursions through bookmarks (dsrecord.cpp), aliases (alias.cpp)    *)
(* and 'icvp' property lists (amgdump.c).                                  *)
(*                                                                         *)
(* One activation of a C function is one frame.  A run of setters without  *)
(* a branch is one key "fields"; a value is named by a string.             *)
(***************************************************************************)
EXTENDS BookmarkData, CoreFoundation

CONSTANTS
  Inputs,            \* the records that are delivered, in order
  Aliases,           \* the aliases that there are, also inside of others
  ValueSize,         \* bytes kept of an item of a bookmark, 256
  BookmarkSize,      \* sizeof(pBBk_t)
  VolumeNameSize,    \* of the arrays for the two names in the header of an
  TargetNameSize,    \* alias, 27 and 63
  MaxDepth,          \* how many activations the stack has room for
  Depth              \* how deep what is printed is looked at

(* A record has a data type (its scalars are one here), a type, the size   *)
(* of its blob and what that holds: a property list, an alias, a bookmark. *)
RecordFields == {"data_type", "type", "size", "lit", "plist", "alias", "mark"}

(* elems are the offsets in an array's value, as many as its length says.  *)
IsArray(it) == it.type = "array" /\ it.length % 4 = 0
Elements(it) == it.length \div 4

(* An offset in an array leads to an item, as those of IsMark do. *)
IsItemOf(m, it) ==
  /\ it.length \in Nat
  /\ IsArray(it) => \A k \in 1 .. Elements(it) : it.elems[k] \in DOMAIN m.items

(* Of an alias that does not parse, one of fewer bytes than a header       *)
(* included, there is no more to say.  The others have two names, of which *)
(* the lengths matter, and entries, which may hold an alias.               *)
IsAlias(a) ==
  /\ {a.volume_name, a.target_name} \subseteq Nat
  /\ Len(a.metadata) \in Nat
  /\ \A k \in 1 .. Len(a.metadata) :
       a.metadata[k].length \in Nat
         /\ (a.metadata[k].tag = "alias" => a.metadata[k].alias \in Aliases)

ASSUME AliasesAssumption == \A a \in Aliases : IsAlias(a)

ASSUME InputsAssumption ==
  \A s \in Inputs :
    /\ Len(s) \in Nat
    /\ \A k \in 1 .. Len(s) :
         /\ DOMAIN s[k] = RecordFields /\ s[k].size \in Nat
         /\ IsMark(s[k].mark) /\ s[k].alias \in Aliases
         /\ \A o \in DOMAIN s[k].mark.items : IsItemOf(s[k].mark, s[k].mark.items[o])

(* An item has room for whole offsets. *)
ASSUME SizesAssumption ==
  /\ {ValueSize, BookmarkSize, MaxDepth, Depth} \subseteq Nat /\ ValueSize % 4 = 0
  /\ {VolumeNameSize, TargetNameSize} \subseteq Nat

VARIABLES
  mode,              \* "dump" or "convert"
  recs, n,           \* the records, and how many are done
  step,              \* the caller: "fetch", "convert", "free", "done"
  stop,              \* "no", "crash", "overrun" or "overflow"
  heap,              \* the objects; see CoreFoundation
  stack,             \* the activations, the running one last
  ret,               \* <<>>, or what the last activation returned
  plist,             \* record->data_plist, 0 if none
  records,           \* the array of amg_convert_file, 0 if none
  printed            \* the dictionaries on stdout

vars == <<mode, recs, n, step, stop, heap, stack, ret, plist, records, printed>>
caller == <<mode, recs, n, step, plist, records, printed>>

Rec == recs[n + 1]

Top == stack[Len(stack)]
SetTop(fr) == [stack EXCEPT ![Len(stack)] = fr]

(* obj is the container that is returned, arr the array in it, sub and     *)
(* subarr are those of the element in hand, tmp is the alias_t.            *)
Frame(fn, arg) ==
  [fn |-> fn, pc |-> "enter", arg |-> arg, i |-> 0, j |-> 0,
   obj |-> 0, arr |-> 0, sub |-> 0, subarr |-> 0, tmp |-> 0]

At(fn, pc) ==
  /\ stop = "no" /\ stack # <<>> /\ ret = <<>> /\ Top.fn = fn /\ Top.pc = pc
  /\ Len(stack) <= MaxDepth

Back(fn, pc) ==
  stop = "no" /\ stack # <<>> /\ ret # <<>> /\ Top.fn = fn /\ Top.pc = pc

Ret == ret[1]

Return(o) ==
  stack' = SubSeq(stack, 1, Len(stack) - 1) /\ ret' = <<o>> /\ UNCHANGED <<stop, caller>>

Goto(fr) ==
  stack' = SetTop(fr) /\ ret' = <<>> /\ UNCHANGED <<stop, caller>>

Call(fr, fn, arg) ==
  stack' = Append(SetTop(fr), Frame(fn, arg)) /\ UNCHANGED <<ret, stop, caller>>

(* The program leaves what the language defines. *)
Halt(how) ==
  stop' = how /\ UNCHANGED <<heap, stack, ret, caller>>

Init ==
  /\ mode \in {"dump", "convert"}
  /\ recs \in Inputs /\ n = 0
  /\ step = "fetch" /\ stop = "no"
  /\ heap = IF mode = "convert" THEN NewContainer(<<>>, "records") ELSE <<>>
  /\ records = IF mode = "convert" THEN 1 ELSE 0
  /\ stack = <<>> /\ ret = <<>>
  /\ plist = 0
  /\ printed = <<>>

-----------------------------------------------------------------------------
(* The caller: ds_store_enum_blocks_core and its record function.          *)

(* The property list that ds_record_fread caches beside the blob. *)
PlistOf(h, p) ==
  LET d == Len(h) + 1
      g == Set(New(h, "plist", p), d, Constant("view", "icons"))
  IN CASE p = "none"  -> h
       [] p = "list"  -> New(h, "plist", p)
       [] p = "alias" -> SetNumber(g, d, "backgroundImageAlias", "bytes")
       [] OTHER       -> g

FetchRecord ==
  /\ step = "fetch" /\ n < Len(recs)
  /\ heap' = PlistOf(heap, Rec.plist)
  /\ plist' = IF Rec.plist = "none" THEN 0 ELSE Len(heap) + 1
  /\ stack' = <<Frame("record", Rec)>>
  /\ step' = "convert"
  /\ UNCHANGED <<mode, recs, n, stop, ret, records, printed>>

Returned == stop = "no" /\ step = "convert" /\ stack = <<>> /\ ret # <<>>

(* Core Foundation is given a null pointer. *)
NullDictionary == Returned /\ Ret = 0 /\ Halt("crash")

(* Mutant: the dictionary is released twice. *)
DumpRecord_Twice ==
  /\ Returned /\ mode = "dump" /\ Ret # 0
  /\ printed' = Append(printed, Tree(heap)[Depth][Ret])
  /\ heap' = CFRelease(CFRelease(heap, Ret), Ret)
  /\ ret' = <<>> /\ step' = "free"
  /\ UNCHANGED <<mode, recs, n, stop, stack, plist, records>>

(* amg_dump_record *)
DumpRecord ==
  /\ Returned /\ mode = "dump" /\ Ret # 0
  /\ printed' = Append(printed, Tree(heap)[Depth][Ret])
  /\ heap' = CFRelease(heap, Ret)
  /\ ret' = <<>> /\ step' = "free"
  /\ UNCHANGED <<mode, recs, n, stop, stack, plist, records>>

(* The record function of amg_convert_file. *)
CollectRecord ==
  /\ Returned /\ mode = "convert" /\ Ret # 0
  /\ heap' = CFRelease(Add(heap, records, Element(Ret)), Ret)
  /\ ret' = <<>> /\ step' = "free"
  /\ UNCHANGED <<mode, recs, n, stop, stack, plist, records, printed>>

(* ds_record_free releases the property list. *)
FreeRecord ==
  /\ step = "free"
  /\ heap' = IF plist = 0 THEN heap ELSE CFRelease(heap, plist)
  /\ plist' = 0
  /\ n' = n + 1 /\ step' = "fetch"
  /\ UNCHANGED <<mode, recs, stop, stack, ret, records, printed>>

(* amg_convert_file prints and releases the array.  All that is in it is   *)
(* of a type that a property list may have, so there is data to print.     *)
Finish ==
  /\ step = "fetch" /\ n = Len(recs)
  /\ IF mode = "dump" THEN UNCHANGED <<heap, printed>>
     ELSE /\ printed' = [k \in 1 .. n |-> Tree(heap)[Depth][heap[records].items[k].ref]]
          /\ heap' = CFRelease(heap, records)
  /\ records' = 0 /\ step' = "done"
  /\ UNCHANGED <<mode, recs, n, stop, stack, ret, plist>>

-----------------------------------------------------------------------------
(* ds_record_copy_dictionary.                                              *)

(* The dictionary with what is set in it whatever the data type is. *)
Dict == Len(heap) + 1
Opened == SetNumber(NewContainer(heap, "dict"), Dict, "fields", Top.arg.type)

BlobOf(types) ==
  At("record", "enter") /\ Top.arg.data_type = "blob" /\ Top.arg.type \in types

Structs == {"BKGD", "Iloc", "fwi0"}
StructSize(type) == IF type = "BKGD" THEN 12 ELSE 16

RecordScalar ==
  /\ At("record", "enter") /\ Top.arg.data_type \in {"scalar", "bool"}
  /\ heap' = IF Top.arg.data_type = "bool"
             THEN Set(Opened, Dict, Constant("data", Top.arg.lit))
             ELSE SetNumber(Opened, Dict, "data", Top.arg.lit)
  /\ Return(Dict)

(* Mutant: a date that cannot be converted is shown all the same. *)
RecordDate_Unchecked ==
  /\ At("record", "enter") /\ Top.arg.data_type = "dutc"
  /\ heap' = SetNumber(Opened, Dict, "data", Top.arg.lit) /\ Return(Dict)

(* UCConvertUTCDateTimeToCFAbsoluteTime does not accept every date: the    *)
(* dictionary is dropped then, and a null pointer returned.                *)
RecordDate ==
  /\ At("record", "enter") /\ Top.arg.data_type = "dutc"
  /\ IF Top.arg.lit = "invalid" THEN heap' = Opened /\ Return(0)
     ELSE heap' = SetNumber(Opened, Dict, "data", Top.arg.lit) /\ Return(Dict)

(* A structure of its fixed size; a 'BKGD' of no known kind stays empty. *)
RecordStruct ==
  /\ BlobOf(Structs) /\ Top.arg.size = StructSize(Top.arg.type)
  /\ LET g == NewContainer(Opened, "struct")
         d == Len(g)
         f == IF Top.arg.lit = "DefB" THEN g ELSE SetNumber(g, d, "fields", Top.arg.lit)
     IN heap' = CFRelease(Set(f, Dict, Item("data", d)), d)
  /\ Return(Dict)

(* A warning, and no "data". *)
RecordWrongSize ==
  /\ \/ BlobOf(Structs) /\ Top.arg.size # StructSize(Top.arg.type)
     \/ BlobOf({"pBBk"}) /\ Top.arg.size > BookmarkSize
  /\ heap' = Opened
  /\ Return(Dict)

(* ds_record_get_data_as_pBBk has returned: it does only for OneTable. *)
RecordBookmark ==
  /\ BlobOf({"pBBk"}) /\ Top.arg.size <= BookmarkSize /\ OneTable(Top.arg.mark)
  /\ heap' = Opened
  /\ Call([Top EXCEPT !.obj = Dict, !.pc = "bookmark"], "bookmark", Top.arg.mark)

RecordBookmarkOverrun ==
  /\ BlobOf({"pBBk"}) /\ Top.arg.size <= BookmarkSize /\ ~OneTable(Top.arg.mark)
  /\ Halt("overrun")

RecordBookmarkDone ==
  /\ Back("record", "bookmark")
  /\ heap' = CFRelease(Set(heap, Top.obj, Item("data", Ret)), Ret)
  /\ Return(Top.obj)

(* ds_record_copy_data_as_alias: an alias_t if the blob parses. *)
AliasOf(h, a) == IF a.parses THEN NewContainer(h, "alias_t") ELSE h
NewAlias(h, a) == IF a.parses THEN Len(h) + 1 ELSE 0

RecordAlias ==
  /\ BlobOf({"pict"})
  /\ heap' = AliasOf(Opened, Top.arg.alias)
  /\ Call([Top EXCEPT !.obj = Dict, !.tmp = NewAlias(Opened, Top.arg.alias), !.pc = "alias"],
          "alias", Top.arg.alias)

RecordAliasDone ==
  /\ Back("record", "alias")
  /\ heap' = CFRelease(CFRelease(Set(heap, Top.obj, Item("data", Ret)), Ret), Top.tmp)
  /\ Return(Top.obj)

Others == {"icvp", "other"}

RecordData ==
  /\ BlobOf(Others) /\ plist = 0
  /\ heap' = SetNumber(Opened, Dict, "data", Top.arg.lit)
  /\ Return(Dict)

RecordPlist ==
  /\ BlobOf({"other"}) /\ plist # 0
  /\ heap' = Set(Opened, Dict, Item("data", plist))
  /\ Return(Dict)

(* amg_ds_record_copy_icvp_display_plist. *)

(* The list is no dictionary: it returns NULL, which goes into dict. *)
IcvpNotDictionary ==
  /\ BlobOf({"icvp"}) /\ plist # 0 /\ Top.arg.plist = "list"
  /\ Halt("crash")

(* Nobody releases the copy. *)
IcvpPlain ==
  /\ BlobOf({"icvp"}) /\ plist # 0 /\ Top.arg.plist \notin {"list", "alias"}
  /\ LET g == CopyOf(Opened, "copy", plist)
     IN heap' = Set(g, Dict, Item("data", Len(Opened) + 1))
  /\ Return(Dict)

IcvpAlias ==
  /\ BlobOf({"icvp"}) /\ plist # 0 /\ Top.arg.plist = "alias"
  /\ heap' = AliasOf(CopyOf(Opened, "copy", plist), Top.arg.alias)
  /\ Call([Top EXCEPT !.obj = Dict, !.sub = Len(Opened) + 1, !.pc = "icvp"],
          "alias", Top.arg.alias)

(* Mutant: the record's own list is changed. *)
IcvpAliasDone_InPlace ==
  /\ Back("record", "icvp")
  /\ LET g == Set(heap, plist, Item("backgroundImageAlias", Ret))
     IN heap' = Set(g, Top.obj, Item("data", plist))
  /\ Return(Top.obj)

(* The bytes are replaced, in the copy, by the alias in them; neither the  *)
(* alias's dictionary nor the copy is released.                            *)
IcvpAliasDone ==
  /\ Back("record", "icvp")
  /\ LET g == Set(heap, Top.sub, Item("backgroundImageAlias", Ret))
     IN heap' = Set(g, Top.obj, Item("data", Top.sub))
  /\ Return(Top.obj)

-----------------------------------------------------------------------------
(* _pBBk_record_copy_dictionary; the frame's argument is the bookmark.     *)

(* The tables of a pBBk_t that _ds_get_data_as_pBBk has returned. *)
TablesOf(m) == IF m.toc_offset = 0 THEN <<>> ELSE <<TableAt(m, m.toc_offset)>>

BookmarkEnter ==
  /\ At("bookmark", "enter")
  /\ heap' = NewContainer(SetNumber(NewContainer(heap, "pbbk"), Len(heap) + 1, "fields", "header"),
                          "tocs")
  /\ Goto([Top EXCEPT !.obj = Len(heap) + 1, !.arr = Len(heap'), !.pc = "tocs"])

BookmarkToc ==
  /\ At("bookmark", "tocs") /\ Top.i < Len(TablesOf(Top.arg))
  /\ heap' = NewContainer(SetNumber(NewContainer(heap, "toc"), Len(heap) + 1, "fields", "toc"),
                          "entries")
  /\ Goto([Top EXCEPT !.sub = Len(heap) + 1, !.subarr = Len(heap'), !.j = 0,
                      !.pc = "entries"])

BookmarkEntry ==
  /\ At("bookmark", "entries")
  /\ LET t == TablesOf(Top.arg)[Top.i + 1] IN
       /\ Top.j < t.count
       /\ Call([Top EXCEPT !.pc = "entry"], "item", t.entries[Top.j + 1].data)
  /\ UNCHANGED heap

(* _pBBk_entry_copy_dictionary sets the fields of the entry; the array     *)
(* retains the dictionary, which nobody releases.                          *)
BookmarkEntryDone ==
  /\ Back("bookmark", "entry")
  /\ LET e == TablesOf(Top.arg)[Top.i + 1].entries[Top.j + 1]
     IN heap' = Add(SetNumber(heap, Ret, "key", e.key), Top.subarr, Element(Ret))
  /\ Goto([Top EXCEPT !.j = @ + 1, !.pc = "entries"])

BookmarkTocDone ==
  /\ At("bookmark", "entries") /\ Top.j = TablesOf(Top.arg)[Top.i + 1].count
  /\ heap' = Add(Set(heap, Top.sub, Item("entries", Top.subarr)), Top.arr,
                 Element(Top.sub))
  /\ Goto([Top EXCEPT !.i = @ + 1, !.sub = 0, !.subarr = 0, !.pc = "tocs"])

(* Mutant: the array is released before the dictionary has it. *)
BookmarkDone_Early ==
  /\ At("bookmark", "tocs") /\ Top.i = Len(TablesOf(Top.arg))
  /\ heap' = Set(CFRelease(heap, Top.arr), Top.obj, Item("tocs", Top.arr))
  /\ Return(Top.obj)

(* Mutant: no array is released. *)
BookmarkDone_NoRelease ==
  /\ At("bookmark", "tocs") /\ Top.i = Len(TablesOf(Top.arg))
  /\ heap' = Set(heap, Top.obj, Item("tocs", Top.arr))
  /\ Return(Top.obj)

(* The one array that is released. *)
BookmarkDone ==
  /\ At("bookmark", "tocs") /\ Top.i = Len(TablesOf(Top.arg))
  /\ heap' = CFRelease(Set(heap, Top.obj, Item("tocs", Top.arr)), Top.arr)
  /\ Return(Top.obj)

-----------------------------------------------------------------------------
(* _pBBk_entry_data_copy_dictionary; the argument is the item.             *)

(* A number or a boolean is read from its place whatever its length says. *)
Fits(it) == it.type \in {"int", "true"} \/ it.length <= ValueSize

NotUTF8(it) == it.type = "string" /\ it.lit = "invalid"

ItemScalar ==
  /\ At("item", "enter") /\ Top.arg.type \in {"string", "int", "true"}
  /\ Fits(Top.arg) /\ ~NotUTF8(Top.arg)
  /\ LET d == Len(heap) + 1
         g == Set(NewContainer(heap, "item"), d, Constant("data.type", Top.arg.type))
     IN /\ heap' = IF Top.arg.type = "true" THEN Set(g, d, Constant("data.value", "true"))
                   ELSE SetNumber(g, d, "data.value", Top.arg.lit)
        /\ Return(d)

(* Bytes that are not UTF-8 make no string: a null pointer is put in the   *)
(* dictionary.                                                             *)
ItemNotUTF8 ==
  /\ At("item", "enter") /\ Fits(Top.arg) /\ NotUTF8(Top.arg)
  /\ Halt("crash")

ItemArray ==
  /\ At("item", "enter") /\ IsArray(Top.arg)
  /\ heap' = NewContainer(Set(NewContainer(heap, "item"), Len(heap) + 1, Constant("data.type", "array")),
                          "arr")
  /\ Goto([Top EXCEPT !.obj = Len(heap) + 1, !.arr = Len(heap'), !.pc = "array"])

(* Mutant: the item behind the offset is read, but the array is passed. *)
ItemElement_Itself ==
  /\ At("item", "array") /\ Top.i < Elements(Top.arg) /\ 4 * Top.i < ValueSize
  /\ Call([Top EXCEPT !.pc = "element"], "item", Top.arg)
  /\ UNCHANGED heap

(* The recursion: the value of the array is a list of offsets. *)
ItemElement ==
  /\ At("item", "array") /\ Top.i < Elements(Top.arg) /\ 4 * Top.i < ValueSize
  /\ Call([Top EXCEPT !.pc = "element"], "item", Rec.mark.items[Top.arg.elems[Top.i + 1]])
  /\ UNCHANGED heap

(* Mutant: an element is taken for the value of the array. *)
ItemElementDone_Set ==
  /\ Back("item", "element")
  /\ heap' = Add(heap, Top.obj, Item("data.value", Ret))
  /\ Goto([Top EXCEPT !.i = @ + 1, !.pc = "array"])

ItemElementDone ==
  /\ Back("item", "element")
  /\ heap' = Add(heap, Top.arr, Element(Ret))
  /\ Goto([Top EXCEPT !.i = @ + 1, !.pc = "array"])

ItemArrayDone ==
  /\ At("item", "array") /\ Top.i = Elements(Top.arg)
  /\ heap' = Set(heap, Top.obj, Item("data.value", Top.arr))
  /\ Return(Top.obj)

(* Bytes, and an array whose length is no multiple of 4, which is shown    *)
(* under the number of its type.  Nobody releases the CFData.              *)
ItemData ==
  /\ At("item", "enter") /\ Fits(Top.arg)
  /\ Top.arg.type = "data" \/ (Top.arg.type = "array" /\ ~IsArray(Top.arg))
  /\ LET d == Len(heap) + 1
         g == Set(NewContainer(heap, "item"), d, Constant("data.type", Top.arg.type))
         f == IF Top.arg.type = "array" THEN SetNumber(g, d, "data.type", "number") ELSE g
     IN heap' = Set(New(f, "data", Top.arg.lit), d, Item("data.value", Len(f) + 1))
  /\ Return(Len(heap) + 1)

(* The value is longer than what pBBk_entry_data_t keeps of it. *)
ItemOverrun ==
  /\ \/ At("item", "enter") /\ ~IsArray(Top.arg) /\ ~Fits(Top.arg)
     \/ At("item", "array") /\ Top.i < Elements(Top.arg) /\ 4 * Top.i >= ValueSize
  /\ Halt("overrun")

StackOverflow ==
  /\ stop = "no" /\ ret = <<>> /\ Len(stack) > MaxDepth
  /\ Halt("overflow")

-----------------------------------------------------------------------------
(* _alias_copy_dictionary; the argument is the alias.                      *)

(* A null pointer is dereferenced, or the parser's assertion has failed. *)
AliasNull ==
  /\ At("alias", "enter") /\ ~Top.arg.parses
  /\ Halt("crash")

(* The lengths of the names are the file's; nothing has compared them with *)
(* the arrays in which the parser has put as many bytes as there is room.  *)
NamesFit(a) == a.volume_name <= VolumeNameSize /\ a.target_name <= TargetNameSize

(* A string is made of more bytes than the array of its name has. *)
AliasOverrun ==
  /\ At("alias", "enter") /\ Top.arg.parses /\ ~NamesFit(Top.arg)
  /\ Halt("overrun")

AliasEnter ==
  /\ At("alias", "enter") /\ Top.arg.parses /\ NamesFit(Top.arg)
  /\ heap' = NewContainer(SetNumber(NewContainer(heap, "pict"), Len(heap) + 1, "fields", Top.arg.lit),
                          "metadataItems")
  /\ Goto([Top EXCEPT !.obj = Len(heap) + 1, !.arr = Len(heap'), !.pc = "metadata"])

Meta == Top.arg.metadata[Top.i + 1]
AtMeta == At("alias", "metadata") /\ Top.i < Len(Top.arg.metadata)

(* The dictionary of an entry with its tag, and its end: the array retains *)
(* it and the wrapper releases it.                                         *)
NewMeta(h) == SetNumber(NewContainer(h, "meta"), Len(h) + 1, "tag", Meta.tag)
CloseMeta(h, d) == CFRelease(Add(h, Top.arr, Element(d)), d)

NextMeta ==
  Goto([Top EXCEPT !.i = @ + 1, !.sub = 0, !.subarr = 0, !.pc = "metadata"])

IsCnids(e) == e.tag = "cnids" /\ e.length % 4 = 0

(* A date that cannot be converted: AMGCFDictionarySetUTCDateValue does    *)
(* not look at the status and uses its variable uninitialized.             *)
ValuesOf(e) ==
  IF e.tag = "date" /\ e.lit = "invalid" THEN {"value", "garbage"} ELSE {e.lit}

(* Strings, dates, bytes, and identifiers whose length is no multiple of 4. *)
AliasValue ==
  /\ AtMeta /\ Meta.tag # "alias" /\ ~IsCnids(Meta)
  /\ \E v \in ValuesOf(Meta), d \in {Len(heap) + 1} :
       heap' = CloseMeta(SetNumber(NewMeta(heap), d, "value", v), d)
  /\ NextMeta

AliasCnids ==
  /\ AtMeta /\ IsCnids(Meta)
  /\ heap' = NewContainer(NewMeta(heap), "cnids")
  /\ Goto([Top EXCEPT !.sub = Len(heap) + 1, !.subarr = Len(heap'), !.j = 0, !.pc = "cnids"])

AliasCnid ==
  /\ At("alias", "cnids") /\ Top.j < Meta.length \div 4
  /\ LET o == Len(heap) + 1
     IN heap' = CFRelease(Add(New(heap, "value", Meta.lit), Top.subarr, Element(o)), o)
  /\ Goto([Top EXCEPT !.j = @ + 1])

(* The array of identifiers is not released. *)
AliasCnidsDone ==
  /\ At("alias", "cnids") /\ Top.j = Meta.length \div 4
  /\ heap' = CloseMeta(Set(heap, Top.sub, Item("value", Top.subarr)), Top.sub)
  /\ NextMeta

(* The alias_t of an alias in an alias is not freed. *)
AliasNested ==
  /\ AtMeta /\ Meta.tag = "alias"
  /\ heap' = AliasOf(NewMeta(heap), Meta.alias)
  /\ Call([Top EXCEPT !.sub = Len(heap) + 1, !.pc = "nested"], "alias", Meta.alias)

AliasNestedDone ==
  /\ Back("alias", "nested")
  /\ heap' = CloseMeta(CFRelease(Set(heap, Top.sub, Item("value", Ret)), Ret), Top.sub)
  /\ NextMeta

(* The array of entries is not released. *)
AliasDone ==
  /\ At("alias", "metadata") /\ Top.i = Len(Top.arg.metadata)
  /\ heap' = Set(heap, Top.obj, Item("metadata", Top.arr))
  /\ Return(Top.obj)

-----------------------------------------------------------------------------
Caller ==
  FetchRecord \/ NullDictionary \/ DumpRecord \/ CollectRecord \/ FreeRecord \/ Finish

RecordStep ==
  \/ RecordScalar \/ RecordDate \/ RecordStruct \/ RecordWrongSize
  \/ RecordBookmark \/ RecordBookmarkOverrun \/ RecordBookmarkDone
  \/ RecordAlias \/ RecordAliasDone \/ RecordData \/ RecordPlist
  \/ IcvpNotDictionary \/ IcvpPlain \/ IcvpAlias \/ IcvpAliasDone

BookmarkStep ==
  \/ BookmarkEnter \/ BookmarkToc \/ BookmarkEntry \/ BookmarkEntryDone
  \/ BookmarkTocDone \/ BookmarkDone
  \/ ItemScalar \/ ItemNotUTF8 \/ ItemArray \/ ItemElement \/ ItemElementDone
  \/ ItemArrayDone \/ ItemData \/ ItemOverrun \/ StackOverflow

AliasStep ==
  \/ AliasNull \/ AliasOverrun \/ AliasEnter \/ AliasValue
  \/ AliasCnids \/ AliasCnid \/ AliasCnidsDone
  \/ AliasNested \/ AliasNestedDone \/ AliasDone

(* Before anything else happens, what a freed object held is released. *)
FreeItems ==
  /\ stop = "no"
  /\ \E o \in Freed(heap) : heap' = ReleaseItems(heap, o)
  /\ UNCHANGED <<stop, stack, ret, caller>>

Next ==
  \/ FreeItems
  \/ Freed(heap) = {} /\ (Caller \/ RecordStep \/ BookmarkStep \/ AliasStep)

Spec == Init /\ [][Next]_vars /\ WF_vars(Next)

-----------------------------------------------------------------------------
(* Properties.                                                             *)

TypeOK ==
  /\ mode \in {"dump", "convert"} /\ recs \in Inputs /\ n \in 0 .. Len(recs)
  /\ step \in {"fetch", "convert", "free", "done"}
  /\ stop \in {"no", "crash", "overrun", "overflow"}
  /\ \A o \in 1 .. Len(heap) :
       /\ heap[o].rc \in Nat
       /\ \A k \in 1 .. Len(heap[o].items) : heap[o].items[k].ref \in 0 .. Len(heap)
  /\ \A k \in 1 .. Len(stack) :
       stack[k].fn \in {"record", "bookmark", "item", "alias"}
  /\ Len(ret) <= 1
  /\ {plist, records} \subseteq 0 .. Len(heap)

(* Objects in the local variables of a frame. *)
Variables == {"obj", "arr", "sub", "subarr", "tmp"}
Locals(fr) == {fr[v] : v \in Variables} \ {0}

(* What a function, the record or the caller still uses has not been       *)
(* freed, and no count is lower than the number of containers that hold    *)
(* the object: a container never holds what is freed, also not after the   *)
(* record and the list that is in its dictionary are gone.                 *)
NothingFreedEarly ==
  /\ \A k \in 1 .. Len(stack) : Locals(stack[k]) \subseteq Live(heap)
  /\ {plist, records} \ {0} \subseteq Live(heap)
  /\ ret # <<>> => Ret \in Live(heap) \union {0}
  /\ \A o \in 1 .. Len(heap) : heap[o].rc >= Holders(heap, o)

(* The property list that a record caches, of which all parts are plain.   *)
ShownPlist(p) ==
  [lit |-> p,
   items |-> IF p = "list" THEN <<>>
             ELSE <<<<"view", Leaf("icons")>>>> \o
                  IF p = "alias" THEN <<<<"backgroundImageAlias", Leaf("bytes")>>>> ELSE <<>>]

(* It is the record's own: conversion changes a copy of it.                *)
PlistUntouched ==
  plist # 0 =>
    LET items == heap[plist].items
        shown == ShownPlist(Rec.plist)
    IN  /\ heap[plist].lit = shown.lit /\ Len(items) = Len(shown.items)
        /\ \A k \in 1 .. Len(items) :
             /\ items[k].key = shown.items[k][1]
             /\ shown.items[k][2] = IF items[k].ref = 0 THEN Leaf(items[k].lit)
                                    ELSE Leaf(heap[items[k].ref].lit)
             /\ items[k].ref # 0 => heap[items[k].ref].items = <<>>

UsesBookmark(r) == r.data_type = "blob" /\ r.type = "pBBk" /\ r.size <= BookmarkSize

UsesAlias(r) ==
  r.data_type = "blob" /\ (r.type = "pict" \/ (r.type = "icvp" /\ r.plist = "alias"))

(* Records that may leave objects behind: those with the arrays and         *)
(* dictionaries of a bookmark, the array of an alias's entries or          *)
(* identifiers, an alias_t in an alias or the copy of an 'icvp' list.      *)
Leaky(r) ==
  \/ UsesAlias(r) \/ (UsesBookmark(r) /\ r.mark.toc_offset # 0)
  \/ (r.data_type = "blob" /\ r.type = "icvp" /\ r.plist # "none")

(* The objects that nothing but a reference that is never released keeps. *)
LeftBehind ==
  {heap[o].site : o \in {x \in Live(heap) : heap[x].rc > Holders(heap, x)}}

(* When a command ends, what is left allocated is what the code has no     *)
(* release for, with what is below it: no dictionary of a record, of a     *)
(* bookmark, of a 'pict' alias or of a structure, and no value; the copy   *)
(* and its alias's dictionary only of an 'icvp' list.  Records of all      *)
(* other types leave nothing at all.                                       *)
LeaksAreKnown ==
  step = "done" /\ Freed(heap) = {} =>
    /\ (\A k \in 1 .. Len(recs) : ~Leaky(recs[k])) => Live(heap) = {}
    /\ LeftBehind \subseteq {"item", "toc", "entries", "arr", "data", "metadataItems",
                             "cnids", "alias_t", "copy", "pict"}
    /\ LeftBehind \intersect {"copy", "pict"} # {} =>
         \E k \in 1 .. Len(recs) : recs[k].type = "icvp"

=============================================================================
