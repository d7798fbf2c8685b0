---------------------------- MODULE ConversionData ----------------------------
(***************************************************************************)
(* What Conversion should show of the records: a graph with a node for     *)
(* each container and the part of a record it shows, and its tree.         *)
(***************************************************************************)
EXTENDS ConversionStops

-----------------------------------------------------------------------------
(* What is to be shown of a record, as a graph whose nodes are containers. *)
(* A node is a kind and the part of the record that is shown there.        *)

Text(key, lit) == [key |-> key, ref |-> <<"text">>, lit |-> lit]
Part(key, x) == [key |-> key, ref |-> x, lit |-> NoText]

Tables(m) == {TablesOf(m)[k] : k \in 1 .. Len(TablesOf(m))}
EntriesOf(t) == {t.entries[k] : k \in 1 .. t.count}
MetadataOf(a) == {a.metadata[k] : k \in 1 .. Len(a.metadata)}

Nodes(r) ==
  UNION {{"record", "struct", "plist", "icvp"} \X {r},
         {"bookmark", "tocs"} \X {r.mark},
         {"toc", "entries"} \X Tables(r.mark),
         {"entry"} \X UNION {EntriesOf(t) : t \in Tables(r.mark)},
         {"item", "array"} \X {r.mark.items[o] : o \in DOMAIN r.mark.items},
         {"alias", "metadata"} \X Aliases,
         {"meta", "cnids"} \X UNION {MetadataOf(a) : a \in Aliases}}

(* The data of a record: no item or one. *)
DataOf(r) ==
  IF r.data_type # "blob" THEN <<Text("data", r.lit)>>
  ELSE CASE r.type \in Structs ->
              IF r.size # StructSize(r.type) THEN <<>> ELSE <<Part("data", <<"struct", r>>)>>
         [] r.type = "pBBk" ->
              IF r.size > BookmarkSize THEN <<>> ELSE <<Part("data", <<"bookmark", r.mark>>)>>
         [] r.type = "pict" -> <<Part("data", <<"alias", r.alias>>)>>
         [] r.type \in Others /\ r.plist = "none" -> <<Text("data", r.lit)>>
         [] r.type = "icvp" /\ r.plist = "alias" -> <<Part("data", <<"icvp", r>>)>>
         [] OTHER -> <<Part("data", <<"plist", r>>)>>

TypeItem(it) ==
  Text("data.type", IF it.type = "array" /\ ~IsArray(it) THEN "number" ELSE it.type)

ValueItem(it) ==
  IF IsArray(it) THEN Part("data.value", <<"array", it>>)
  ELSE Text("data.value", IF it.type = "true" THEN "true" ELSE it.lit)

MetaItem(e) ==
  IF e.tag = "alias" THEN Part("value", <<"alias", e.alias>>)
  ELSE IF IsCnids(e) THEN Part("value", <<"cnids", e>>)
  ELSE Text("value", e.lit)

Contents(r, kind, x) ==
  CASE kind = "record"   -> <<Text("fields", x.type)>> \o DataOf(x)
    [] kind = "struct"   -> IF x.lit = "DefB" THEN <<>> ELSE <<Text("fields", x.lit)>>
    [] kind = "plist"    -> [k \in 1 .. Len(ShownPlist(x.plist).items) |->
                               LET it == ShownPlist(x.plist).items[k] IN Text(it[1], it[2].lit)]
    [] kind = "icvp"     -> <<Text("view", "icons"),
                              Part("backgroundImageAlias", <<"alias", x.alias>>)>>
    [] kind = "bookmark" -> <<Text("fields", "header"), Part("tocs", <<"tocs", x>>)>>
    [] kind = "tocs"     -> [k \in 1 .. Len(TablesOf(x)) |-> Part(NoText, <<"toc", TablesOf(x)[k]>>)]
    [] kind = "toc"      -> <<Text("fields", "toc"), Part("entries", <<"entries", x>>)>>
    [] kind = "entries"  -> [k \in 1 .. x.count |-> Part(NoText, <<"entry", x.entries[k]>>)]
    [] kind = "entry"    -> <<TypeItem(x.data), ValueItem(x.data), Text("key", x.key)>>
    [] kind = "item"     -> <<TypeItem(x), ValueItem(x)>>
    [] kind = "array"    -> [k \in 1 .. Elements(x) |->
                               Part(NoText, <<"item", r.mark.items[x.elems[k]]>>)]
    [] kind = "alias"    -> <<Text("fields", x.lit), Part("metadata", <<"metadata", x>>)>>
    [] kind = "metadata" -> [k \in 1 .. Len(x.metadata) |-> Part(NoText, <<"meta", x.metadata[k]>>)]
    [] kind = "meta"     -> <<Text("tag", x.tag), MetaItem(x)>>
    [] kind = "cnids"    -> [k \in 1 .. x.length \div 4 |-> Text(NoText, x.lit)]

Data(r) ==
  [x \in Nodes(r) |->
     [lit   |-> IF x[1] \in {"plist", "icvp"} THEN r.plist ELSE NoText,
      items |-> Contents(r, x[1], x[2])]]

Shown(r) == Tree(Data(r))[Depth][<<"record", r>>]

(* Dates that can be converted, in all aliases of a record. *)
DatesValid(r) ==
  \A e \in 0 .. MaxDepth : \A c \in Reaches(r, Root(r))[e] :
    c.fn = "alias" =>
      \A k \in 1 .. Len(c.arg.metadata) :
        ValuesOf(c.arg.metadata[k]) = {c.arg.metadata[k].lit}

(* How many records have been converted. *)
NumberDone == IF step = "free" THEN n + 1 ELSE n

-----------------------------------------------------------------------------
(* Properties.                                                             *)

(* Both commands show every record, in order, as its data nests: --dump    *)
(* after each record, --convert at the end or not at all.  The dates in an *)
(* alias are an exception if they cannot be converted.                     *)
PrintedMirrorsData ==
  /\ Len(printed) = IF mode = "dump" \/ step = "done" THEN NumberDone ELSE 0
  /\ \A k \in 1 .. Len(printed) : DatesValid(recs[k]) => printed[k] = Shown(recs[k])

-----------------------------------------------------------------------------
(* The inductive invariant: the containers that are being made show, as    *)
(* far as they are, what is to be shown of their part of the record, and   *)
(* no container holds one of them yet.                                     *)

ItemTree(graph, it, d) ==
  IF it.ref \in DOMAIN graph THEN Tree(graph)[d][it.ref] ELSE Leaf(it.lit)

Shows(h, it, r, x) ==
  it.key = x.key /\ \A d \in 0 .. Depth : ItemTree(h, it, d) = ItemTree(Data(r), x, d)

(* The first i items of a node are there. *)
Begun(h, o, r, kind, x, i) ==
  LET all == Contents(r, kind, x) IN
    /\ o \in 1 .. Len(h) /\ h[o].lit = Data(r)[<<kind, x>>].lit
    /\ Len(h[o].items) = i /\ i <= Len(all)
    /\ \A k \in 1 .. i : Shows(h, h[o].items[k], r, all[k])

Complete(h, o, r, kind, x) == Begun(h, o, r, kind, x, Len(Contents(r, kind, x)))

(* In the copy of an 'icvp' list the bytes are still to be replaced. *)
CopyBegun(h, o, r) ==
  /\ o \in 1 .. Len(h) /\ h[o].lit = r.plist /\ Len(h[o].items) = 2
  /\ Shows(h, h[o].items[1], r, Text("view", "icons"))
  /\ h[o].items[2].key = "backgroundImageAlias"

TableIn(fr) == TablesOf(fr.arg)[fr.i + 1]
MetaIn(fr) == fr.arg.metadata[fr.i + 1]

FrameFilled(h, r, fr) ==
  /\ fr.fn = "record" /\ fr.pc # "enter" => Begun(h, fr.obj, r, "record", r, 1)
  /\ In(fr, "record", "alias") => r.type = "pict"
  /\ In(fr, "record", "icvp") => CopyBegun(h, fr.sub, r)
  /\ fr.fn = "bookmark" /\ fr.pc # "enter" =>
       Begun(h, fr.obj, r, "bookmark", fr.arg, 1) /\ Begun(h, fr.arr, r, "tocs", fr.arg, fr.i)
  /\ fr.fn = "bookmark" /\ fr.pc \in {"entries", "entry"} =>
       Begun(h, fr.sub, r, "toc", TableIn(fr), 1)
         /\ Begun(h, fr.subarr, r, "entries", TableIn(fr), fr.j)
  /\ In(fr, "bookmark", "entry") => fr.j < TableIn(fr).count
  /\ fr.fn = "item" /\ fr.pc # "enter" =>
       Begun(h, fr.obj, r, "item", fr.arg, 1) /\ Begun(h, fr.arr, r, "array", fr.arg, fr.i)
  /\ In(fr, "item", "element") => fr.i < Elements(fr.arg)
  /\ fr.fn = "alias" /\ fr.pc # "enter" =>
       Begun(h, fr.obj, r, "alias", fr.arg, 1) /\ Begun(h, fr.arr, r, "metadata", fr.arg, fr.i)
  /\ fr.pc \in {"nested", "cnids"} =>
       fr.i < Len(fr.arg.metadata) /\ Begun(h, fr.sub, r, "meta", MetaIn(fr), 1)
  /\ fr.pc = "nested" => MetaIn(fr).tag = "alias"
  /\ fr.pc = "cnids" =>
       IsCnids(MetaIn(fr)) /\ Begun(h, fr.subarr, r, "cnids", MetaIn(fr), fr.j)

Awaited == IF stack = <<>> THEN Root(Rec) ELSE Pending(Rec, Top)

ContentsOK ==
  step = "convert" /\ DatesValid(Rec) =>
    /\ \A k \in 1 .. Len(stack) : FrameFilled(heap, Rec, stack[k])
    /\ ret # <<>> /\ Ret # 0 => Complete(heap, Ret, Rec, Awaited.fn, Awaited.arg)

(* All that containers hold. *)
Referred(h) ==
  UNION {{h[o].items[k].ref : k \in 1 .. Len(h[o].items)} : o \in 1 .. Len(h)}

InTheMaking == LocalsFrom(stack) \union Nonzero(Given \union {records})

(* The array has the dictionaries of the records that are done. *)
CollectedOK ==
  records # 0 =>
    LET items == heap[records].items IN
      /\ Len(items) = NumberDone
      /\ \A k \in 1 .. Len(items) :
           /\ items[k].ref \in 1 .. Len(heap)
           /\ DatesValid(recs[k]) => Tree(heap)[Depth][items[k].ref] = Shown(recs[k])

DInv ==
  /\ PrintedMirrorsData /\ IsSequence(printed)
  /\ ContentsOK /\ CollectedOK /\ Referred(heap) \intersect InTheMaking = {}

=============================================================================
