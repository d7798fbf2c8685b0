---------------------------- MODULE MCConversion ----------------------------
(***************************************************************************)
(* One or two records of every type, with bookmarks and aliases that nest, *)
(* share, form cycles or do not fit.                                       *)
(***************************************************************************)
EXTENDS ConversionData

NoAlias == [parses |-> FALSE, volume_name |-> 0, target_name |-> 0, lit |-> "", metadata |-> <<>>]
NoMark == [toc_offset |-> 0, tables |-> <<>>, items |-> <<>>]

Scalar(t, l) ==
  [data_type |-> t, type |-> "dscl", size |-> 4, lit |-> l, plist |-> "none",
   alias |-> NoAlias, mark |-> NoMark]

Blob(t, size, l) == [Scalar("blob", l) EXCEPT !.type = t, !.size = size]

(* Items: 1 is a string, 2 true, 3 bytes, 4 an array of bytes that is no   *)
(* list, 5 too long, 8 not UTF-8, 9 a number.  The arrays are 6 and 7.     *)
Flat(type, length, lit) == [type |-> type, length |-> length, lit |-> lit, elems |-> <<>>]

List(e) == [type |-> "array", length |-> 4 * Len(e), lit |-> "", elems |-> e]

Items(a, b) ==
  <<Flat("string", 5, "text"), Flat("true", 0, ""), Flat("data", 3, "bytes"),
    Flat("array", 6, "odd"), Flat("string", 9, "long"), List(a), List(b),
    Flat("string", 5, "invalid"), Flat("int", 9, "7")>>

Lists == {<<>>, <<1, 3>>, <<2, 7>>, <<4>>, <<7, 7>>, <<6>>, <<1, 2, 3>>, <<5>>, <<1, 8>>, <<9>>}

Table(next, e) ==
  [next |-> next, count |-> Len(e),
   entries |-> [i \in 1 .. Len(e) |-> [key |-> "key", offset |-> e[i]]]]

Mark(o, t, a, b) == [toc_offset |-> o, tables |-> <<t, Table(0, <<1>>)>>, items |-> Items(a, b)]

Marks ==
  {Mark(1, Table(0, <<6>>), a, b) : a \in Lists, b \in {<<>>, <<1>>, <<6>>}}
    \union {Mark(1, Table(0, e), <<7, 1>>, <<3>>) :
              e \in {<<>>, <<1>>, <<6, 2>>, <<3, 4>>, <<6, 6>>, <<1, 2, 3>>, <<5>>}}
    \union {Mark(0, Table(0, <<>>), <<>>, <<>>), Mark(1, Table(2, <<1>>), <<>>, <<>>)}

(* Aliases of up to two entries, nested up to three deep. *)
Entry(tag, length) == [tag |-> tag, length |-> length, lit |-> "value", alias |-> NoAlias]

BadDate == [Entry("date", 8) EXCEPT !.lit = "invalid"]

Within(a) == [Entry("alias", 4) EXCEPT !.alias = a]

AliasWith(m) ==
  [parses |-> TRUE, volume_name |-> VolumeNameSize, target_name |-> TargetNameSize,
   lit |-> "header", metadata |-> m]

(* Names of one byte too many; those of the others fill their arrays. *)
LongVolume == [AliasWith(<<>>) EXCEPT !.volume_name = VolumeNameSize + 1]
LongTarget == [AliasWith(<<>>) EXCEPT !.target_name = TargetNameSize + 1]

Inner ==
  {NoAlias, AliasWith(<<>>), AliasWith(<<Entry("cnids", 8)>>), AliasWith(<<BadDate>>)}

Middle ==
  Inner \union {AliasWith(<<Within(a), e>>) : a \in Inner, e \in {Entry("text", 4), Entry("cnids", 6)}}

(* Too long a name, at the top, within another alias, and behind one in it. *)
Overlong ==
  {LongVolume, LongTarget, AliasWith(<<Within(LongVolume), Entry("text", 4)>>),
   AliasWith(<<Within(AliasWith(<<>>)), Within(LongTarget)>>)}

Pictures ==
  Middle \union Overlong
         \union {AliasWith(<<Entry("cnids", 0), Within(a)>>) : a \in Middle}
         \union {AliasWith(<<Within(a), Within(b)>>) : a \in Inner, b \in Inner}

Single == AliasWith(<<Entry("text", 4)>>)

MCAliases == Pictures \union {Single}

Plain ==
  {Scalar("scalar", "5"), Scalar("bool", "true"), Scalar("dutc", "today"),
   Blob("BKGD", 12, "ClrB"), Blob("BKGD", 12, "DefB"), Blob("BKGD", 11, "ClrB"),
   Blob("Iloc", 16, "place"), Blob("Iloc", 12, "place"), Blob("fwi0", 16, "window"),
   Blob("pBBk", 99, ""), Blob("other", 5, "bytes"), Blob("icvp", 5, "bytes"),
   [Blob("other", 5, "") EXCEPT !.plist = "list"],
   [Blob("other", 5, "") EXCEPT !.plist = "dictionary"]}

Special ==
  {Scalar("dutc", "invalid")}
    \union {[Blob("icvp", 5, "") EXCEPT !.plist = p] : p \in {"list", "dictionary"}}
    \union {[Blob("icvp", 5, "") EXCEPT !.plist = "alias", !.alias = a] : a \in Middle \union Overlong}
    \union {[Blob("pict", 5, "") EXCEPT !.alias = a] : a \in Pictures}
    \union {[Blob("pBBk", 50, "") EXCEPT !.mark = m] : m \in Marks}

MCInputs ==
  {<<>>} \union {<<r, s>> : r \in Plain, s \in Plain}
    \union {<<r>> : r \in Special}
    \union {<<r, s>> : r \in {[Blob("pict", 5, "") EXCEPT !.alias = Single],
                              [Blob("icvp", 5, "") EXCEPT !.plist = "alias", !.alias = AliasWith(<<>>)],
                              [Blob("other", 5, "") EXCEPT !.plist = "alias"],
                              [Blob("pBBk", 50, "") EXCEPT !.mark = Mark(1, Table(0, <<1>>), <<>>, <<>>)]},
                       s \in Special \union Plain}

=============================================================================
