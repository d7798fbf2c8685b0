---------------------------- MODULE ConversionStops ----------------------------
(***************************************************************************)
(* At which records Conversion stops: the calls that the data of a record  *)
(* leads to, level by level, and what is wrong with one that does not      *)
(* return.                                                                 *)
(***************************************************************************)
EXTENDS ConversionInvariant

Activation(fn, arg) == [fn |-> fn, arg |-> arg]

(* The items that the entries of a bookmark and the elements of an array   *)
(* point to, and the aliases in an alias.                                  *)
EnteredIn(t) == {t.entries[k].data : k \in 1 .. t.count}

Entered(m) == UNION {EnteredIn(TablesOf(m)[k]) : k \in 1 .. Len(TablesOf(m))}

ElementsOf(m, it) ==
  IF IsArray(it) THEN {m.items[it.elems[k]] : k \in 1 .. Elements(it)} ELSE {}

NestedIn(a) ==
  {a.metadata[k].alias : k \in {l \in 1 .. Len(a.metadata) : a.metadata[l].tag = "alias"}}

(* The activations that one of the record r makes. *)
Calls(r, c) ==
  CASE c.fn = "record" /\ UsesBookmark(r) -> {Activation("bookmark", r.mark)}
    [] c.fn = "record" /\ UsesAlias(r)    -> {Activation("alias", r.alias)}
    [] c.fn = "bookmark" -> {Activation("item", it) : it \in Entered(c.arg)}
    [] c.fn = "item"     -> {Activation("item", it) : it \in ElementsOf(r.mark, c.arg)}
    [] c.fn = "alias"    -> {Activation("alias", a) : a \in NestedIn(c.arg)}
    [] OTHER             -> {}

(* Those that are e levels below the activation c. *)
Reaches(r, c) ==
  LET at[e \in Nat] == IF e = 0 THEN {c} ELSE UNION {Calls(r, x) : x \in at[e - 1]}
  IN at

(* What an activation must be given so that it returns.                    *)
Accepts(c) ==
  /\ c.fn = "record" =>
       /\ ~(c.arg.data_type = "dutc" /\ c.arg.lit = "invalid")
       /\ ~(c.arg.data_type = "blob" /\ c.arg.type = "icvp" /\ c.arg.plist = "list")
       /\ UsesBookmark(c.arg) => OneTable(c.arg.mark)
  /\ c.fn = "item" => Fits(c.arg) /\ ~NotUTF8(c.arg)
  /\ c.fn = "alias" => c.arg.parses /\ NamesFit(c.arg)

(* With the d-th activation c everything below it returns, and the stack   *)
(* has room for it.                                                        *)
Completes(r, c, d) ==
  \A e \in 0 .. MaxDepth : \A x \in Reaches(r, c)[e] : Accepts(x) /\ d + e <= MaxDepth

Root(r) == Activation("record", r)

Sound(r) == Completes(r, Root(r), 1)

(* The program stops at the first record that cannot be converted, and at  *)
(* no other: one with an alias that does not parse or has a name longer    *)
(* than its array, at any level, a date out of range, a list that is no    *)
(* dictionary, an item of a bookmark longer than its place, a string in it *)
(* that is not UTF-8, a second table of contents or more levels than the   *)
(* stack has room for, as a cycle of arrays has.                           *)
StopsAtUnsound ==
  /\ \A k \in 1 .. n : Sound(recs[k])
  /\ stop # "no" => ~Sound(Rec)

(* A command whose records are all sound comes to its end: the recursions  *)
(* through aliases and arrays return, in as many levels as the data has,   *)
(* and so do their loops.  With any other record it runs into that one; an *)
(* exhausted stack is no end of a command whose records are sound.         *)
Ends ==
  <>(IF \A k \in 1 .. Len(recs) : Sound(recs[k]) THEN step = "done" ELSE stop # "no")

-----------------------------------------------------------------------------
(* The inductive invariant.                                                *)

CallOf(fr) == Activation(fr.fn, fr.arg)

(* The call that an activation waits for. *)
Pending(r, fr) ==
  CASE In(fr, "record", "bookmark") -> Activation("bookmark", r.mark)
    [] fr.fn = "bookmark" -> Activation("item", TablesOf(fr.arg)[fr.i + 1].entries[fr.j + 1].data)
    [] fr.fn = "item"     -> Activation("item", r.mark.items[fr.arg.elems[fr.i + 1]])
    [] fr.fn = "alias"    -> Activation("alias", fr.arg.metadata[fr.i + 1].alias)
    [] OTHER              -> Activation("alias", r.alias)

(* The calls that have returned to it. *)
Past(r, fr) ==
  CASE fr.fn = "bookmark" ->
         LET before == UNION {EnteredIn(TablesOf(fr.arg)[k]) : k \in 1 .. fr.i}
             here   == IF fr.pc \in {"enter", "tocs"} THEN {}
                       ELSE {TablesOf(fr.arg)[fr.i + 1].entries[k].data : k \in 1 .. fr.j}
         IN  {Activation("item", it) : it \in before \union here}
    [] fr.fn = "item"  -> {Activation("item", r.mark.items[fr.arg.elems[k]]) : k \in 1 .. fr.i}
    [] fr.fn = "alias" ->
         {Activation("alias", fr.arg.metadata[k].alias) :
            k \in {l \in 1 .. fr.i : fr.arg.metadata[l].tag = "alias"}}
    [] OTHER -> {}

(* How far an activation is. *)
PlaceOK(r, fr) ==
  /\ fr.j \in Nat
  /\ In(fr, "record", "bookmark") => UsesBookmark(r)
  /\ In(fr, "record", "alias") \/ In(fr, "record", "icvp") => UsesAlias(r)
  /\ fr.pc = "enter" => fr.i = 0 /\ fr.j = 0
  /\ fr.fn = "bookmark" /\ fr.pc \notin {"enter", "tocs"} => fr.i < Len(TablesOf(fr.arg))
  /\ fr.fn = "item" => \E o \in DOMAIN r.mark.items : fr.arg = r.mark.items[o]
  /\ fr.fn = "item" /\ fr.pc # "enter" =>
       IsArray(fr.arg) /\ 4 * fr.i <= ValueSize
  /\ In(fr, "item", "element") => 4 * fr.i < ValueSize
  /\ fr.fn = "alias" => fr.arg \in Aliases
  /\ fr.pc = "cnids" => fr.arg.metadata[fr.i + 1].tag # "alias"

ActivationOK(r, fr, d) ==
  /\ PlaceOK(r, fr)
  /\ CallOf(fr) \in Reaches(r, Root(r))[d - 1]
  /\ fr.pc # "enter" => d <= MaxDepth
  /\ fr.pc # "enter" /\ fr.fn # "item" => Accepts(CallOf(fr))
  /\ \A c \in Past(r, fr) : Completes(r, c, d + 1)

LevelsOK ==
  /\ Len(stack) <= MaxDepth + 1
  /\ \A k \in 1 .. Len(stack) : ActivationOK(Rec, stack[k], k)
  /\ \A k \in 1 .. Len(stack) - 1 : CallOf(stack[k + 1]) = Pending(Rec, stack[k])

ResultOK ==
  /\ ret # <<>> =>
       IF stack # <<>> THEN Completes(Rec, Pending(Rec, Top), Len(stack) + 1)
       ELSE IF Ret = 0 THEN ~Accepts(Root(Rec)) ELSE Sound(Rec)
  /\ step = "free" => Sound(Rec)

(* The list that is cached is the record's. *)
ListRead == step = "convert" => (plist = 0 <=> Rec.plist = "none")

SInv == StopsAtUnsound /\ LevelsOK /\ ResultOK /\ ListRead

=============================================================================
