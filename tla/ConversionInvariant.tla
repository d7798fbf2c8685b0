-------------------------- MODULE ConversionInvariant --------------------------
(***************************************************************************)
(* The inductive invariant of Conversion.  Every reference has one owner:  *)
(* a variable of an activation, the value that is returned, the record or  *)
(* the caller; what has more references than owners and containers is of   *)
(* the kinds that the code never releases.                                 *)
(***************************************************************************)
EXTENDS Conversion

IsSequence(s) == s \in Seq({s[k] : k \in 1 .. Len(s)})

IsHeap(h) ==
  /\ IsSequence(h)
  /\ \A o \in 1 .. Len(h) :
       /\ DOMAIN h[o] = {"site", "rc", "lit", "items"}
       /\ h[o].rc \in Int /\ IsSequence(h[o].items)
       /\ \A k \in 1 .. Len(h[o].items) :
            DOMAIN h[o].items[k] = {"key", "ref", "lit"} /\ h[o].items[k].ref \in 0 .. Len(h)

(* Where an object is held, freed containers included that have not yet    *)
(* released it.                                                            *)
Refs(h, o) == HeldBy(h, 1 .. Len(h), o)

(* The owners: each variable, the returned value, the record's list and    *)
(* the array own one reference, and no two the same object.                *)
Nonzero(S) == S \ {0}
LocalsFrom(st) == UNION {Locals(st[k]) : k \in 1 .. Len(st)}
Given == IF ret = <<>> THEN {} ELSE {Ret}
Owned == LocalsFrom(stack) \union Nonzero({plist, records} \union Given)

Distinct(fr) == \A v, w \in Variables : fr[v] = fr[w] /\ fr[v] # 0 => v = w

OwnersDistinct ==
  /\ \A k \in 1 .. Len(stack) : Distinct(stack[k])
  /\ \A k, l \in 1 .. Len(stack) : k # l => Locals(stack[k]) \intersect Locals(stack[l]) = {}
  /\ {plist, records} \intersect LocalsFrom(stack) = {}
  /\ plist = records => plist = 0
  /\ ret # <<>> /\ Ret # 0 => Ret \notin LocalsFrom(stack) \union {plist, records}

(* What the running function has in hand, and what the others own.         *)
Hand == (IF stack = <<>> THEN {} ELSE Locals(Top)) \union Nonzero(Given)
LocalsBelow == UNION {Locals(stack[k]) : k \in 1 .. Len(stack) - 1}
Rest == LocalsBelow \union Nonzero({plist, records})

(* A count is the number of places where the object is held, and of its    *)
(* owner; only of the objects that are never released can it be higher.    *)
Spare(h, S, o) == h[o].rc - Cardinality(Refs(h, o)) - (IF o \in S THEN 1 ELSE 0)

Balanced(h, S, sites) ==
  /\ S \subseteq 1 .. Len(h)
  /\ \A o \in 1 .. Len(h) :
       Spare(h, S, o) >= 0 /\ (h[o].site \notin sites => Spare(h, S, o) = 0)

(* Nothing is left by records that leave nothing behind; that a date out   *)
(* of range leaves its dictionary is seen only until the program stops.    *)
KnownLeaks ==
  IF \A k \in 1 .. Len(recs) : ~Leaky(recs[k]) THEN {}
  ELSE {"item", "toc", "entries", "arr", "data", "metadataItems", "cnids", "alias_t"}
         \union (IF \E k \in 1 .. Len(recs) : recs[k].type = "icvp" THEN {"copy", "pict"} ELSE {})

Leaks == KnownLeaks \union IF ret = <<0>> THEN {"dict"} ELSE {}

(* Records that leave nothing make containers of known kinds, which hold   *)
(* only kinds that are further down.                                       *)
Level ==
  [records |-> 0, dict |-> 1, struct |-> 2, plist |-> 2, pbbk |-> 2, tocs |-> 3, value |-> 4]

Layered(h) ==
  \A o \in 1 .. Len(h) :
    /\ h[o].site \in DOMAIN Level
    /\ \A k \in DOMAIN h[o].items :
         h[o].items[k].ref # 0 => Level[h[h[o].items[k].ref].site] > Level[h[o].site]

(* What kind of object is in each variable at each place; the alias_t is   *)
(* missing if the alias does not parse.                                    *)
In(fr, fn, pc) == fr.fn = fn /\ fr.pc = pc

IsKind(h, o, site) ==
  IF site = "none" THEN o = 0 ELSE o \in 1 .. Len(h) /\ h[o].site = site

Kinds(h, fr, obj, arr, sub, subarr) ==
  /\ IsKind(h, fr.obj, obj) /\ IsKind(h, fr.arr, arr)
  /\ IsKind(h, fr.sub, sub) /\ IsKind(h, fr.subarr, subarr)

FrameOK(h, fr) ==
  /\ DOMAIN fr = {"fn", "pc", "arg", "i", "j"} \union Variables /\ fr.i \in Nat
  /\ \/ /\ fr.fn \in {"record", "bookmark", "item", "alias"} /\ fr.pc = "enter"
        /\ Kinds(h, fr, "none", "none", "none", "none")
     \/ In(fr, "record", "bookmark")  /\ Kinds(h, fr, "dict", "none", "none", "none")
     \/ In(fr, "record", "alias")     /\ Kinds(h, fr, "dict", "none", "none", "none")
     \/ In(fr, "record", "icvp")      /\ Kinds(h, fr, "dict", "none", "copy", "none")
     \/ In(fr, "bookmark", "tocs")    /\ Kinds(h, fr, "pbbk", "tocs", "none", "none")
     \/ In(fr, "bookmark", "entries") /\ Kinds(h, fr, "pbbk", "tocs", "toc", "entries")
     \/ In(fr, "bookmark", "entry")   /\ Kinds(h, fr, "pbbk", "tocs", "toc", "entries")
     \/ In(fr, "item", "array")       /\ Kinds(h, fr, "item", "arr", "none", "none")
     \/ In(fr, "item", "element")     /\ Kinds(h, fr, "item", "arr", "none", "none")
     \/ In(fr, "alias", "metadata")   /\ Kinds(h, fr, "pict", "metadataItems", "none", "none")
     \/ In(fr, "alias", "nested")     /\ Kinds(h, fr, "pict", "metadataItems", "meta", "none")
     \/ In(fr, "alias", "cnids")      /\ Kinds(h, fr, "pict", "metadataItems", "meta", "cnids")
  /\ IsKind(h, fr.tmp, IF In(fr, "record", "alias") /\ fr.arg.alias.parses THEN "alias_t" ELSE "none")

(* What each place waits for, and what that function returns.              *)
Waits(fr, fn) ==
  \/ In(fr, "record", "bookmark") /\ fn = "bookmark"
  \/ (In(fr, "record", "alias") \/ In(fr, "record", "icvp") \/ In(fr, "alias", "nested"))
       /\ fn = "alias"
  \/ (In(fr, "bookmark", "entry") \/ In(fr, "item", "element")) /\ fn = "item"

Results == {<<"bookmark", "pbbk">>, <<"item", "item">>, <<"alias", "pict">>}

(* An alias is gone through only if it parses.                             *)
CallOK(fr, callee) ==
  /\ Waits(fr, callee.fn)
  /\ In(fr, "record", "alias") => callee.arg = fr.arg.alias
  /\ callee.fn = "alias" /\ callee.pc # "enter" => callee.arg.parses

ReturnOK ==
  ret # <<>> =>
    /\ ret = <<Ret>>
    /\ IF stack = <<>> THEN Ret = 0 \/ (Ret \in 1 .. Len(heap) /\ heap[Ret].site = "dict")
       ELSE /\ Ret \in 1 .. Len(heap)
            /\ \E r \in Results : Waits(Top, r[1]) /\ heap[Ret].site = r[2]
            /\ In(Top, "record", "alias") => Top.arg.alias.parses

(* What the record in hand must be for a function to be at its place.      *)
RecordOK(fr) ==
  /\ fr.fn = "record" => fr.arg = Rec
  /\ In(fr, "record", "icvp") => Rec.type = "icvp" /\ Leaky(Rec)
  /\ fr.fn = "bookmark" => fr.arg = Rec.mark /\ UsesBookmark(Rec)
  /\ fr.fn = "bookmark" /\ fr.pc \in {"entries", "entry"} => Leaky(Rec)
  /\ fr.fn \in {"item", "alias"} => Leaky(Rec)

StackOK ==
  /\ IsSequence(stack)
  /\ \A k \in 1 .. Len(stack) :
       FrameOK(heap, stack[k]) /\ RecordOK(stack[k]) /\ (stack[k].fn = "record" <=> k = 1)
  /\ \A k \in 1 .. Len(stack) - 1 : CallOK(stack[k], stack[k + 1])

CallerOK ==
  /\ step = "convert" <=> stack # <<>> \/ ret # <<>>
  /\ step \in {"convert", "free"} => n < Len(recs)
  /\ plist # 0 => step \in {"convert", "free"} /\ Rec.plist # "none" /\ heap[plist].site = "plist"
  /\ records # 0 <=> mode = "convert" /\ step # "done"
  /\ records # 0 => heap[records].site = "records"

(* What the record's list holds has no other owner. *)
PlistApart ==
  plist # 0 => \A k \in DOMAIN heap[plist].items : heap[plist].items[k].ref \notin Owned

HeapOK ==
  /\ IsHeap(heap)
  /\ Balanced(heap, Owned, Leaks)
  /\ KnownLeaks = {} => Layered(heap)

IInv ==
  /\ TypeOK /\ HeapOK /\ OwnersDistinct
  /\ StackOK /\ ReturnOK /\ CallerOK
  /\ PlistUntouched /\ PlistApart

=============================================================================
