---------------------------- MODULE CoreFoundation ----------------------------
(***************************************************************************)
(* The part of Core Foundation that the conversion of records uses:        *)
(* objects with a reference count, dictionaries and arrays that retain     *)
(* what they hold, and the setters of cfutils.h on top of them.            *)
(*                                                                         *)
(* A heap is a sequence of objects; 0 is no object.  An object whose count *)
(* has come to 0 is freed and stays so, also if it is retained again.  The *)
(* items of a container are in the order in which they were put there;     *)
(* what an object without items shows is lit.                              *)
(***************************************************************************)
EXTENDS Integers, Sequences, FiniteSets

(* The text of a container, and the key of what an array holds. *)
NoText == ""

Object(site, lit) == [site |-> site, rc |-> 1, lit |-> lit, items |-> <<>>]

(* An item is an object, or a constant such as kCFBooleanTrue. *)
Item(key, o) == [key |-> key, ref |-> o, lit |-> NoText]
Element(o) == Item(NoText, o)
Constant(key, lit) == [key |-> key, ref |-> 0, lit |-> lit]

(* CFDictionaryCreateMutable, CFDataCreate, ...: the caller owns the new   *)
(* object, which is the last one of the heap.                              *)
New(h, site, lit) == Append(h, Object(site, lit))
NewContainer(h, site) == New(h, site, NoText)

CFRetain(h, o) ==
  IF o = 0 \/ h[o].rc <= 0 THEN h ELSE [h EXCEPT ![o].rc = @ + 1]

(* What the object holds is released by ReleaseItems if it is freed.       *)
CFRelease(h, o) == [h EXCEPT ![o].rc = @ - 1]

(* Where the containers ps hold the object o. *)
Held(h, p, o) == {k \in DOMAIN h[p].items : h[p].items[k].ref = o}
HeldBy(h, ps, o) == UNION {{p} \X Held(h, p, o) : p \in ps}

(* The objects that were freed and still hold what they held. *)
Freed(h) == {o \in 1 .. Len(h) : h[o].rc <= 0 /\ h[o].items # <<>>}

(* A container that is freed releases what it holds. *)
ReleaseItems(h, p) ==
  [o \in 1 .. Len(h) |->
     [h[o] EXCEPT !.rc = @ - Cardinality(HeldBy(h, {p}, o)),
                  !.items = IF o = p THEN <<>> ELSE @]]

(* CFArrayAppendValue *)
Add(h, a, it) == [CFRetain(h, it.ref) EXCEPT ![a].items = Append(@, it)]

(* The item at k is replaced, which releases what it was. *)
Replace(h, d, k, it) ==
  LET old == h[d].items[k].ref
      g == [CFRetain(h, it.ref) EXCEPT ![d].items[k] = it]
  IN  IF old = 0 THEN g ELSE CFRelease(g, old)

(* CFDictionarySetValue: an item with the same key is replaced. *)
Set(h, d, it) ==
  LET same == {k \in DOMAIN h[d].items : h[d].items[k].key = it.key}
  IN  IF same = {} THEN Add(h, d, it) ELSE Replace(h, d, CHOOSE k \in same : TRUE, it)

(* CFDictionaryCreateMutableCopy retains all that the original holds. *)
CopyOf(h, site, p) ==
  Append([o \in 1 .. Len(h) |-> [h[o] EXCEPT !.rc = @ + Cardinality(HeldBy(h, {p}, o))]],
         [Object(site, h[p].lit) EXCEPT !.items = h[p].items])

-----------------------------------------------------------------------------
(* AMGCFDictionarySet...Value: an object is created, put in the dictionary *)
(* and released by the AMCFTypeRef that holds it.                          *)
SetNumber(h, d, key, lit) ==
  LET o == Len(h) + 1 IN
  CFRelease(Set(New(h, "value", lit), d, Item(key, o)), o)

-----------------------------------------------------------------------------
Live(h) == {o \in 1 .. Len(h) : h[o].rc > 0}

(* How often the object o is held by containers that live. *)
Holders(h, o) == Cardinality(HeldBy(h, Live(h), o))

(* What is shown of an object, as deep as d: its own text and that of all  *)
(* it holds.  A graph is a heap, or all else whose items refer to others.  *)
Leaf(lit) == [lit |-> lit, items |-> <<>>]

Unfold(graph, o, below) ==
  [lit   |-> graph[o].lit,
   items |-> [k \in 1 .. Len(graph[o].items) |->
                LET it == graph[o].items[k]
                IN  <<it.key, IF it.ref \in DOMAIN graph THEN below[it.ref] ELSE Leaf(it.lit)>>]]

Tree(graph) ==
  LET at[d \in Nat] ==
        [o \in DOMAIN graph |->
           IF d = 0 THEN Leaf(graph[o].lit) ELSE Unfold(graph, o, at[d - 1])]
  IN at

=============================================================================
