------------------------- MODULE ConversionDataProofs -------------------------
(***************************************************************************)
(* What the commands print is what the data of the records says, however   *)
(* deep it nests.                                                          *)
(*                                                                         *)
(* The containers are filled step by step, in functions that call each     *)
(* other, so the invariant DInv says how far each is: its first items show *)
(* the first items of its node.  A tree does not change when a container   *)
(* is filled that is held by none, which is why nothing refers to what is  *)
(* in the making.                                                          *)
(***************************************************************************)
EXTENDS ConversionData, ConversionProofs

-----------------------------------------------------------------------------
(* What is shown of a graph.                                               *)

(* Trees as deep as l, one level from the other. *)
Deepening(graph, l, f) ==
  /\ f[0] = [o \in DOMAIN graph |-> Leaf(graph[o].lit)]
  /\ \A d \in 0 .. l - 1 : f[d + 1] = [o \in DOMAIN graph |-> Unfold(graph, o, f[d])]

(* There are such trees, for any depth. *)
LEMMA DeepeningExists ==
  ASSUME NEW graph, NEW l \in Nat
  PROVE  \E f : Deepening(graph, l, f)
<1> DEFINE S == {k \in Nat : \E f : Deepening(graph, k, f)}
<1>1. 0 \in S
  <2> DEFINE f == [d \in {0} |-> [o \in DOMAIN graph |-> Leaf(graph[o].lit)]]
  <2>1. Deepening(graph, 0, f)
    BY DEF Deepening
  <2> QED
    BY <2>1
<1>2. ASSUME NEW k \in Nat, k \in S
      PROVE  k + 1 \in S
  <2>1. PICK f : Deepening(graph, k, f)
    BY <1>2
  <2> DEFINE g == [d \in 0 .. k + 1 |->
                     IF d = k + 1 THEN [o \in DOMAIN graph |-> Unfold(graph, o, f[k])] ELSE f[d]]
  <2>2. g[0] = f[0] /\ \A d \in 0 .. k : g[d] = f[d]
    OBVIOUS
  <2>3. g[k + 1] = [o \in DOMAIN graph |-> Unfold(graph, o, g[k])]
    BY <2>2
  <2> HIDE DEF g
  <2>4. Deepening(graph, k + 1, g)
    <3>1. \A d \in 0 .. k : d = k \/ d \in 0 .. k - 1
      OBVIOUS
    <3>2. \A d \in 0 .. k - 1 : d \in 0 .. k /\ d + 1 \in 0 .. k
      OBVIOUS
    <3>3. \A d \in 0 .. k - 1 : g[d + 1] = [o \in DOMAIN graph |-> Unfold(graph, o, g[d])]
      BY <2>1, <2>2, <3>2 DEF Deepening
    <3> QED
      BY <2>1, <2>2, <2>3, <3>1, <3>3 DEF Deepening
  <2> QED
    BY <2>4
<1> HIDE DEF S
<1>3. Nat \subseteq S
  BY <1>1, <1>2, NumbersInOrder
<1> QED
  BY <1>3 DEF S

(* They are the same as far as both go. *)
LEMMA DeepeningsAgree ==
  ASSUME NEW graph, NEW k \in Nat, NEW l \in Nat, NEW f, Deepening(graph, k, f),
         NEW g, Deepening(graph, l, g), NEW d \in Nat, d <= k, d <= l
  PROVE  f[d] = g[d]
<1> DEFINE S == {i \in Nat : i <= k /\ i <= l => f[i] = g[i]}
<1>1. 0 \in S
  BY DEF Deepening
<1>2. ASSUME NEW i \in Nat, i \in S
      PROVE  i + 1 \in S
  <2> SUFFICES ASSUME i + 1 <= k, i + 1 <= l PROVE f[i + 1] = g[i + 1]
    OBVIOUS
  <2>1. i \in 0 .. k - 1 /\ i \in 0 .. l - 1 /\ f[i] = g[i]
    BY <1>2
  <2> QED
    BY <2>1 DEF Deepening
<1> HIDE DEF S
<1>3. Nat \subseteq S
  BY <1>1, <1>2, NumbersInOrder
<1> QED
  BY <1>3 DEF S

(* What the definition of Tree says. *)
LEMMA TreeEquation ==
  ASSUME NEW graph
  PROVE  /\ \A o \in DOMAIN graph : Tree(graph)[0][o] = Leaf(graph[o].lit)
         /\ \A d \in Nat : \A o \in DOMAIN graph :
              Tree(graph)[d + 1][o] = Unfold(graph, o, Tree(graph)[d])
<1> DEFINE pick(l) == CHOOSE f : Deepening(graph, l, f)
           all == [d \in Nat |-> pick(d)[d]]
           Equation(f) == f = [d \in Nat |->
                                 [o \in DOMAIN graph |->
                                    IF d = 0 THEN Leaf(graph[o].lit) ELSE Unfold(graph, o, f[d - 1])]]
<1>1. \A l \in Nat : Deepening(graph, l, pick(l))
  BY DeepeningExists
<1> HIDE DEF pick
<1>2. ASSUME NEW d \in Nat
      PROVE  all[d] = [o \in DOMAIN graph |->
                         IF d = 0 THEN Leaf(graph[o].lit) ELSE Unfold(graph, o, all[d - 1])]
  <2>1. CASE d = 0
    BY <1>1, <2>1 DEF Deepening
  <2>2. CASE d # 0
    <3>1. d - 1 \in Nat /\ d - 1 \in 0 .. d - 1 /\ (d - 1) + 1 = d
      BY <2>2
    <3>2. pick(d)[d] = [o \in DOMAIN graph |-> Unfold(graph, o, pick(d)[d - 1])]
      BY <1>1, <3>1 DEF Deepening
    <3>3. pick(d)[d - 1] = pick(d - 1)[d - 1]
      BY <1>1, <3>1, DeepeningsAgree
    <3> QED
      BY <2>2, <3>1, <3>2, <3>3
  <2> QED
    BY <2>1, <2>2
<1> HIDE DEF all
<1>3. Equation(all)
  <2>1. all = [d \in Nat |-> all[d]]
    BY DEF all
  <2> QED
    BY <1>2, <2>1
<1>4. Equation(Tree(graph))
  <2>1. Tree(graph) = CHOOSE f : Equation(f)
    BY DEF Tree
  <2> HIDE DEF Equation
  <2> QED
    BY <1>3, <2>1
<1> DEFINE f == Tree(graph)
<1> HIDE DEF f
<1>5. f = [d \in Nat |->
             [o \in DOMAIN graph |->
                IF d = 0 THEN Leaf(graph[o].lit) ELSE Unfold(graph, o, f[d - 1])]]
  BY <1>4 DEF f
<1>6. ASSUME NEW o \in DOMAIN graph
      PROVE  f[0][o] = Leaf(graph[o].lit)
  BY <1>5
<1>7. ASSUME NEW d \in Nat, NEW o \in DOMAIN graph
      PROVE  f[d + 1][o] = Unfold(graph, o, f[d])
  <2>1. d + 1 \in Nat /\ d + 1 # 0 /\ (d + 1) - 1 = d
    OBVIOUS
  <2> QED
    BY <1>5, <2>1
<1> QED
  BY <1>6, <1>7 DEF f

-----------------------------------------------------------------------------
(* What a change of the heap leaves of what is shown.                      *)

(* A tree is made of the trees of the items. *)
LEMMA TreeOfItems ==
  ASSUME NEW graph, NEW d \in Nat, NEW o \in DOMAIN graph
  PROVE  Tree(graph)[d + 1][o] =
           [lit   |-> graph[o].lit,
            items |-> [k \in 1 .. Len(graph[o].items) |->
                         <<graph[o].items[k].key, ItemTree(graph, graph[o].items[k], d)>>]]
BY TreeEquation DEF Unfold, ItemTree

(* Objects and their items are numbered from 1. *)
LEMMA HeapDomain ==
  ASSUME NEW h, IsHeap(h)
  PROVE  /\ Len(h) \in Nat /\ DOMAIN h = 1 .. Len(h)
         /\ \A o \in 1 .. Len(h) :
              /\ Len(h[o].items) \in Nat /\ DOMAIN h[o].items = 1 .. Len(h[o].items)
              /\ IsSequence(h[o].items)
              /\ \A k \in 1 .. Len(h[o].items) :
                   IsItem(h[o].items[k], Len(h)) /\ h[o].items[k].ref \in Referred(h)
<1>1. IsSequence(h) /\ \A o \in 1 .. Len(h) : IsSequence(h[o].items)
  BY DEF IsHeap
<1>2. /\ Len(h) \in Nat /\ DOMAIN h = 1 .. Len(h)
      /\ \A o \in 1 .. Len(h) : Len(h[o].items) \in Nat /\ DOMAIN h[o].items = 1 .. Len(h[o].items)
  BY <1>1, SequenceDomain
<1>3. ASSUME NEW o \in 1 .. Len(h), NEW k \in 1 .. Len(h[o].items)
      PROVE  IsItem(h[o].items[k], Len(h)) /\ h[o].items[k].ref \in Referred(h)
  <2>1. h[o].items[k].ref \in Referred(h)
    BY DEF Referred
  <2> QED
    BY <2>1 DEF IsHeap, IsItem
<1> QED
  BY <1>1, <1>2, <1>3

(* What Referred means. *)
LEMMA ReferredMember ==
  ASSUME NEW h, NEW x
  PROVE  x \in Referred(h) <=>
           \E o \in 1 .. Len(h) : \E k \in 1 .. Len(h[o].items) : h[o].items[k].ref = x
BY DEF Referred

(* Only objects that are there are held. *)
LEMMA ReferredThere ==
  ASSUME NEW h, IsHeap(h)
  PROVE  Referred(h) \subseteq 0 .. Len(h)
BY HeapDomain, ReferredMember DEF IsItem

(* Only the objects X hold others than before, and only the objects R are  *)
(* held that were not.                                                     *)
Grown(h, g, X, R) ==
  /\ IsHeap(h) /\ IsHeap(g) /\ Len(h) <= Len(g)
  /\ \A o \in 1 .. Len(h) : g[o].lit = h[o].lit /\ (o \notin X => g[o].items = h[o].items)
  /\ Referred(g) \subseteq Referred(h) \union R

(* Two changes after each other are one. *)
LEMMA GrownTwice ==
  ASSUME NEW h, NEW f, NEW g, NEW X, NEW R, NEW Y, NEW Q, Grown(h, f, X, R), Grown(f, g, Y, Q)
  PROVE  Grown(h, g, X \union Y, R \union Q)
<1>1. Len(h) \in Nat /\ Len(f) \in Nat /\ Len(g) \in Nat
  BY HeapDomain DEF Grown
<1>2. 1 .. Len(h) \subseteq 1 .. Len(f) /\ Len(h) <= Len(g)
  BY <1>1 DEF Grown
<1> QED
  BY <1>2 DEF Grown

(* A change may be said to be of more objects. *)
LEMMA GrownMore ==
  ASSUME NEW h, NEW g, NEW X, NEW R, NEW Y, NEW Q, Grown(h, g, X, R), 
         X \intersect (1 .. Len(h)) \subseteq Y, R \subseteq Q
  PROVE  Grown(h, g, Y, Q)
BY DEF Grown

(* An object that is not of X shows what it did, to any depth. *)
LEMMA GrownTrees ==
  ASSUME NEW h, NEW g, NEW X, NEW R, Grown(h, g, X, R), X \intersect Referred(h) = {}
  PROVE  \A d \in Nat : \A o \in (1 .. Len(h)) \ X : Tree(g)[d][o] = Tree(h)[d][o]
<1> DEFINE S == {d \in Nat : \A o \in (1 .. Len(h)) \ X : Tree(g)[d][o] = Tree(h)[d][o]}
<1>1. /\ DOMAIN h = 1 .. Len(h) /\ DOMAIN g = 1 .. Len(g) /\ 1 .. Len(h) \subseteq 1 .. Len(g)
      /\ \A o \in (1 .. Len(h)) \ X : g[o].lit = h[o].lit /\ g[o].items = h[o].items
  <2>1. Len(h) \in Nat /\ Len(g) \in Nat
    BY HeapDomain DEF Grown
  <2> QED
    BY <2>1, HeapDomain DEF Grown
<1>2. 0 \in S
  <2> SUFFICES ASSUME NEW o \in (1 .. Len(h)) \ X
               PROVE  Tree(g)[0][o] = Tree(h)[0][o]
    OBVIOUS
  <2>1. o \in DOMAIN h /\ o \in DOMAIN g /\ g[o].lit = h[o].lit
    BY <1>1
  <2>2. Tree(g)[0][o] = Leaf(g[o].lit)
    BY <2>1, TreeEquation
  <2>3. Tree(h)[0][o] = Leaf(h[o].lit)
    BY <2>1, TreeEquation
  <2> QED
    BY <2>1, <2>2, <2>3
<1>3. ASSUME NEW d \in Nat, d \in S
      PROVE  d + 1 \in S
  <2> SUFFICES ASSUME NEW o \in (1 .. Len(h)) \ X
               PROVE  Tree(g)[d + 1][o] = Tree(h)[d + 1][o]
    OBVIOUS
  <2>1. o \in DOMAIN h /\ o \in DOMAIN g /\ g[o].lit = h[o].lit /\ g[o].items = h[o].items
    BY <1>1
  <2>2. ASSUME NEW k \in 1 .. Len(h[o].items)
        PROVE  ItemTree(g, h[o].items[k], d) = ItemTree(h, h[o].items[k], d)
    <3>1. h[o].items[k].ref \in 0 .. Len(h) /\ h[o].items[k].ref \notin X
      BY HeapDomain DEF Grown, IsItem
    <3>2. CASE h[o].items[k].ref = 0
      BY <1>1, <3>2 DEF ItemTree
    <3>3. CASE h[o].items[k].ref \in 1 .. Len(h)
      BY <1>1, <1>3, <3>1, <3>3 DEF ItemTree
    <3> QED
      BY <3>1, <3>2, <3>3
  <2>3. /\ Tree(g)[d + 1][o] = [lit |-> g[o].lit, items |->
              [k \in 1 .. Len(g[o].items) |-> <<g[o].items[k].key, ItemTree(g, g[o].items[k], d)>>]]
        /\ Tree(h)[d + 1][o] = [lit |-> h[o].lit, items |->
              [k \in 1 .. Len(h[o].items) |-> <<h[o].items[k].key, ItemTree(h, h[o].items[k], d)>>]]
    BY <2>1, TreeOfItems
  <2> QED
    BY <2>1, <2>2, <2>3
<1> HIDE DEF S
<1>4. Nat \subseteq S
  BY <1>2, <1>3, NumbersInOrder
<1> QED
  BY <1>4 DEF S

(* What Data says of a node. *)
LEMMA DataOfNode ==
  ASSUME NEW r, NEW kind, NEW x, <<kind, x>> \in Nodes(r)
  PROVE  /\ <<kind, x>> \in DOMAIN Data(r) /\ DOMAIN Data(r) = Nodes(r)
         /\ Data(r)[<<kind, x>>].items = Contents(r, kind, x)
         /\ Data(r)[<<kind, x>>].lit = IF kind \in {"plist", "icvp"} THEN r.plist ELSE NoText
<1> DEFINE y == <<kind, x>>
<1>1. y[1] = kind /\ y[2] = x
  OBVIOUS
<1> HIDE DEF y
<1>2. /\ Data(r)[y].items = Contents(r, y[1], y[2]) /\ DOMAIN Data(r) = Nodes(r)
      /\ Data(r)[y].lit = IF y[1] \in {"plist", "icvp"} THEN r.plist ELSE NoText
  BY DEF Data, y
<1> QED
  BY <1>1, <1>2 DEF y

(* The reference of a text leads nowhere. *)
LEMMA TextIsNoNode ==
  ASSUME NEW r
  PROVE  <<"text">> \notin DOMAIN Data(r)
<1>1. DOMAIN Data(r) = Nodes(r)
  BY DEF Data
<1>2. \A S, T : <<"text">> \notin S \X T
  OBVIOUS
<1> QED
  BY <1>1, <1>2 DEF Nodes

(* An item shows what it did if it does not refer to a changed object. *)
LEMMA ShowsKept ==
  ASSUME NEW h, NEW g, NEW X, NEW R, Grown(h, g, X, R), X \intersect Referred(h) = {},
         NEW it, IsItem(it, Len(h)), it.ref \notin X, NEW r, NEW x, Shows(h, it, r, x)
  PROVE  Shows(g, it, r, x)
<1>1. DOMAIN h = 1 .. Len(h) /\ DOMAIN g = 1 .. Len(g) /\ Len(h) \in Nat /\ Len(g) \in Nat /\ Len(h) <= Len(g)
  BY HeapDomain DEF Grown
<1>2. \A d \in Nat : \A o \in (1 .. Len(h)) \ X : Tree(g)[d][o] = Tree(h)[d][o]
  BY GrownTrees
<1>3. ASSUME NEW d \in 0 .. Depth
      PROVE  ItemTree(g, it, d) = ItemTree(h, it, d)
  <2>1. d \in Nat
    BY SizesAssumption
  <2>2. CASE it.ref = 0
    BY <1>1, <2>2 DEF ItemTree
  <2>3. CASE it.ref \in 1 .. Len(h)
    BY <1>1, <1>2, <2>1, <2>3 DEF ItemTree
  <2> QED
    BY <2>2, <2>3, <1>1 DEF IsItem
<1> QED
  BY <1>3 DEF Shows

(* An object without items shows its text. *)
LEMMA LeafTree ==
  ASSUME NEW h, IsHeap(h), NEW o \in 1 .. Len(h), Len(h[o].items) = 0, NEW d \in Nat
  PROVE  Tree(h)[d][o] = Leaf(h[o].lit)
<1>1. o \in DOMAIN h
  BY HeapDomain
<1>2. CASE d = 0
  BY <1>1, <1>2, TreeEquation
<1>3. CASE d # 0
  <2>1. d - 1 \in Nat /\ (d - 1) + 1 = d
    BY <1>3
  <2>2. Tree(h)[d][o] = Unfold(h, o, Tree(h)[d - 1])
    BY <1>1, <2>1, TreeEquation
  <2>3. ASSUME NEW f, DOMAIN f = 1 .. 0, f = [k \in 1 .. 0 |-> f[k]]
        PROVE  f = <<>>
    BY <2>3
  <2> DEFINE f == [k \in 1 .. Len(h[o].items) |->
                LET it == h[o].items[k]
                IN  <<it.key, IF it.ref \in DOMAIN h THEN Tree(h)[d - 1][it.ref] ELSE Leaf(it.lit)>>]
  <2>4. f = <<>>
    <3>1. DOMAIN f = 1 .. 0 /\ f = [k \in 1 .. 0 |-> f[k]]
      OBVIOUS
    <3> HIDE DEF f
    <3> QED
      BY <2>3, <3>1
  <2> QED
    BY <2>2, <2>4 DEF Unfold, Leaf
<1> QED
  BY <1>2, <1>3

(* An item with a text or a number shows it. *)
LEMMA ShowsText ==
  ASSUME NEW h, IsHeap(h), NEW it, NEW r, NEW lit,
         \/ it.ref = 0 /\ it.lit = lit
         \/ it.ref \in 1 .. Len(h) /\ h[it.ref].lit = lit /\ Len(h[it.ref].items) = 0
  PROVE  Shows(h, it, r, Text(it.key, lit))
<1>1. DOMAIN h = 1 .. Len(h)
  BY HeapDomain
<1>2. ASSUME NEW d \in 0 .. Depth
      PROVE  ItemTree(h, it, d) = Leaf(lit)
  <2>1. d \in Nat
    BY SizesAssumption
  <2>2. CASE it.ref = 0 /\ it.lit = lit
    BY <1>1, <2>2 DEF ItemTree
  <2>3. CASE it.ref \in 1 .. Len(h) /\ h[it.ref].lit = lit /\ Len(h[it.ref].items) = 0
    BY <1>1, <2>1, <2>3, LeafTree DEF ItemTree
  <2> QED
    BY <2>2, <2>3
<1>3. \A d \in 0 .. Depth : ItemTree(Data(r), Text(it.key, lit), d) = Leaf(lit)
  BY TextIsNoNode DEF ItemTree, Text
<1> QED
  BY <1>2, <1>3 DEF Shows, Text

(* What is complete shows its part of the record, to any depth. *)
LEMMA CompleteTree ==
  ASSUME NEW h, IsHeap(h), NEW o, NEW r, NEW kind, NEW x, <<kind, x>> \in Nodes(r),
         Complete(h, o, r, kind, x), NEW d \in 0 .. Depth
  PROVE  Tree(h)[d][o] = Tree(Data(r))[d][<<kind, x>>]
<1> DEFINE g == Data(r)
           y == <<kind, x>>
           all == Contents(r, kind, x)
<1>1. y \in DOMAIN g /\ g[y].items = all
  BY DataOfNode
<1>2. /\ o \in DOMAIN h /\ h[o].lit = g[y].lit /\ Len(h[o].items) = Len(all)
      /\ \A k \in 1 .. Len(all) : Shows(h, h[o].items[k], r, all[k])
  BY HeapDomain DEF Complete, Begun
<1>3. Depth \in Nat /\ d \in Nat
  BY SizesAssumption
<1> HIDE DEF g, y, all
<1>4. CASE d = 0
  BY <1>1, <1>2, <1>4, TreeEquation DEF g, y
<1>5. CASE d # 0
  <2>1. d - 1 \in Nat /\ (d - 1) + 1 = d /\ d - 1 \in 0 .. Depth
    BY <1>3, <1>5
  <2>2. ASSUME NEW k \in 1 .. Len(all)
        PROVE  /\ h[o].items[k].key = all[k].key
               /\ ItemTree(h, h[o].items[k], d - 1) = ItemTree(g, all[k], d - 1)
    BY <1>2, <2>1 DEF Shows, g
  <2>3. /\ Tree(h)[d][o] = [lit |-> h[o].lit, items |->
              [k \in 1 .. Len(h[o].items) |-> <<h[o].items[k].key, ItemTree(h, h[o].items[k], d - 1)>>]]
        /\ Tree(g)[d][y] = [lit |-> g[y].lit, items |->
              [k \in 1 .. Len(g[y].items) |-> <<g[y].items[k].key, ItemTree(g, g[y].items[k], d - 1)>>]]
    <3>1. /\ Tree(h)[(d - 1) + 1][o] = [lit |-> h[o].lit, items |->
              [k \in 1 .. Len(h[o].items) |-> <<h[o].items[k].key, ItemTree(h, h[o].items[k], d - 1)>>]]
          /\ Tree(g)[(d - 1) + 1][y] = [lit |-> g[y].lit, items |->
              [k \in 1 .. Len(g[y].items) |-> <<g[y].items[k].key, ItemTree(g, g[y].items[k], d - 1)>>]]
      BY <1>1, <1>2, <2>1, TreeOfItems
    <3> QED
      BY <2>1, <3>1
  <2>4. Tree(h)[d][o] = Tree(g)[d][y]
    BY <1>1, <1>2, <2>2, <2>3
  <2> QED
    BY <2>4 DEF g, y
<1> QED
  BY <1>4, <1>5

(* An item with a complete container shows its part of the record. *)
LEMMA ShowsPart ==
  ASSUME NEW h, IsHeap(h), NEW it, NEW r, NEW kind, NEW x, <<kind, x>> \in Nodes(r),
         Complete(h, it.ref, r, kind, x)
  PROVE  Shows(h, it, r, Part(it.key, <<kind, x>>))
<1>1. it.ref \in DOMAIN h
  BY HeapDomain DEF Complete, Begun
<1>2. \A d \in 0 .. Depth : ItemTree(h, it, d) = Tree(h)[d][it.ref]
  BY <1>1 DEF ItemTree
<1>3. \A d \in 0 .. Depth :
        ItemTree(Data(r), Part(it.key, <<kind, x>>), d) = Tree(Data(r))[d][<<kind, x>>]
  BY DataOfNode DEF ItemTree, Part
<1>4. \A d \in 0 .. Depth : Tree(h)[d][it.ref] = Tree(Data(r))[d][<<kind, x>>]
  BY CompleteTree
<1>5. Part(it.key, <<kind, x>>).key = it.key
  BY DEF Part
<1> QED
  BY <1>2, <1>3, <1>4, <1>5 DEF Shows

(* A container that is not changed is filled as far as it was. *)
LEMMA BegunKept ==
  ASSUME NEW h, NEW g, NEW X, NEW R, Grown(h, g, X, R), X \intersect Referred(h) = {},
         NEW o, o \notin X, NEW r, NEW kind, NEW x, NEW i, Begun(h, o, r, kind, x, i)
  PROVE  Begun(g, o, r, kind, x, i)
<1>1. Len(h) \in Nat /\ Len(g) \in Nat /\ Len(h) <= Len(g)
  BY HeapDomain DEF Grown
<1>2. o \in 1 .. Len(h) /\ o \in 1 .. Len(g) /\ g[o].lit = h[o].lit /\ g[o].items = h[o].items
  BY <1>1 DEF Begun, Grown
<1>3. ASSUME NEW k \in 1 .. i
      PROVE  Shows(g, h[o].items[k], r, Contents(r, kind, x)[k])
  <2>1. k \in 1 .. Len(h[o].items) /\ Shows(h, h[o].items[k], r, Contents(r, kind, x)[k])
    BY DEF Begun
  <2>2. IsItem(h[o].items[k], Len(h)) /\ h[o].items[k].ref \notin X
    BY <1>2, <2>1, HeapDomain DEF Grown
  <2> QED
    BY <2>1, <2>2, ShowsKept
<1> QED
  BY <1>2, <1>3 DEF Begun

(* One item more. *)
LEMMA BegunMore ==
  ASSUME NEW h, NEW g, NEW X, NEW R, Grown(h, g, X, R), X \intersect Referred(h) = {},
         NEW o, NEW r, NEW kind, NEW x, NEW i \in Nat, Begun(h, o, r, kind, x, i),
         NEW it, g[o].items = Append(h[o].items, it), 
         i + 1 <= Len(Contents(r, kind, x)), Shows(g, it, r, Contents(r, kind, x)[i + 1])
  PROVE  Begun(g, o, r, kind, x, i + 1)
<1>1. Len(h) \in Nat /\ Len(g) \in Nat /\ Len(h) <= Len(g)
  BY HeapDomain DEF Grown
<1>2. o \in 1 .. Len(h) /\ o \in 1 .. Len(g) /\ g[o].lit = h[o].lit
  BY <1>1 DEF Begun, Grown
<1>3. /\ Len(g[o].items) = i + 1 /\ g[o].items[i + 1] = it
      /\ \A k \in 1 .. i : g[o].items[k] = h[o].items[k]
  <2>1. IsSequence(h[o].items) /\ Len(h[o].items) = i
    BY <1>2, HeapDomain DEF Grown, Begun
  <2> QED
    BY <2>1, AppendSequence
<1>4. ASSUME NEW k \in 1 .. i + 1
      PROVE  Shows(g, g[o].items[k], r, Contents(r, kind, x)[k])
  <2>1. CASE k = i + 1
    BY <1>3, <2>1
  <2>2. CASE k \in 1 .. i
    <3>1. k \in 1 .. Len(h[o].items) /\ Shows(h, h[o].items[k], r, Contents(r, kind, x)[k])
      BY <2>2 DEF Begun
    <3>2. IsItem(h[o].items[k], Len(h)) /\ h[o].items[k].ref \notin X
      BY <1>2, <3>1, HeapDomain DEF Grown
    <3>3. Shows(g, h[o].items[k], r, Contents(r, kind, x)[k])
      BY <3>1, <3>2, ShowsKept
    <3> QED
      BY <1>3, <2>2, <3>3
  <2>3. k = i + 1 \/ k \in 1 .. i
    OBVIOUS
  <2> QED
    BY <2>1, <2>2, <2>3
<1> QED
  BY <1>2, <1>3, <1>4 DEF Begun

-----------------------------------------------------------------------------
(* The operations of the heap, as far as they change what is shown.        *)

(* A change of items only. *)
LEMMA GrownIf ==
  ASSUME NEW h, IsHeap(h), NEW g, IsHeap(g), Len(g) = Len(h), NEW X, NEW R,
         \A o \in 1 .. Len(h) : g[o].lit = h[o].lit /\ (o \notin X => g[o].items = h[o].items),
         \A o \in 1 .. Len(h) : o \in X =>
           \A k \in 1 .. Len(g[o].items) : g[o].items[k].ref \in Referred(h) \union R
  PROVE  Grown(h, g, X, R)
<1>1. Len(h) \in Nat
  BY HeapDomain
<1>2. ASSUME NEW o \in 1 .. Len(h), NEW k \in 1 .. Len(g[o].items)
      PROVE  g[o].items[k].ref \in Referred(h) \union R
  <2>1. CASE o \notin X
    BY <2>1, HeapDomain
  <2> QED
    BY <2>1
<1>3. Referred(g) \subseteq Referred(h) \union R
  BY <1>2, ReferredMember
<1> QED
  BY <1>1, <1>3 DEF Grown

(* A new object. *)
LEMMA GrowNew ==
  ASSUME NEW h, IsHeap(h), NEW site, NEW lit
  PROVE  LET g == New(h, site, lit) IN
           /\ Grown(h, g, {}, {}) /\ Len(g) = Len(h) + 1
           /\ g[Len(h) + 1].lit = lit /\ Len(g[Len(h) + 1].items) = 0
<1> DEFINE g == New(h, site, lit)
<1>1. /\ IsHeap(g) /\ Len(g) = Len(h) + 1 /\ Len(h) \in Nat
      /\ \A o \in 1 .. Len(h) : g[o] = h[o]
      /\ g[Len(h) + 1].lit = lit /\ g[Len(h) + 1].items = <<>>
  <2>1. /\ IsHeap(g) /\ Len(g) = Len(h) + 1 /\ Len(h) \in Nat
        /\ \A o \in 1 .. Len(h) : g[o] = h[o]
        /\ g[Len(h) + 1] = Object(site, lit)
    BY NewObjects, HeapDomain
  <2>2. Object(site, lit).lit = lit /\ Object(site, lit).items = <<>>
    BY DEF Object
  <2> HIDE DEF g
  <2> QED
    BY <2>1, <2>2
<1> HIDE DEF g
<1>2. Len(g[Len(h) + 1].items) = 0
  BY <1>1
<1>3. Referred(g) \subseteq Referred(h)
  <2> SUFFICES ASSUME NEW o \in 1 .. Len(g), NEW k \in 1 .. Len(g[o].items)
               PROVE  g[o].items[k].ref \in Referred(h)
    BY ReferredMember
  <2>1. CASE o \in 1 .. Len(h)
    BY <1>1, <2>1, HeapDomain
  <2>2. CASE o = Len(h) + 1
    BY <1>2, <2>2
  <2> QED
    BY <1>1, <2>1, <2>2
<1> QED
  BY <1>1, <1>2, <1>3 DEF Grown, g

(* A retained object holds what it did. *)
LEMMA RetainShows ==
  ASSUME NEW h, IsHeap(h), NEW r \in 0 .. Len(h)
  PROVE  LET g == CFRetain(h, r) IN
           /\ IsHeap(g) /\ Len(g) = Len(h)
           /\ \A o \in 1 .. Len(h) : g[o].lit = h[o].lit /\ g[o].items = h[o].items
<1>1. CASE r = 0 \/ h[r].rc <= 0
  BY <1>1 DEF CFRetain
<1>2. CASE r # 0 /\ h[r].rc > 0
  BY <1>2, RetainObjects DEF Changed
<1>3. r # 0 => h[r].rc \in Int
  BY DEF IsHeap
<1> QED
  BY <1>1, <1>2, <1>3

(* A release changes no items. *)
LEMMA GrowRelease ==
  ASSUME NEW h, IsHeap(h), NEW r \in 1 .. Len(h)
  PROVE  Grown(h, CFRelease(h, r), {}, {}) /\ Len(CFRelease(h, r)) = Len(h)
<1> DEFINE g == CFRelease(h, r)
<1>1. /\ IsHeap(g) /\ Len(g) = Len(h)
      /\ \A o \in 1 .. Len(h) : g[o].lit = h[o].lit /\ g[o].items = h[o].items
  BY ReleaseObjects DEF Changed
<1> HIDE DEF g
<1>2. Grown(h, g, {}, {})
  BY <1>1, GrownIf
<1> QED
  BY <1>1, <1>2 DEF g

(* An array has one element more. *)
LEMMA GrowAdd ==
  ASSUME NEW h, IsHeap(h), NEW a \in 1 .. Len(h), NEW it, IsItem(it, Len(h))
  PROVE  LET g == Add(h, a, it) IN
           /\ Grown(h, g, {a}, {it.ref}) /\ Len(g) = Len(h)
           /\ g[a].items = Append(h[a].items, it)
<1> DEFINE f == CFRetain(h, it.ref)
           items == Append(h[a].items, it)
           g == Add(h, a, it)
<1>1. /\ IsHeap(f) /\ Len(f) = Len(h)
      /\ \A o \in 1 .. Len(h) : f[o].lit = h[o].lit /\ f[o].items = h[o].items
  BY RetainShows DEF IsItem
<1>2. g = WithItems(f, a, items)
  BY <1>1 DEF Add, WithItems
<1>3. /\ IsSequence(items) /\ Len(items) = Len(h[a].items) + 1
      /\ \A k \in 1 .. Len(h[a].items) : items[k] = h[a].items[k]
      /\ items[Len(h[a].items) + 1] = it /\ Len(h[a].items) \in Nat
  BY HeapDomain, AppendSequence
<1> HIDE DEF f, items, g
<1>4. ASSUME NEW k \in 1 .. Len(items)
      PROVE  IsItem(items[k], Len(h)) /\ items[k].ref \in Referred(h) \union {it.ref}
  <2>1. k \in 1 .. Len(h[a].items) \/ k = Len(h[a].items) + 1
    BY <1>3
  <2> QED
    BY <1>3, <2>1, HeapDomain
<1>5. /\ IsHeap(g) /\ Len(g) = Len(f)
      /\ \A o \in 1 .. Len(f) :
           Changed(f[o], g[o], f[o].rc, IF o = a THEN items ELSE f[o].items)
  BY <1>1, <1>2, <1>3, <1>4, ItemsObjects
<1>6. /\ \A o \in 1 .. Len(h) : g[o].lit = h[o].lit /\ (o \notin {a} => g[o].items = h[o].items)
      /\ g[a].items = items
  BY <1>1, <1>5 DEF Changed
<1>7. Grown(h, g, {a}, {it.ref})
  BY <1>1, <1>4, <1>5, <1>6, GrownIf
<1> QED
  BY <1>1, <1>5, <1>6, <1>7 DEF g, items

(* An item takes the place of another. *)
LEMMA GrowReplace ==
  ASSUME NEW h, IsHeap(h), NEW d \in 1 .. Len(h), NEW k \in 1 .. Len(h[d].items),
         NEW it, IsItem(it, Len(h))
  PROVE  LET g == Replace(h, d, k, it) IN
           /\ Grown(h, g, {d}, {it.ref}) /\ Len(g) = Len(h)
           /\ g[d].items = With(h[d].items, k, it)
<1> DEFINE f == CFRetain(h, it.ref)
           items == With(h[d].items, k, it)
           e == WithItems(f, d, items)
           old == h[d].items[k].ref
           g == Replace(h, d, k, it)
<1>1. /\ IsHeap(f) /\ Len(f) = Len(h)
      /\ \A o \in 1 .. Len(h) : f[o].lit = h[o].lit /\ f[o].items = h[o].items
  BY RetainShows DEF IsItem
<1>2. g = IF old = 0 THEN e ELSE CFRelease(e, old)
  <2>1. [f EXCEPT ![d].items[k] = it] = e
    BY <1>1 DEF WithItems, With
  <2> QED
    BY <2>1 DEF Replace
<1>3. /\ IsSequence(items) /\ Len(items) = Len(h[d].items) /\ old \in 0 .. Len(h)
      /\ \A l \in 1 .. Len(h[d].items) : items[l] = IF l = k THEN it ELSE h[d].items[l]
  BY HeapDomain, ExceptSequence DEF IsItem
<1> HIDE DEF f, items, g, e
<1>4. ASSUME NEW l \in 1 .. Len(items)
      PROVE  IsItem(items[l], Len(h)) /\ items[l].ref \in Referred(h) \union {it.ref}
  BY <1>3, HeapDomain
<1>5. /\ IsHeap(e) /\ Len(e) = Len(f)
      /\ \A o \in 1 .. Len(f) :
           Changed(f[o], e[o], f[o].rc, IF o = d THEN items ELSE f[o].items)
  BY <1>1, <1>3, <1>4, ItemsObjects DEF e
<1>6. /\ Len(e) = Len(h) /\ e[d].items = items
      /\ \A o \in 1 .. Len(h) : e[o].lit = h[o].lit /\ (o \notin {d} => e[o].items = h[o].items)
  BY <1>1, <1>5 DEF Changed
<1>7. /\ IsHeap(g) /\ Len(g) = Len(h) /\ g[d].items = items
      /\ \A o \in 1 .. Len(h) : g[o].lit = h[o].lit /\ (o \notin {d} => g[o].items = h[o].items)
  <2>1. CASE old = 0
    BY <1>2, <1>5, <1>6, <2>1
  <2>2. CASE old # 0
    <3>1. old \in 1 .. Len(e)
      BY <1>3, <1>6, <2>2
    <3>2. /\ IsHeap(CFRelease(e, old)) /\ Len(CFRelease(e, old)) = Len(e)
          /\ \A o \in 1 .. Len(e) :
               CFRelease(e, old)[o].lit = e[o].lit /\ CFRelease(e, old)[o].items = e[o].items
      BY <1>5, <3>1, ReleaseObjects DEF Changed
    <3> QED
      BY <1>2, <1>6, <2>2, <3>2
  <2> QED
    BY <2>1, <2>2
<1>8. Grown(h, g, {d}, {it.ref})
  BY <1>4, <1>7, GrownIf
<1> QED
  BY <1>7, <1>8 DEF g, items

SameKey(h, d, it) == {k \in DOMAIN h[d].items : h[d].items[k].key = it.key}

(* An item is added under a key that is new. *)
LEMMA GrowSet ==
  ASSUME NEW h, IsHeap(h), NEW d \in 1 .. Len(h), NEW it, IsItem(it, Len(h))
  PROVE  LET g == Set(h, d, it) IN
           /\ Grown(h, g, {d}, {it.ref}) /\ Len(g) = Len(h)
           /\ (\A k \in 1 .. Len(h[d].items) : h[d].items[k].key # it.key)
                => g[d].items = Append(h[d].items, it)
           /\ \A k \in 1 .. Len(h[d].items) :
                SameKey(h, d, it) = {k} => g[d].items = With(h[d].items, k, it)
<1>1. DOMAIN h[d].items = 1 .. Len(h[d].items)
  BY HeapDomain
<1>2. CASE SameKey(h, d, it) = {}
  <2>1. Set(h, d, it) = Add(h, d, it)
    BY <1>2 DEF Set, SameKey
  <2> QED
    BY <1>2, <2>1, GrowAdd
<1>3. CASE SameKey(h, d, it) # {}
  <2> DEFINE k == CHOOSE l \in SameKey(h, d, it) : TRUE
  <2>1. k \in SameKey(h, d, it)
    BY <1>3
  <2>2. Set(h, d, it) = Replace(h, d, k, it)
    BY <1>3 DEF Set, SameKey
  <2> HIDE DEF k
  <2>3. k \in 1 .. Len(h[d].items) /\ h[d].items[k].key = it.key
    BY <1>1, <2>1 DEF SameKey
  <2> DEFINE g == Set(h, d, it)
  <2>4. Grown(h, g, {d}, {it.ref}) /\ Len(g) = Len(h) /\ g[d].items = With(h[d].items, k, it)
    <3> DEFINE e == Replace(h, d, k, it)
    <3>1. Grown(h, e, {d}, {it.ref}) /\ Len(e) = Len(h) /\ e[d].items = With(h[d].items, k, it)
      BY <2>3, GrowReplace
    <3>2. g = e
      BY <2>2
    <3> HIDE DEF e, g
    <3> QED
      BY <3>1, <3>2
  <2> HIDE DEF g
  <2>5. ASSUME NEW l \in 1 .. Len(h[d].items), SameKey(h, d, it) = {l}
        PROVE  g[d].items = With(h[d].items, l, it)
    BY <2>1, <2>4, <2>5
  <2> QED
    BY <2>3, <2>4, <2>5 DEF g
<1> QED
  BY <1>2, <1>3

NumberPut(h, g, d, key, lit) ==
  LET o == Len(h) + 1 IN
    /\ Grown(h, g, {d}, {o}) /\ Len(g) = o
    /\ g[o].lit = lit /\ Len(g[o].items) = 0
    /\ (\A k \in 1 .. Len(h[d].items) : h[d].items[k].key # key)
         => g[d].items = Append(h[d].items, Item(key, o))
    /\ \A k \in 1 .. Len(h[d].items) :
         SameKey(h, d, Item(key, o)) = {k} => g[d].items = With(h[d].items, k, Item(key, o))

(* A number is created, put into a dictionary and released. *)
LEMMA GrowNumber ==
  ASSUME NEW h, IsHeap(h), NEW d \in 1 .. Len(h), NEW key, NEW lit
  PROVE  NumberPut(h, SetNumber(h, d, key, lit), d, key, lit)
<1> DEFINE o == Len(h) + 1
           f == New(h, "value", lit)
           it == Item(key, o)
           e == Set(f, d, it)
           g == CFRelease(e, o)
<1>1. /\ Grown(h, f, {}, {}) /\ Len(f) = o /\ f[o].lit = lit /\ Len(f[o].items) = 0
      /\ Len(h) \in Nat
  BY GrowNew, HeapDomain
<1>2. /\ IsItem(it, o) /\ it.ref = o /\ it.key = key
      /\ d \in 1 .. Len(f) /\ f[d].items = h[d].items /\ d # o
  BY <1>1 DEF Grown, Item, IsItem
<1>3. SameKey(f, d, it) = SameKey(h, d, it)
  BY <1>2 DEF SameKey
<1>4. g = SetNumber(h, d, key, lit)
  BY DEF SetNumber
<1> HIDE DEF f, it
<1>5. /\ Grown(f, e, {d}, {o}) /\ Len(e) = Len(f)
      /\ (\A k \in 1 .. Len(f[d].items) : f[d].items[k].key # it.key)
                => e[d].items = Append(f[d].items, it)
      /\ \A k \in 1 .. Len(f[d].items) :
                SameKey(f, d, it) = {k} => e[d].items = With(f[d].items, k, it)
  <2>1. IsHeap(f) /\ IsItem(it, Len(f))
    BY <1>1, <1>2 DEF Grown
  <2> QED
    BY <1>2, <2>1, GrowSet
<1> HIDE DEF e
<1>6. Grown(e, g, {}, {}) /\ Len(g) = Len(e)
  BY <1>1, <1>5, GrowRelease DEF Grown
<1> HIDE DEF g
<1>7. Grown(h, g, {d}, {o})
  <2>1. Grown(h, e, {d}, {o})
    <3>1. {} \union {d} = {d} /\ {} \union {o} = {o}
      OBVIOUS
    <3> QED
      BY <1>1, <1>5, <3>1, GrownTwice
  <2>2. {d} \union {} = {d} /\ {o} \union {} = {o}
    OBVIOUS
  <2> QED
    BY <1>6, <2>1, <2>2, GrownTwice
<1>8. g[o].lit = lit /\ Len(g[o].items) = 0 /\ g[d].items = e[d].items
  BY <1>1, <1>2, <1>5, <1>6 DEF Grown
<1>9. NumberPut(h, g, d, key, lit)
  BY <1>1, <1>2, <1>3, <1>5, <1>6, <1>7, <1>8 DEF NumberPut, it
<1> QED
  BY <1>4, <1>9

(* A copy has the items of the original. *)
LEMMA GrowCopy ==
  ASSUME NEW h, IsHeap(h), NEW p \in 1 .. Len(h), NEW site
  PROVE  LET g == CopyOf(h, site, p)
             q == Len(h) + 1
         IN  /\ Grown(h, g, {}, {}) /\ Len(g) = q
             /\ g[q].lit = h[p].lit /\ g[q].items = h[p].items
<1> DEFINE g == CopyOf(h, site, p)
           q == Len(h) + 1
           new(o) == [h[o] EXCEPT !.rc = @ + Cardinality(HeldBy(h, {p}, o))]
           f == [o \in 1 .. Len(h) |-> new(o)]
           x == [Object(site, h[p].lit) EXCEPT !.items = h[p].items]
<1>1. Copied(h, g, p, site)
  BY CopyObjects
<1>2. IsHeap(g) /\ Len(g) = q /\ g[q].items = h[p].items /\ Len(h) \in Nat
  BY <1>1, HeapDomain DEF Copied
<1>3. \A o \in 1 .. Len(h) : g[o].lit = h[o].lit /\ g[o].items = h[o].items
  BY <1>1 DEF Copied, Changed
<1>4. g[q].lit = h[p].lit
  <2>1. IsSequence(f) /\ Len(f) = Len(h)
    BY <1>2, MapSequence
  <2>2. x.lit = h[p].lit
    BY DEF Object
  <2>3. g = Append(f, x)
    BY DEF CopyOf
  <2> HIDE DEF f, x, new, g
  <2>4. g[Len(f) + 1] = x
    BY <2>1, <2>3, AppendSequence
  <2> QED
    BY <2>1, <2>2, <2>4
<1> HIDE DEF g
<1>5. Referred(g) \subseteq Referred(h)
  <2> SUFFICES ASSUME NEW o \in 1 .. Len(g), NEW k \in 1 .. Len(g[o].items)
               PROVE  g[o].items[k].ref \in Referred(h)
    BY ReferredMember
  <2>1. CASE o \in 1 .. Len(h)
    BY <1>3, <2>1, HeapDomain
  <2>2. CASE o = q
    BY <1>2, <2>2, HeapDomain
  <2> QED
    BY <1>2, <2>1, <2>2
<1> QED
  BY <1>2, <1>3, <1>4, <1>5 DEF Grown, g

-----------------------------------------------------------------------------
(* Containers that are being filled.                                       *)

(* A container that is being filled. *)
LEMMA BegunThere ==
  ASSUME NEW h, IsHeap(h), NEW o, NEW r, NEW kind, NEW x, NEW i, Begun(h, o, r, kind, x, i)
  PROVE  /\ o \in 1 .. Len(h) /\ i \in Nat /\ Len(h[o].items) = i /\ i <= Len(Contents(r, kind, x))
         /\ \A k \in 1 .. i : h[o].items[k].key = Contents(r, kind, x)[k].key
BY HeapDomain DEF Begun, Shows

(* A new container is filled to no extent. *)
LEMMA BegunNew ==
  ASSUME NEW h, IsHeap(h), NEW site, NEW lit, NEW r, NEW kind, NEW x, <<kind, x>> \in Nodes(r),
         lit = IF kind \in {"plist", "icvp"} THEN r.plist ELSE NoText,
         0 <= Len(Contents(r, kind, x))
  PROVE  Begun(New(h, site, lit), Len(h) + 1, r, kind, x, 0)
<1> DEFINE g == New(h, site, lit)
<1>1. /\ Len(h) \in Nat /\ Len(g) = Len(h) + 1
      /\ g[Len(h) + 1].lit = lit /\ Len(g[Len(h) + 1].items) = 0
  BY GrowNew, HeapDomain
<1> HIDE DEF g
<1>2. g[Len(h) + 1].lit = Data(r)[<<kind, x>>].lit
  BY <1>1, DataOfNode
<1>3. Begun(g, Len(h) + 1, r, kind, x, 0)
  BY <1>1, <1>2 DEF Begun
<1> QED
  BY <1>3 DEF g

(* The next element of an array. *)
LEMMA BegunAdd ==
  ASSUME NEW h, IsHeap(h), NEW d, d \notin Referred(h), NEW r, NEW kind, NEW x, NEW i,
         Begun(h, d, r, kind, x, i), NEW it, IsItem(it, Len(h)), it.ref # d,
         i + 1 <= Len(Contents(r, kind, x)), Shows(h, it, r, Contents(r, kind, x)[i + 1])
  PROVE  Begun(Add(h, d, it), d, r, kind, x, i + 1)
<1> DEFINE g == Add(h, d, it)
<1>1. d \in 1 .. Len(h) /\ i \in Nat
  BY BegunThere
<1>2. Grown(h, g, {d}, {it.ref}) /\ g[d].items = Append(h[d].items, it)
  BY <1>1, GrowAdd
<1> HIDE DEF g
<1>3. {d} \intersect Referred(h) = {} /\ it.ref \notin {d}
  OBVIOUS
<1>4. Shows(g, it, r, Contents(r, kind, x)[i + 1])
  BY <1>2, <1>3, ShowsKept
<1>5. Begun(g, d, r, kind, x, i + 1)
  BY <1>1, <1>2, <1>3, <1>4, BegunMore
<1> QED
  BY <1>5 DEF g

NewKey(r, kind, x, i, key) == \A k \in 1 .. i : Contents(r, kind, x)[k].key # key

(* The next entry of a dictionary, under a key that it does not have. *)
LEMMA BegunSet ==
  ASSUME NEW h, IsHeap(h), NEW d, d \notin Referred(h), NEW r, NEW kind, NEW x, NEW i,
         Begun(h, d, r, kind, x, i), NEW it, IsItem(it, Len(h)), it.ref # d,
         NewKey(r, kind, x, i, it.key),
         i + 1 <= Len(Contents(r, kind, x)), Shows(h, it, r, Contents(r, kind, x)[i + 1])
  PROVE  Begun(Set(h, d, it), d, r, kind, x, i + 1)
<1> DEFINE g == Set(h, d, it)
<1>1. /\ d \in 1 .. Len(h) /\ i \in Nat
      /\ \A k \in 1 .. Len(h[d].items) : h[d].items[k].key # it.key
  BY BegunThere DEF NewKey
<1>2. Grown(h, g, {d}, {it.ref}) /\ g[d].items = Append(h[d].items, it)
  BY <1>1, GrowSet
<1> HIDE DEF g
<1>3. {d} \intersect Referred(h) = {} /\ it.ref \notin {d}
  OBVIOUS
<1>4. Shows(g, it, r, Contents(r, kind, x)[i + 1])
  BY <1>2, <1>3, ShowsKept
<1>5. Begun(g, d, r, kind, x, i + 1)
  BY <1>1, <1>2, <1>3, <1>4, BegunMore
<1> QED
  BY <1>5 DEF g

(* The next entry is a number. *)
LEMMA BegunNumber ==
  ASSUME NEW h, IsHeap(h), NEW d, d \notin Referred(h), NEW r, NEW kind, NEW x, NEW i,
         Begun(h, d, r, kind, x, i), NEW key, NEW lit, NewKey(r, kind, x, i, key),
         i + 1 <= Len(Contents(r, kind, x)), Contents(r, kind, x)[i + 1] = Text(key, lit)
  PROVE  Begun(SetNumber(h, d, key, lit), d, r, kind, x, i + 1)
<1> DEFINE g == SetNumber(h, d, key, lit)
           o == Len(h) + 1
           it == Item(key, o)
<1>1. /\ d \in 1 .. Len(h) /\ i \in Nat
      /\ \A k \in 1 .. Len(h[d].items) : h[d].items[k].key # key
  <2>1. /\ d \in 1 .. Len(h) /\ i \in Nat /\ Len(h[d].items) = i
        /\ \A k \in 1 .. i : h[d].items[k].key = Contents(r, kind, x)[k].key
    BY BegunThere
  <2> QED
    BY <2>1 DEF NewKey
<1>2. /\ Grown(h, g, {d}, {o}) /\ g[d].items = Append(h[d].items, it)
      /\ Len(g) = o /\ g[o].lit = lit /\ Len(g[o].items) = 0
  <2>1. d \in 1 .. Len(h) /\ \A k \in 1 .. Len(h[d].items) : h[d].items[k].key # key
    BY <1>1
  <2>2. NumberPut(h, g, d, key, lit)
    BY <2>1, GrowNumber
  <2> HIDE DEF g
  <2> QED
    BY <2>1, <2>2 DEF NumberPut
<1>3. it.ref = o /\ it.key = key
  BY DEF Item
<1> HIDE DEF g, it
<1>4. IsHeap(g) /\ o \in 1 .. Len(g)
  BY <1>1, <1>2, HeapDomain DEF Grown
<1>5. Shows(g, it, r, Contents(r, kind, x)[i + 1])
  BY <1>2, <1>3, <1>4, ShowsText
<1>6. {d} \intersect Referred(h) = {}
  OBVIOUS
<1>7. Begun(g, d, r, kind, x, i + 1)
  BY <1>1, <1>2, <1>5, <1>6, BegunMore
<1> QED
  BY <1>7 DEF g

(* A constant shows its text. *)
LEMMA ConstantShows ==
  ASSUME NEW h, IsHeap(h), NEW key, NEW lit, NEW r
  PROVE  /\ IsItem(Constant(key, lit), Len(h)) /\ Constant(key, lit).key = key
         /\ Constant(key, lit).ref = 0 /\ Shows(h, Constant(key, lit), r, Text(key, lit))
<1> DEFINE it == Constant(key, lit)
<1>1. DOMAIN it = {"key", "ref", "lit"} /\ it.key = key /\ it.ref = 0 /\ it.lit = lit
  BY DEF Constant
<1> HIDE DEF it
<1>2. Shows(h, it, r, Text(it.key, lit))
  BY <1>1, ShowsText
<1> QED
  BY <1>1, <1>2, HeapDomain DEF IsItem, it

(* An item shows the complete container it holds. *)
LEMMA ItemShows ==
  ASSUME NEW h, IsHeap(h), NEW key, NEW o, NEW r, NEW kind, NEW x, <<kind, x>> \in Nodes(r),
         Complete(h, o, r, kind, x)
  PROVE  /\ IsItem(Item(key, o), Len(h)) /\ Item(key, o).key = key /\ Item(key, o).ref = o
         /\ Shows(h, Item(key, o), r, Part(key, <<kind, x>>))
<1> DEFINE it == Item(key, o)
<1>1. DOMAIN it = {"key", "ref", "lit"} /\ it.key = key /\ it.ref = o
  BY DEF Item
<1> HIDE DEF it
<1>2. o \in 1 .. Len(h)
  BY DEF Complete, Begun
<1>3. Shows(h, it, r, Part(it.key, <<kind, x>>))
  BY <1>1, ShowsPart
<1> QED
  BY <1>1, <1>2, <1>3, HeapDomain DEF IsItem, it

(* A container with all its items is complete. *)
LEMMA CompleteIf ==
  ASSUME NEW h, NEW o, NEW r, NEW kind, NEW x, NEW i, Begun(h, o, r, kind, x, i),
         i = Len(Contents(r, kind, x))
  PROVE  Complete(h, o, r, kind, x)
BY DEF Complete

(* A complete container that is not changed stays so. *)
LEMMA CompleteKept ==
  ASSUME NEW h, NEW g, NEW X, NEW R, Grown(h, g, X, R), X \intersect Referred(h) = {},
         NEW o, o \notin X, NEW r, NEW kind, NEW x, Complete(h, o, r, kind, x)
  PROVE  Complete(g, o, r, kind, x)
BY BegunKept DEF Complete

-----------------------------------------------------------------------------
(* What is to be shown of each part of a record.                           *)

(* What is to be shown of a record as such. *)
LEMMA RecordContents ==
  ASSUME NEW r
  PROVE  LET all == Contents(r, "record", r) IN
           /\ all[1] = Text("fields", r.type)
           /\ DataOf(r) = <<>> => Len(all) = 1
           /\ \A it : DataOf(r) = <<it>> => Len(all) = 2 /\ all[2] = it
<1>1. Contents(r, "record", r) = <<Text("fields", r.type)>> \o DataOf(r)
  BY DEF Contents
<1>2. CASE DataOf(r) = <<>>
  <2>1. Contents(r, "record", r) = <<Text("fields", r.type)>>
    BY <1>1, <1>2, ConcatenatedToOne
  <2>2. \A it : <<>> # <<it>>
    OBVIOUS
  <2> QED
    BY <1>2, <2>1, <2>2
<1>3. ASSUME NEW it, DataOf(r) = <<it>>
      PROVE  LET all == Contents(r, "record", r) IN
               all[1] = Text("fields", r.type) /\ Len(all) = 2 /\ all[2] = it
  <2>1. Contents(r, "record", r) = <<Text("fields", r.type), it>>
    BY <1>1, <1>3, ConcatenatedToOne
  <2> QED
    BY <2>1
<1>4. DataOf(r) = <<>> \/ \E it : DataOf(r) = <<it>>
  BY DEF DataOf
<1>5. \A it : <<>> # <<it>>
  OBVIOUS
<1> QED
  BY <1>2, <1>3, <1>4, <1>5

(* The parts of a record are nodes of its graph. *)
LEMMA NodesAre ==
  ASSUME NEW r
  PROVE  /\ {<<"record", r>>, <<"struct", r>>, <<"plist", r>>, <<"icvp", r>>,
             <<"bookmark", r.mark>>, <<"tocs", r.mark>>} \subseteq Nodes(r)
         /\ \A k \in 1 .. Len(TablesOf(r.mark)) :
              LET t == TablesOf(r.mark)[k] IN
                /\ {<<"toc", t>>, <<"entries", t>>} \subseteq Nodes(r)
                /\ \A j \in 1 .. t.count : <<"entry", t.entries[j]>> \in Nodes(r)
         /\ \A o \in DOMAIN r.mark.items :
              {<<"item", r.mark.items[o]>>, <<"array", r.mark.items[o]>>} \subseteq Nodes(r)
         /\ \A a \in Aliases :
              /\ {<<"alias", a>>, <<"metadata", a>>} \subseteq Nodes(r)
              /\ \A k \in 1 .. Len(a.metadata) :
                   {<<"meta", a.metadata[k]>>, <<"cnids", a.metadata[k]>>} \subseteq Nodes(r)
<1>1. /\ {"record", "struct", "plist", "icvp"} \X {r} \subseteq Nodes(r)
      /\ {"bookmark", "tocs"} \X {r.mark} \subseteq Nodes(r)
      /\ {"toc", "entries"} \X Tables(r.mark) \subseteq Nodes(r)
      /\ {"entry"} \X UNION {EntriesOf(t) : t \in Tables(r.mark)} \subseteq Nodes(r)
      /\ {"item", "array"} \X {r.mark.items[o] : o \in DOMAIN r.mark.items} \subseteq Nodes(r)
      /\ {"alias", "metadata"} \X Aliases \subseteq Nodes(r)
      /\ {"meta", "cnids"} \X UNION {MetadataOf(a) : a \in Aliases} \subseteq Nodes(r)
  BY DEF Nodes
<1>2. ASSUME NEW k \in 1 .. Len(TablesOf(r.mark))
      PROVE  LET t == TablesOf(r.mark)[k] IN
               /\ {<<"toc", t>>, <<"entries", t>>} \subseteq Nodes(r)
               /\ \A j \in 1 .. t.count : <<"entry", t.entries[j]>> \in Nodes(r)
  <2> DEFINE t == TablesOf(r.mark)[k]
  <2>1. t \in Tables(r.mark)
    BY DEF Tables
  <2> HIDE DEF t
  <2>2. \A j \in 1 .. t.count : t.entries[j] \in UNION {EntriesOf(u) : u \in Tables(r.mark)}
    BY <2>1 DEF EntriesOf
  <2>3. /\ {<<"toc", t>>, <<"entries", t>>} \subseteq Nodes(r)
        /\ \A j \in 1 .. t.count : <<"entry", t.entries[j]>> \in Nodes(r)
    BY <1>1, <2>1, <2>2
  <2> QED
    BY <2>3 DEF t
<1>3. ASSUME NEW a \in Aliases
      PROVE  /\ {<<"alias", a>>, <<"metadata", a>>} \subseteq Nodes(r)
             /\ \A k \in 1 .. Len(a.metadata) :
                  {<<"meta", a.metadata[k]>>, <<"cnids", a.metadata[k]>>} \subseteq Nodes(r)
  <2>1. \A k \in 1 .. Len(a.metadata) : a.metadata[k] \in UNION {MetadataOf(b) : b \in Aliases}
    BY DEF MetadataOf
  <2> QED
    BY <1>1, <2>1
<1>4. \A o \in DOMAIN r.mark.items :
        {<<"item", r.mark.items[o]>>, <<"array", r.mark.items[o]>>} \subseteq Nodes(r)
  BY <1>1
<1>5. {<<"record", r>>, <<"struct", r>>, <<"plist", r>>, <<"icvp", r>>,
             <<"bookmark", r.mark>>, <<"tocs", r.mark>>} \subseteq Nodes(r)
  BY <1>1
<1> QED
  BY <1>2, <1>3, <1>4, <1>5

-----------------------------------------------------------------------------
(* Steps that leave what the other activations are making.                 *)

(* An activation whose variables are not changed has made what it had. *)
LEMMA FrameFilledKept ==
  ASSUME NEW h, NEW g, NEW X, NEW R, Grown(h, g, X, R), X \intersect Referred(h) = {},
         NEW fr, X \intersect Locals(fr) = {}, 0 \notin X, NEW r, FrameFilled(h, r, fr)
  PROVE  FrameFilled(g, r, fr)
<1>1. fr.obj \notin X /\ fr.arr \notin X /\ fr.sub \notin X /\ fr.subarr \notin X
  BY LocalsAre
<1>2. \A kind, x, i : Begun(h, fr.obj, r, kind, x, i) => Begun(g, fr.obj, r, kind, x, i)
  BY <1>1, BegunKept
<1>3. \A kind, x, i : Begun(h, fr.arr, r, kind, x, i) => Begun(g, fr.arr, r, kind, x, i)
  BY <1>1, BegunKept
<1>4. \A kind, x, i : Begun(h, fr.sub, r, kind, x, i) => Begun(g, fr.sub, r, kind, x, i)
  BY <1>1, BegunKept
<1>5. \A kind, x, i : Begun(h, fr.subarr, r, kind, x, i) => Begun(g, fr.subarr, r, kind, x, i)
  BY <1>1, BegunKept
<1>6. ASSUME CopyBegun(h, fr.sub, r)
      PROVE  CopyBegun(g, fr.sub, r)
  <2>1. Len(h) \in Nat /\ Len(g) \in Nat /\ Len(h) <= Len(g)
    BY HeapDomain DEF Grown
  <2>2. /\ fr.sub \in 1 .. Len(h) /\ fr.sub \in 1 .. Len(g)
        /\ g[fr.sub].lit = h[fr.sub].lit /\ g[fr.sub].items = h[fr.sub].items
        /\ 1 \in 1 .. Len(h[fr.sub].items)
    BY <1>1, <1>6, <2>1 DEF CopyBegun, Grown
  <2>3. IsItem(h[fr.sub].items[1], Len(h)) /\ h[fr.sub].items[1].ref \notin X
    BY <2>2, HeapDomain DEF Grown
  <2>4. Shows(g, h[fr.sub].items[1], r, Text("view", "icons"))
    BY <1>6, <2>3, ShowsKept DEF CopyBegun
  <2> QED
    BY <1>6, <2>2, <2>4 DEF CopyBegun
<1> QED
  BY <1>2, <1>3, <1>4, <1>5, <1>6 DEF FrameFilled

(* What the step may change, and what it may put into containers.          *)
Changeable == Hand \union (Len(heap) + 1 .. Len(heap'))

(* What the activations and the caller are making. *)
LEMMA HandInTheMaking ==
  ASSUME IInv, DInv
  PROVE  /\ Hand \subseteq InTheMaking /\ LocalsBelow \subseteq InTheMaking
         /\ Nonzero({records}) \subseteq InTheMaking
         /\ 0 \notin InTheMaking /\ InTheMaking \subseteq 1 .. Len(heap)
         /\ InTheMaking = Hand \union LocalsBelow \union Nonzero({records})
         /\ plist \notin LocalsBelow \union Nonzero({records})
         /\ Hand \intersect (LocalsBelow \union Nonzero({plist, records})) = {}
         /\ Len(heap) \in Nat /\ IsHeap(heap)
<1>1. /\ Owned = Rest \union Hand /\ Rest \intersect Hand = {} /\ 0 \notin Owned
      /\ Owned \subseteq 1 .. Len(heap)
  BY OwnedSplit DEF IInv, HeapOK, Balanced
<1>2. LocalsFrom(stack) = LocalsBelow \union (IF stack = <<>> THEN {} ELSE Locals(Top))
  <2>1. /\ Len(stack) \in Nat /\ (stack = <<>> <=> Len(stack) = 0)
        /\ stack # <<>> => Len(stack) \in 1 .. Len(stack) /\ Len(stack) - 1 \in Nat
    BY StackFacts DEF IInv
  <2>2. CASE stack = <<>>
    BY <2>1, <2>2 DEF LocalsFrom, LocalsBelow
  <2>3. CASE stack # <<>>
    <3>1. 1 .. Len(stack) = (1 .. Len(stack) - 1) \union {Len(stack)}
      BY <2>1, <2>3
    <3> QED
      BY <2>3, <3>1 DEF LocalsFrom, LocalsBelow, Top
  <2> QED
    BY <2>2, <2>3
<1>3. 0 \notin LocalsFrom(stack)
  BY DEF LocalsFrom, Locals
<1>4. InTheMaking = LocalsFrom(stack) \union Nonzero(Given) \union Nonzero({records})
  BY DEF InTheMaking, Nonzero
<1>5. Hand = (IF stack = <<>> THEN {} ELSE Locals(Top)) \union Nonzero(Given)
  BY DEF Hand
<1>6. InTheMaking = Hand \union LocalsBelow \union Nonzero({records})
  BY <1>2, <1>4, <1>5
<1>7. Rest = LocalsBelow \union Nonzero({plist, records})
  BY DEF Rest
<1>8. plist \notin LocalsBelow \union Nonzero({records})
  BY <1>2, <1>3 DEF IInv, OwnersDistinct, Nonzero
<1>9. Len(heap) \in Nat /\ IsHeap(heap)
  BY HeapDomain DEF IInv, HeapOK
<1>10. InTheMaking \subseteq Owned
  BY <1>1, <1>6, <1>7 DEF Nonzero
<1> QED
  BY <1>1, <1>6, <1>7, <1>8, <1>9, <1>10

(* The array of the records that are done is not changed. *)
LEMMA CollectedKept ==
  ASSUME CollectedOK, UNCHANGED <<recs, records, NumberDone>>, NEW X, NEW R,
         Grown(heap, heap', X, R), X \intersect Referred(heap) = {}, records \notin X,
         records \in 0 .. Len(heap)
  PROVE  CollectedOK'
<1> SUFFICES ASSUME records # 0 PROVE CollectedOK'
  BY DEF CollectedOK
<1>1. Len(heap) \in Nat /\ Len(heap') \in Nat /\ Len(heap) <= Len(heap')
  BY HeapDomain DEF Grown
<1>2. records \in 1 .. Len(heap) /\ heap'[records].items = heap[records].items
  BY <1>1 DEF Grown
<1>3. Depth \in Nat
  BY SizesAssumption
<1>4. ASSUME NEW k \in 1 .. Len(heap[records].items)
      PROVE  LET o == heap[records].items[k].ref IN
               /\ o \in 1 .. Len(heap')
               /\ Tree(heap')[Depth][o] = Tree(heap)[Depth][o]
  <2>1. heap[records].items[k].ref \in 1 .. Len(heap)
    BY DEF CollectedOK
  <2>2. heap[records].items[k].ref \notin X
    BY <1>2, HeapDomain DEF Grown
  <2> QED
    BY <1>1, <1>3, <2>1, <2>2, GrownTrees
<1> QED
  BY <1>2, <1>4 DEF CollectedOK

(* A step of an activation changes neither the records nor the output. *)
LEMMA DataStep ==
  ASSUME IInv, DInv, UNCHANGED caller, NEW X, NEW R, Grown(heap, heap', X, R),
         X \intersect Referred(heap) = {}, records \notin X,
         Referred(heap) \intersect InTheMaking' = {}, R \intersect InTheMaking' = {}, ContentsOK'
  PROVE  DInv'
<1>1. UNCHANGED <<mode, recs, n, step, records, printed, NumberDone>>
  BY DEF caller, NumberDone
<1>2. PrintedMirrorsData' /\ IsSequence(printed')
  BY <1>1 DEF DInv, PrintedMirrorsData
<1>3. records \in 0 .. Len(heap)
  BY DEF IInv, TypeOK
<1>4. CollectedOK'
  BY <1>1, <1>3, CollectedKept DEF DInv
<1>5. (Referred(heap) \intersect InTheMaking = {})'
  BY DEF Grown
<1> QED
  BY <1>2, <1>4, <1>5 DEF DInv

(* What a step may change is held by no container and in no other's hands. *)
LEMMA ChangeableFacts ==
  ASSUME IInv, DInv, NEW X, X \subseteq Changeable
  PROVE  /\ X \intersect Referred(heap) = {} /\ records \notin X /\ 0 \notin X
         /\ X \intersect LocalsBelow = {}
<1>1. Referred(heap) \subseteq 0 .. Len(heap) /\ Referred(heap) \intersect InTheMaking = {}
  BY HandInTheMaking, ReferredThere DEF DInv
<1>2. Len(heap) \in Nat
  BY HandInTheMaking
<1>3. \A o \in Len(heap) + 1 .. Len(heap') : o > Len(heap) /\ o # 0
  BY <1>2
<1>4. LocalsBelow \subseteq 1 .. Len(heap) /\ 0 \notin Hand /\ Nonzero({records}) \subseteq 1 .. Len(heap)
  BY HandInTheMaking
<1>5. ASSUME NEW o \in Changeable
      PROVE  o \notin Referred(heap) /\ o # 0 /\ o \notin LocalsBelow /\ o \notin Nonzero({records})
  <2>1. CASE o \in Hand
    BY <1>1, <1>4, <2>1, HandInTheMaking DEF Nonzero
  <2>2. CASE o \in Len(heap) + 1 .. Len(heap')
    <3>1. o > Len(heap) /\ o # 0
      BY <1>3, <2>2
    <3>2. o \notin 0 .. Len(heap) /\ o \notin 1 .. Len(heap)
      BY <1>2, <3>1
    <3>3. o \notin Referred(heap)
      BY <1>1, <3>2
    <3>4. o \notin LocalsBelow /\ o \notin Nonzero({records})
      BY <1>4, <3>2
    <3> QED
      BY <3>1, <3>3, <3>4
  <2> QED
    BY <2>1, <2>2 DEF Changeable
<1> QED
  BY <1>5 DEF Nonzero

(* What is put into containers, and is in none of the others' hands. *)
Puts(R, S) == R \subseteq Changeable \union {0, plist} /\ R \intersect S = {}

(* What is put into containers is not in the making any more. *)
LEMMA PutsApart ==
  ASSUME IInv, DInv, NEW R, NEW S, Puts(R, S), 0 \notin S, plist \notin S
  PROVE  R \intersect (LocalsBelow \union Nonzero({records}) \union S) = {}
<1>1. Changeable \intersect LocalsBelow = {} /\ records \notin Changeable
  BY ChangeableFacts
<1>2. 0 \notin LocalsBelow \union Nonzero({records}) /\ plist \notin LocalsBelow \union Nonzero({records})
  BY HandInTheMaking
<1> QED
  BY <1>1, <1>2 DEF Puts, Nonzero

(* The other activations have made what they had. *)
LEMMA BelowFilled ==
  ASSUME IInv, DInv, stack # <<>>, DatesValid(Rec), NEW X, X \subseteq Changeable,
         NEW R, Grown(heap, heap', X, R), NEW k \in 1 .. Len(stack) - 1
  PROVE  FrameFilled(heap', Rec, stack[k])
<1>1. k \in 1 .. Len(stack) /\ step = "convert"
  BY StackFacts, ConvertFacts DEF IInv
<1>2. FrameFilled(heap, Rec, stack[k])
  BY <1>1 DEF DInv, ContentsOK
<1>3. Locals(stack[k]) \subseteq LocalsBelow
  BY DEF LocalsBelow
<1>4. /\ X \intersect Locals(stack[k]) = {} /\ 0 \notin X
      /\ X \intersect Referred(heap) = {}
  BY <1>3, ChangeableFacts
<1> QED
  BY <1>2, <1>4, FrameFilledKept

(* The running activation goes on with fr. *)
LEMMA GotoData ==
  ASSUME IInv, DInv, stack # <<>>, NEW fr, Goto(fr), NEW X, X \subseteq Changeable,
         NEW R, Puts(R, Locals(fr)), Grown(heap, heap', X, R),
         Locals(fr) \subseteq Changeable,
         DatesValid(Rec) => FrameFilled(heap', Rec, fr)
  PROVE  DInv'
<1>1. IsSequence(stack) /\ Len(stack) \in 1 .. Len(stack) /\ Len(stack) \in Nat
  BY StackFacts DEF IInv, StackOK
<1>2. stack' = With(stack, Len(stack), fr)
  BY DEF Goto, SetTop, With
<1>3. /\ IsSequence(stack') /\ Len(stack') = Len(stack)
      /\ \A k \in 1 .. Len(stack) : stack'[k] = IF k = Len(stack) THEN fr ELSE stack[k]
  BY <1>1, <1>2, ExceptSequence
<1>4. UNCHANGED caller /\ ret' = <<>> /\ Rec' = Rec /\ records' = records
  BY RecKept DEF Goto, caller
<1>5. InTheMaking' = LocalsBelow \union Nonzero({records}) \union Locals(fr)
  <2>1. LocalsFrom(stack') = LocalsBelow \union Locals(fr)
    <3>1. 1 .. Len(stack) = (1 .. Len(stack) - 1) \union {Len(stack)}
      BY <1>1
    <3>2. \A k \in 1 .. Len(stack) - 1 : stack'[k] = stack[k]
      BY <1>1, <1>3
    <3> QED
      BY <1>1, <1>3, <3>1, <3>2 DEF LocalsFrom, LocalsBelow
  <2>2. 0 \notin LocalsFrom(stack')
    BY DEF LocalsFrom, Locals
  <2> QED
    BY <1>4, <2>1, <2>2 DEF InTheMaking, Given, Nonzero
<1>6. 0 \notin Locals(fr) /\ plist \notin Locals(fr)
  <2>1. plist \in 0 .. Len(heap)
    BY DEF IInv, TypeOK
  <2>2. \A o \in Locals(fr) : o # 0 /\ (o \in Hand \/ o > Len(heap))
    BY HandInTheMaking DEF Changeable, Locals
  <2> QED
    BY <2>1, <2>2, HandInTheMaking DEF Nonzero
<1>7. R \intersect InTheMaking' = {}
  BY <1>5, <1>6, PutsApart
<1>8. Referred(heap) \intersect InTheMaking' = {}
  <2>1. Referred(heap) \intersect Locals(fr) = {}
    BY ChangeableFacts
  <2> QED
    BY <1>5, <2>1, HandInTheMaking DEF DInv
<1>9. ContentsOK'
  <2> SUFFICES ASSUME DatesValid(Rec), NEW k \in 1 .. Len(stack)
               PROVE  FrameFilled(heap', Rec, stack'[k])
    BY <1>3, <1>4 DEF ContentsOK
  <2>1. CASE k = Len(stack)
    BY <1>3, <2>1
  <2>2. CASE k # Len(stack)
    <3>1. k \in 1 .. Len(stack) - 1
      BY <1>1, <2>2
    <3> QED
      BY <1>3, <2>2, <3>1, BelowFilled
  <2> QED
    BY <2>1, <2>2
<1> QED
  BY <1>4, <1>7, <1>8, <1>9, ChangeableFacts, DataStep

(* It calls what it waits for then. *)
LEMMA CallData ==
  ASSUME IInv, DInv, stack # <<>>, ret = <<>>, NEW fr, NEW fn, NEW arg, Call(fr, fn, arg),
         NEW X, X \subseteq Changeable,
         NEW R, Puts(R, Locals(fr)), Grown(heap, heap', X, R),
         Locals(fr) \subseteq Changeable,
         DatesValid(Rec) => FrameFilled(heap', Rec, fr)
  PROVE  DInv'
<1> DEFINE st == With(stack, Len(stack), fr)
           callee == Frame(fn, arg)
<1>1. IsSequence(stack) /\ Len(stack) \in 1 .. Len(stack) /\ Len(stack) \in Nat
  BY StackFacts DEF IInv, StackOK
<1>2. stack' = Append(st, callee)
  BY DEF Call, SetTop, With
<1>3. /\ IsSequence(st) /\ Len(st) = Len(stack)
      /\ \A k \in 1 .. Len(stack) : st[k] = IF k = Len(stack) THEN fr ELSE stack[k]
  BY <1>1, ExceptSequence
<1> HIDE DEF st
<1>0. callee.fn = fn /\ callee.pc = "enter" /\ Locals(callee) = {}
  BY LocalsAre DEF Frame
<1> HIDE DEF callee
<1>10. /\ Len(stack') = Len(stack) + 1
       /\ \A k \in 1 .. Len(stack) : stack'[k] = IF k = Len(stack) THEN fr ELSE stack[k]
       /\ stack'[Len(stack) + 1] = callee
  <2>1. /\ Len(stack') = Len(st) + 1
        /\ \A k \in 1 .. Len(st) : stack'[k] = st[k]
        /\ stack'[Len(st) + 1] = callee
    BY <1>2, <1>3, AppendSequence
  <2> QED
    BY <1>3, <2>1
<1>4. UNCHANGED caller /\ ret' = <<>> /\ Rec' = Rec /\ records' = records
  BY RecKept DEF Call, caller
<1>5. InTheMaking' = LocalsBelow \union Nonzero({records}) \union Locals(fr)
  <2>1. LocalsFrom(stack') = LocalsBelow \union Locals(fr)
    <3>1. 1 .. Len(stack) + 1 = (1 .. Len(stack) - 1) \union {Len(stack), Len(stack) + 1}
      BY <1>1
    <3>2. \A k \in 1 .. Len(stack) - 1 : stack'[k] = stack[k]
      BY <1>1, <1>10
    <3> QED
      BY <1>0, <1>1, <1>10, <3>1, <3>2 DEF LocalsFrom, LocalsBelow
  <2>2. 0 \notin LocalsFrom(stack')
    BY DEF LocalsFrom, Locals
  <2> QED
    BY <1>4, <2>1, <2>2 DEF InTheMaking, Given, Nonzero
<1>6. 0 \notin Locals(fr) /\ plist \notin Locals(fr)
  <2>1. plist \in 0 .. Len(heap)
    BY DEF IInv, TypeOK
  <2>2. \A o \in Locals(fr) : o # 0 /\ (o \in Hand \/ o > Len(heap))
    BY HandInTheMaking DEF Changeable, Locals
  <2> QED
    BY <2>1, <2>2, HandInTheMaking DEF Nonzero
<1>7. R \intersect InTheMaking' = {}
  BY <1>5, <1>6, PutsApart
<1>8. Referred(heap) \intersect InTheMaking' = {}
  <2>1. Referred(heap) \intersect Locals(fr) = {}
    BY ChangeableFacts
  <2> QED
    BY <1>5, <2>1, HandInTheMaking DEF DInv
<1>9. ContentsOK'
  <2> SUFFICES ASSUME DatesValid(Rec), NEW k \in 1 .. Len(stack) + 1
               PROVE  FrameFilled(heap', Rec, stack'[k])
    BY <1>10, <1>4 DEF ContentsOK
  <2>1. CASE k = Len(stack)
    BY <1>1, <1>10, <2>1
  <2>2. CASE k \in 1 .. Len(stack) - 1
    BY <1>1, <1>10, <2>2, BelowFilled
  <2>3. CASE k = Len(stack) + 1
    BY <1>0, <1>10, <2>3 DEF FrameFilled, In
  <2>4. k = Len(stack) \/ k \in 1 .. Len(stack) - 1 \/ k = Len(stack) + 1
    BY <1>1
  <2> QED
    BY <2>1, <2>2, <2>3, <2>4
<1> QED
  BY <1>4, <1>7, <1>8, <1>9, ChangeableFacts, DataStep

(* It returns to the one that waits for it. *)
LEMMA ReturnData ==
  ASSUME IInv, SInv, DInv, stack # <<>>, NEW o, Return(o), NEW X, X \subseteq Changeable,
         NEW R, Puts(R, {o} \ {0}), Grown(heap, heap', X, R),
         o = 0 \/ o \in Changeable,
         DatesValid(Rec) => o = 0 \/ Complete(heap', o, Rec, Top.fn, Top.arg)
  PROVE  DInv'
<1> DEFINE len == Len(stack)
<1>1. IsSequence(stack) /\ len \in 1 .. len /\ len \in Nat /\ len # 0
  BY StackFacts DEF IInv, StackOK
<1>2. stack' = SubSeq(stack, 1, len - 1) /\ ret' = <<o>> /\ UNCHANGED caller /\ Ret' = o
  BY DEF Return, Ret
<1>3. IsSequence(stack') /\ Len(stack') = len - 1 /\ \A k \in 1 .. len - 1 : stack'[k] = stack[k]
  BY <1>1, <1>2, ButLast
<1>4. Rec' = Rec /\ records' = records
  BY <1>2, RecKept DEF caller
<1>5. InTheMaking' = LocalsBelow \union Nonzero({records}) \union ({o} \ {0})
  <2>1. LocalsFrom(stack') = LocalsBelow
    BY <1>3 DEF LocalsFrom, LocalsBelow
  <2>2. 0 \notin LocalsFrom(stack')
    BY DEF LocalsFrom, Locals
  <2> QED
    BY <1>2, <1>4, <2>1, <2>2 DEF InTheMaking, Given, Nonzero
<1>6. plist \notin {o} \ {0}
  <2>1. plist \in 0 .. Len(heap)
    BY DEF IInv, TypeOK
  <2>2. o # 0 => (o \in Hand \/ o > Len(heap))
    BY HandInTheMaking DEF Changeable
  <2> QED
    BY <2>1, <2>2, HandInTheMaking DEF Nonzero
<1>7. R \intersect InTheMaking' = {}
  BY <1>5, <1>6, PutsApart
<1>8. Referred(heap) \intersect InTheMaking' = {}
  <2>1. Referred(heap) \intersect ({o} \ {0}) = {}
    BY ChangeableFacts
  <2> QED
    BY <1>5, <2>1, HandInTheMaking DEF DInv
<1>9. Awaited' = CallOf(Top)
  <2>1. CASE len = 1
    <3>1. stack' = <<>>
      BY <1>3, <2>1, EmptyOrNot
    <3>2. CallOf(Top) = Root(Rec)
      BY <2>1, RunFacts DEF Root, CallOf
    <3> QED
      BY <1>4, <3>1, <3>2 DEF Awaited
  <2>2. CASE len # 1
    <3>1. len - 1 \in 1 .. len - 1 /\ (len - 1) + 1 = len
      <4>1. len \in Nat /\ len # 0 /\ len # 1
        BY <1>1, <2>2
      <4> HIDE DEF len
      <4> QED
        BY <4>1
    <3>2. Top' = stack[len - 1] /\ stack' # <<>>
      BY <1>3, <3>1, EmptyOrNot DEF Top
    <3>3. CallOf(Top) = Pending(Rec, Top')
      BY <3>1, <3>2 DEF SInv, LevelsOK, Top
    <3> QED
      BY <1>4, <3>2, <3>3 DEF Awaited
  <2> QED
    BY <2>1, <2>2
<1>10. ContentsOK'
  <2> SUFFICES ASSUME DatesValid(Rec)
               PROVE  /\ \A k \in 1 .. len - 1 : FrameFilled(heap', Rec, stack'[k])
                      /\ o # 0 => Complete(heap', o, Rec, Awaited'.fn, Awaited'.arg)
    BY <1>2, <1>3, <1>4 DEF ContentsOK
  <2>1. Awaited'.fn = Top.fn /\ Awaited'.arg = Top.arg
    BY <1>9 DEF CallOf, Activation
  <2>2. \A k \in 1 .. len - 1 : FrameFilled(heap', Rec, stack'[k])
    BY <1>3, BelowFilled
  <2> QED
    BY <2>1, <2>2
<1> QED
  BY <1>2, <1>7, <1>8, <1>10, ChangeableFacts, DataStep

(* A step that only stops the program. *)
LEMMA HaltData ==
  ASSUME DInv, UNCHANGED <<heap, stack, ret, caller>>
  PROVE  DInv'
<1>1. UNCHANGED <<mode, recs, n, step, plist, records, printed, heap, stack, ret>>
  BY DEF caller
<1>2. UNCHANGED <<Rec, Top, Ret>>
  BY <1>1 DEF Rec, Top, Ret
<1>3. PrintedMirrorsData' /\ CollectedOK' /\ IsSequence(printed')
  BY <1>1 DEF DInv, PrintedMirrorsData, CollectedOK, NumberDone
<1>4. ContentsOK'
  BY <1>1, <1>2 DEF DInv, ContentsOK, Awaited
<1>5. (Referred(heap) \intersect InTheMaking = {})'
  BY <1>1, <1>2 DEF DInv, InTheMaking, Given
<1> QED
  BY <1>3, <1>4, <1>5 DEF DInv

-----------------------------------------------------------------------------
(* A step goes on from heap to heap: it changes only what it has in hand,  *)
(* and what it will have in hand, S, is put into no container.             *)

Puttable(S) == (Changeable \union {0, plist}) \ S

Going(h, S) == Grown(heap, h, Changeable, Puttable(S))

KeepsBegun(h, g, d) ==
  \A o, r, kind, x, i : o # d /\ Begun(h, o, r, kind, x, i) => Begun(g, o, r, kind, x, i)

(* No change is a change of any objects. *)
LEMMA GrownNotAtAll ==
  ASSUME NEW h, IsHeap(h), NEW X, NEW R
  PROVE  Grown(h, h, X, R)
BY HeapDomain DEF Grown

(* A container other than d is filled as far as it was. *)
LEMMA KeptIf ==
  ASSUME NEW h, NEW g, NEW R, NEW d, Grown(h, g, {d}, R), d \notin Referred(h)
  PROVE  KeepsBegun(h, g, d)
<1>1. {d} \intersect Referred(h) = {} /\ \A o : o # d => o \notin {d}
  OBVIOUS
<1> QED
  BY <1>1, BegunKept DEF KeepsBegun

(* If nothing is changed, every container is filled as far as it was. *)
LEMMA KeptAll ==
  ASSUME NEW h, NEW g, NEW R, Grown(h, g, {}, R)
  PROVE  \A d : KeepsBegun(h, g, d)
<1>1. {} \intersect Referred(h) = {} /\ \A o : o \notin {}
  OBVIOUS
<1> QED
  BY <1>1, BegunKept DEF KeepsBegun

(* A step begins with the heap as it is. *)
LEMMA GoingStarts ==
  ASSUME IInv, NEW S
  PROVE  Going(heap, S) /\ IsHeap(heap) /\ Len(heap) \in Nat
BY GrownNotAtAll, HeapDomain DEF Going, IInv, HeapOK

(* The heap has only grown. *)
LEMMA GoingFacts ==
  ASSUME NEW h, NEW S, Going(h, S)
  PROVE  /\ IsHeap(h) /\ IsHeap(heap) /\ Len(h) \in Nat /\ Len(heap) \in Nat /\ Len(heap) <= Len(h)
         /\ \A o \in 1 .. Len(heap) : o \in 1 .. Len(h)
<1>1. /\ IsHeap(h) /\ IsHeap(heap) /\ Len(h) \in Nat /\ Len(heap) \in Nat /\ Len(heap) <= Len(h)
  BY HeapDomain DEF Going, Grown
<1> QED
  BY <1>1

(* What will be in hand may be said to be less. *)
LEMMA GoingLess ==
  ASSUME NEW h, NEW S, Going(h, S), NEW T \in SUBSET S
  PROVE  Going(h, T)
<1>1. Puttable(S) \subseteq Puttable(T)
  BY DEF Puttable
<1>2. Changeable \intersect (1 .. Len(heap)) \subseteq Changeable
  OBVIOUS
<1> QED
  BY <1>1, <1>2, GrownMore DEF Going

(* No container holds what is in hand. *)
LEMMA NotReferred ==
  ASSUME IInv, DInv, NEW h, NEW S, Going(h, S), NEW d \in S, d \in Changeable
  PROVE  d \notin Referred(h)
<1>1. d \notin Referred(heap)
  BY ChangeableFacts
<1> QED
  BY <1>1 DEF Going, Grown, Puttable

(* The step goes on with another change. *)
LEMMA GoOn ==
  ASSUME NEW h, NEW S, Going(h, S), NEW g, NEW X, NEW R, Grown(h, g, X, R),
         X \subseteq Changeable, R \subseteq Puttable(S)
  PROVE  Going(g, S)
<1>1. Grown(heap, g, Changeable \union X, Puttable(S) \union R)
  BY GrownTwice DEF Going
<1>2. (Changeable \union X) \intersect (1 .. Len(heap)) \subseteq Changeable
  OBVIOUS
<1>3. Puttable(S) \union R \subseteq Puttable(S)
  OBVIOUS
<1> QED
  BY <1>1, <1>2, <1>3, GrownMore DEF Going

(* It creates an object. *)
LEMMA GoOnNew ==
  ASSUME NEW h, NEW S, Going(h, S), NEW site, NEW lit
  PROVE  /\ Going(New(h, site, lit), S) /\ Len(New(h, site, lit)) = Len(h) + 1
         /\ \A d : KeepsBegun(h, New(h, site, lit), d)
<1> DEFINE g == New(h, site, lit)
<1>1. IsHeap(h)
  BY GoingFacts
<1>2. Grown(h, g, {}, {}) /\ Len(g) = Len(h) + 1
  BY <1>1, GrowNew
<1> HIDE DEF g
<1>3. Going(g, S)
  BY <1>2, GoOn
<1>4. \A d : KeepsBegun(h, g, d)
  BY <1>2, KeptAll
<1> QED
  BY <1>2, <1>3, <1>4 DEF g

(* It releases one. *)
LEMMA GoOnRelease ==
  ASSUME NEW h, NEW S, Going(h, S), NEW o \in 1 .. Len(h)
  PROVE  /\ Going(CFRelease(h, o), S) /\ Len(CFRelease(h, o)) = Len(h)
         /\ \A d : KeepsBegun(h, CFRelease(h, o), d)
<1>1. Grown(h, CFRelease(h, o), {}, {}) /\ Len(CFRelease(h, o)) = Len(h)
  BY GoingFacts, GrowRelease
<1> QED
  BY <1>1, GoOn, KeptAll

(* It adds an element to an array. *)
LEMMA GoOnAdd ==
  ASSUME NEW h, NEW S, Going(h, S), NEW d \in 1 .. Len(h), d \in Changeable,
         NEW it, IsItem(it, Len(h)), it.ref \in Puttable(S)
  PROVE  /\ Going(Add(h, d, it), S) /\ Len(Add(h, d, it)) = Len(h)
         /\ d \notin Referred(h) => KeepsBegun(h, Add(h, d, it), d)
<1> DEFINE g == Add(h, d, it)
<1>1. Grown(h, g, {d}, {it.ref}) /\ Len(g) = Len(h)
  BY GoingFacts, GrowAdd
<1> HIDE DEF g
<1>2. Going(g, S)
  BY <1>1, GoOn
<1>3. d \notin Referred(h) => KeepsBegun(h, g, d)
  BY <1>1, KeptIf
<1> QED
  BY <1>1, <1>2, <1>3 DEF g

(* It sets an entry of a dictionary. *)
LEMMA GoOnSet ==
  ASSUME NEW h, NEW S, Going(h, S), NEW d \in 1 .. Len(h), d \in Changeable,
         NEW it, IsItem(it, Len(h)), it.ref \in Puttable(S)
  PROVE  /\ Going(Set(h, d, it), S) /\ Len(Set(h, d, it)) = Len(h)
         /\ d \notin Referred(h) => KeepsBegun(h, Set(h, d, it), d)
<1> DEFINE g == Set(h, d, it)
<1>1. Grown(h, g, {d}, {it.ref}) /\ Len(g) = Len(h)
  BY GoingFacts, GrowSet
<1> HIDE DEF g
<1>2. Going(g, S)
  BY <1>1, GoOn
<1>3. d \notin Referred(h) => KeepsBegun(h, g, d)
  BY <1>1, KeptIf
<1> QED
  BY <1>1, <1>2, <1>3 DEF g

(* It sets a number in a dictionary. *)
LEMMA GoOnNumber ==
  ASSUME NEW h, NEW S, Going(h, S), NEW d \in 1 .. Len(h), d \in Changeable,
         NEW key, NEW lit, Len(h) + 1 \in Puttable(S)
  PROVE  /\ Going(SetNumber(h, d, key, lit), S) /\ Len(SetNumber(h, d, key, lit)) = Len(h) + 1
         /\ d \notin Referred(h) => KeepsBegun(h, SetNumber(h, d, key, lit), d)
<1> DEFINE g == SetNumber(h, d, key, lit)
<1>1. NumberPut(h, g, d, key, lit)
  BY GoingFacts, GrowNumber
<1> HIDE DEF g
<1>2. Grown(h, g, {d}, {Len(h) + 1}) /\ Len(g) = Len(h) + 1
  BY <1>1 DEF NumberPut
<1>3. Going(g, S)
  BY <1>2, GoOn
<1>4. d \notin Referred(h) => KeepsBegun(h, g, d)
  BY <1>2, KeptIf
<1> QED
  BY <1>2, <1>3, <1>4 DEF g

(* It copies a list. *)
LEMMA GoOnCopy ==
  ASSUME NEW h, NEW S, Going(h, S), NEW p \in 1 .. Len(h), NEW site
  PROVE  /\ Going(CopyOf(h, site, p), S) /\ Len(CopyOf(h, site, p)) = Len(h) + 1
         /\ \A d : KeepsBegun(h, CopyOf(h, site, p), d)
<1> DEFINE g == CopyOf(h, site, p)
<1>1. Grown(h, g, {}, {}) /\ Len(g) = Len(h) + 1
  BY GoingFacts, GrowCopy
<1> HIDE DEF g
<1>2. Going(g, S)
  BY <1>1, GoOn
<1>3. \A d : KeepsBegun(h, g, d)
  BY <1>1, KeptAll
<1> QED
  BY <1>1, <1>2, <1>3 DEF g

(* New objects are in hand. *)
LEMMA NewChangeable ==
  ASSUME IInv, NEW o \in Int, o > Len(heap), o <= Len(heap'), Len(heap') \in Nat, NEW S
  PROVE  o \in Changeable /\ (o \notin S => o \in Puttable(S)) /\ o # 0 /\ o # plist
<1>1. Len(heap) \in Nat /\ plist \in 0 .. Len(heap)
  BY HeapDomain DEF IInv, HeapOK, TypeOK
<1> QED
  BY <1>1 DEF Changeable, Puttable

(* What is in hand may be changed and put into containers. *)
LEMMA HandChangeable ==
  ASSUME IInv, DInv, NEW o \in Hand, NEW S
  PROVE  o \in Changeable /\ (o \notin S => o \in Puttable(S)) /\ o # 0 /\ o \in 1 .. Len(heap)
BY HandInTheMaking DEF Changeable, Puttable

(* So may the empty reference, and the record's list. *)
LEMMA NothingPuttable ==
  ASSUME NEW S, 0 \notin S
  PROVE  0 \in Puttable(S) /\ (plist \notin S => plist \in Puttable(S))
BY DEF Puttable

(* What a container has when it is made. *)
LEMMA OpenBegun ==
  ASSUME NEW h, IsHeap(h), NEW site, NEW key, NEW lit, NEW r, NEW kind, NEW x,
         kind \notin {"plist", "icvp"}, <<kind, x>> \in Nodes(r),
         1 <= Len(Contents(r, kind, x)), Contents(r, kind, x)[1] = Text(key, lit)
  PROVE  Begun(SetNumber(NewContainer(h, site), Len(h) + 1, key, lit), Len(h) + 1, r, kind, x, 1)
<1> DEFINE g == NewContainer(h, site)
           d == Len(h) + 1
           all == Contents(r, kind, x)
<1>0. Len(h) \in Nat /\ Referred(h) \subseteq 0 .. Len(h)
  BY HeapDomain, ReferredThere
<1>1. Grown(h, g, {}, {}) /\ Len(g) = d
  BY GrowNew DEF NewContainer
<1>2. 0 <= Len(all)
  OBVIOUS
<1>3. Begun(g, d, r, kind, x, 0)
  BY <1>2, BegunNew DEF NewContainer
<1>4. d \notin Referred(g)
  BY <1>0, <1>1 DEF Grown
<1>5. IsHeap(g)
  BY <1>1 DEF Grown
<1> HIDE DEF g, d, all
<1>6. NewKey(r, kind, x, 0, key)
  BY DEF NewKey
<1>7. 0 + 1 <= Len(Contents(r, kind, x)) /\ Contents(r, kind, x)[0 + 1] = Text(key, lit)
  OBVIOUS
<1>8. Begun(SetNumber(g, d, key, lit), d, r, kind, x, 0 + 1)
  BY <1>3, <1>4, <1>5, <1>6, <1>7, BegunNumber
<1> QED
  BY <1>8 DEF g, d

-----------------------------------------------------------------------------
(* What the record functions make.                                         *)

(* What the running activation has made, and what was returned to it. *)
LEMMA TopFilled ==
  ASSUME IInv, DInv, stack # <<>>, DatesValid(Rec)
  PROVE  /\ FrameFilled(heap, Rec, Top)
         /\ ret # <<>> /\ Ret # 0 =>
              Complete(heap, Ret, Rec, Pending(Rec, Top).fn, Pending(Rec, Top).arg)
<1>1. step = "convert" /\ Len(stack) \in 1 .. Len(stack)
  BY ConvertFacts, StackFacts DEF IInv
<1> QED
  BY <1>1 DEF DInv, ContentsOK, Awaited, Top

(* A dictionary of a record has a first entry. *)
LEMMA DataOfRecord ==
  ASSUME NEW r
  PROVE  1 <= Len(Contents(r, "record", r))
<1>1. DataOf(r) = <<>> \/ \E it : DataOf(r) = <<it>>
  BY DEF DataOf
<1>2. CASE DataOf(r) = <<>>
  <2>1. Len(Contents(r, "record", r)) = 1
    BY <1>2, RecordContents
  <2> QED
    BY <2>1
<1>3. ASSUME NEW it, DataOf(r) = <<it>>
      PROVE  1 <= Len(Contents(r, "record", r))
  <2>1. Len(Contents(r, "record", r)) = 2
    BY <1>3, RecordContents
  <2> QED
    BY <2>1
<1> QED
  BY <1>1, <1>2, <1>3

(* The dictionary of a record with its fields. *)
LEMMA OpenedData ==
  ASSUME IInv, SInv, DInv, At("record", "enter"), Len(heap') \in Nat, Len(heap) + 2 <= Len(heap'),
         NEW S, Dict \in S, Len(heap) + 2 \notin S
  PROVE  /\ Going(Opened, S) /\ Len(Opened) = Len(heap) + 2 /\ IsHeap(Opened)
         /\ Dict \in 1 .. Len(Opened) /\ Dict \in Changeable /\ Dict # 0
         /\ Begun(Opened, Dict, Rec, "record", Rec, 1) /\ Dict \notin Referred(Opened)
         /\ Len(heap) \in Nat /\ KeepsBegun(heap, Opened, Dict)
<1> DEFINE g == NewContainer(heap, "dict")
<1>1. Going(heap, S) /\ IsHeap(heap) /\ Len(heap) \in Nat
  BY GoingStarts
<1>2. Going(g, S) /\ Len(g) = Len(heap) + 1 /\ KeepsBegun(heap, g, Dict)
  BY <1>1, GoOnNew DEF NewContainer
<1>3. Dict \in Changeable /\ Dict # 0 /\ Len(heap) + 2 \in Puttable(S)
  BY <1>1, NewChangeable DEF Dict
<1>4. Dict \in 1 .. Len(g) /\ Dict = Len(heap) + 1 /\ Len(g) + 1 = Len(heap) + 2
  BY <1>1, <1>2 DEF Dict
<1> HIDE DEF g
<1>5. Opened = SetNumber(g, Dict, "fields", Rec.type)
  BY RecordLevels DEF Opened, g
<1>9. Dict \notin Referred(g)
  BY <1>2, <1>3, NotReferred
<1>6. Going(Opened, S) /\ Len(Opened) = Len(heap) + 2 /\ KeepsBegun(g, Opened, Dict)
  BY <1>2, <1>3, <1>4, <1>5, <1>9, GoOnNumber
<1>10. KeepsBegun(heap, Opened, Dict)
  BY <1>2, <1>6 DEF KeepsBegun
<1>7. Dict \notin Referred(Opened)
  BY <1>3, <1>6, NotReferred
<1>8. Begun(Opened, Dict, Rec, "record", Rec, 1)
  <2>1. <<"record", Rec>> \in Nodes(Rec)
    BY NodesAre
  <2>2. 1 <= Len(Contents(Rec, "record", Rec))
    BY DataOfRecord
  <2>3. Contents(Rec, "record", Rec)[1] = Text("fields", Rec.type)
    BY RecordContents
  <2> QED
    BY <1>1, <1>4, <1>5, <2>1, <2>2, <2>3, OpenBegun DEF g
<1> QED
  BY <1>1, <1>3, <1>4, <1>6, <1>7, <1>8, <1>10, GoingFacts

(* ds_record_copy_dictionary returns a complete dictionary. *)
LEMMA RecordReturnsData ==
  ASSUME IInv, SInv, DInv, At("record", "enter"), Return(Dict), Going(heap', {Dict}),
         Dict \in Changeable, DatesValid(Rec) => Complete(heap', Dict, Rec, "record", Rec)
  PROVE  DInv'
<1>1. stack # <<>> /\ Top.fn = "record" /\ Top.arg = Rec /\ Dict # 0
  BY RecordLevels
<1>2. Puts(Puttable({Dict}), {Dict} \ {0})
  BY DEF Puts, Puttable
<1> QED
  BY <1>1, <1>2, ReturnData DEF Going

(* The record's data is in the dictionary. *)
LEMMA DataPut ==
  ASSUME NEW h, NEW r, NEW it, NEW d, Begun(h, d, r, "record", r, 2), DataOf(r) = <<it>>
  PROVE  Complete(h, d, r, "record", r)
BY RecordContents, CompleteIf

(* The data is the next entry after the fields. *)
LEMMA DataNext ==
  ASSUME NEW r, NEW it, DataOf(r) = <<it>>, it.key = "data"
  PROVE  /\ 1 + 1 <= Len(Contents(r, "record", r)) /\ Contents(r, "record", r)[1 + 1] = it
         /\ NewKey(r, "record", r, 1, "data")
<1>1. Len(Contents(r, "record", r)) = 2 /\ Contents(r, "record", r)[2] = it
  BY RecordContents
<1>2. Contents(r, "record", r)[1] = Text("fields", r.type)
  BY RecordContents
<1>3. Contents(r, "record", r)[1].key = "fields"
  BY <1>2 DEF Text
<1> QED
  BY <1>1, <1>3 DEF NewKey

(* The data is put as a number. *)
LEMMA RecordNumberData ==
  ASSUME IInv, SInv, DInv, At("record", "enter"), Return(Dict),
         heap' = SetNumber(Opened, Dict, "data", Rec.lit), DataOf(Rec) = <<Text("data", Rec.lit)>>
  PROVE  DInv'
<1>0. Len(heap) \in Nat /\ Len(Opened) = Len(heap) + 2
  BY AtFacts, OpenedFits
<1>1. Len(heap') = Len(heap) + 3 /\ Len(heap') \in Nat
  <2>1. IsHeap(Opened) /\ Dict \in 1 .. Len(Opened)
    BY OpenedFits DEF GoodHeap
  <2>2. NumberPut(Opened, heap', Dict, "data", Rec.lit)
    BY <2>1, GrowNumber
  <2> QED
    BY <1>0, <2>2 DEF NumberPut
<1>2. /\ Going(Opened, {Dict}) /\ IsHeap(Opened) /\ Dict \in 1 .. Len(Opened)
      /\ Dict \in Changeable /\ Begun(Opened, Dict, Rec, "record", Rec, 1) /\ Dict \notin Referred(Opened)
  BY <1>0, <1>1, OpenedData DEF Dict
<1>3. Len(Opened) + 1 \in Puttable({Dict})
  BY <1>0, <1>1, NewChangeable DEF Dict
<1>4. Going(heap', {Dict})
  BY <1>2, <1>3, GoOnNumber
<1>5. Begun(heap', Dict, Rec, "record", Rec, 1 + 1)
  <2>1. Text("data", Rec.lit).key = "data"
    BY DEF Text
  <2> QED
    BY <1>2, <2>1, DataNext, BegunNumber
<1>6. Complete(heap', Dict, Rec, "record", Rec)
  BY <1>5, DataPut
<1> QED
  BY <1>2, <1>4, <1>6, RecordReturnsData

(* The data is put as an object or a constant. *)
LEMMA RecordSetData ==
  ASSUME IInv, SInv, DInv, At("record", "enter"), Return(Dict), NEW it, NEW h, heap' = Set(h, Dict, it),
         Going(h, {Dict}), Dict \in 1 .. Len(h), Dict \in Changeable,
         DatesValid(Rec) => Begun(h, Dict, Rec, "record", Rec, 1),
         IsItem(it, Len(h)), it.ref \in Puttable({Dict}), it.key = "data",
         NEW x, DataOf(Rec) = <<x>>, x.key = "data", DatesValid(Rec) => Shows(h, it, Rec, x)
  PROVE  DInv'
<1>1. Dict \notin Referred(h)
  BY NotReferred
<1>2. Going(heap', {Dict})
  BY GoOnSet
<1>3. it.ref # Dict
  BY DEF Puttable
<1>4. ASSUME DatesValid(Rec)
      PROVE  Complete(heap', Dict, Rec, "record", Rec)
  <2>1. IsHeap(h)
    BY GoingFacts
  <2>2. /\ 1 + 1 <= Len(Contents(Rec, "record", Rec)) /\ Contents(Rec, "record", Rec)[1 + 1] = x
        /\ NewKey(Rec, "record", Rec, 1, "data")
    BY DataNext
  <2>3. Begun(heap', Dict, Rec, "record", Rec, 1 + 1)
    BY <1>1, <1>3, <1>4, <2>1, <2>2, BegunSet
  <2> QED
    BY <2>3, DataPut
<1> QED
  BY <1>2, <1>4, RecordReturnsData

LEMMA RecordScalarData ==
  ASSUME IInv, SInv, DInv, RecordScalar
  PROVE  DInv'
<1>1. At("record", "enter") /\ Return(Dict) /\ Top.arg = Rec
  BY RecordLevels DEF RecordScalar
<1>2. Rec.data_type # "blob" /\ DataOf(Rec) = <<Text("data", Rec.lit)>>
  BY <1>1 DEF RecordScalar, DataOf
<1>3. CASE Rec.data_type # "bool"
  BY <1>1, <1>2, <1>3, RecordNumberData DEF RecordScalar
<1>4. CASE Rec.data_type = "bool"
  <2> DEFINE it == Constant("data", Rec.lit)
  <2>1. heap' = Set(Opened, Dict, it)
    BY <1>1, <1>4 DEF RecordScalar
  <2>2. /\ IsHeap(Opened) /\ Dict \in 1 .. Len(Opened) /\ Len(Opened) = Len(heap) + 2
        /\ Len(heap) \in Nat
    BY <1>1, AtFacts, OpenedFits DEF GoodHeap
  <2>3. IsItem(it, Len(Opened)) /\ it.key = "data" /\ it.ref = 0
        /\ Shows(Opened, it, Rec, Text("data", Rec.lit))
    BY <2>2, ConstantShows
  <2> HIDE DEF it
  <2>4. Len(heap') = Len(heap) + 2
    <3>1. Len(Set(Opened, Dict, it)) = Len(Opened)
      BY <2>2, <2>3, GrowSet
    <3> QED
      BY <2>1, <2>2, <3>1
  <2>5. /\ Going(Opened, {Dict}) /\ Dict \in Changeable /\ Dict # 0
        /\ Begun(Opened, Dict, Rec, "record", Rec, 1)
    BY <1>1, <2>2, <2>4, OpenedData DEF Dict
  <2>6. it.ref \in Puttable({Dict}) /\ Text("data", Rec.lit).key = "data"
    BY <2>3, <2>5, NothingPuttable DEF Text
  <2> QED
    BY <1>1, <1>2, <2>1, <2>2, <2>3, <2>5, <2>6, RecordSetData
<1> QED
  BY <1>3, <1>4

(* How many objects there are after each operation. *)
LEMMA Lengths ==
  ASSUME NEW h, IsHeap(h)
  PROVE  /\ Len(h) \in Nat
         /\ \A site, lit : IsHeap(New(h, site, lit)) /\ Len(New(h, site, lit)) = Len(h) + 1
         /\ \A o \in 1 .. Len(h) :
              /\ IsHeap(CFRelease(h, o)) /\ Len(CFRelease(h, o)) = Len(h)
              /\ \A key, lit : IsHeap(SetNumber(h, o, key, lit))
                                 /\ Len(SetNumber(h, o, key, lit)) = Len(h) + 1
              /\ \A it : IsItem(it, Len(h)) =>
                   /\ IsHeap(Set(h, o, it)) /\ Len(Set(h, o, it)) = Len(h)
                   /\ IsHeap(Add(h, o, it)) /\ Len(Add(h, o, it)) = Len(h)
              /\ \A site : IsHeap(CopyOf(h, site, o)) /\ Len(CopyOf(h, site, o)) = Len(h) + 1
<1>1. Len(h) \in Nat
  BY HeapDomain
<1>2. ASSUME NEW site, NEW lit
      PROVE  IsHeap(New(h, site, lit)) /\ Len(New(h, site, lit)) = Len(h) + 1
  BY GrowNew DEF Grown
<1>3. ASSUME NEW o \in 1 .. Len(h)
      PROVE  IsHeap(CFRelease(h, o)) /\ Len(CFRelease(h, o)) = Len(h)
  BY GrowRelease DEF Grown
<1>4. ASSUME NEW o \in 1 .. Len(h), NEW key, NEW lit
      PROVE  IsHeap(SetNumber(h, o, key, lit)) /\ Len(SetNumber(h, o, key, lit)) = Len(h) + 1
  BY GrowNumber DEF NumberPut, Grown
<1>5. ASSUME NEW o \in 1 .. Len(h), NEW it, IsItem(it, Len(h))
      PROVE  /\ IsHeap(Set(h, o, it)) /\ Len(Set(h, o, it)) = Len(h)
             /\ IsHeap(Add(h, o, it)) /\ Len(Add(h, o, it)) = Len(h)
  <2>1. IsHeap(Set(h, o, it)) /\ Len(Set(h, o, it)) = Len(h)
    BY <1>5, GrowSet DEF Grown
  <2>2. IsHeap(Add(h, o, it)) /\ Len(Add(h, o, it)) = Len(h)
    BY <1>5, GrowAdd DEF Grown
  <2> QED
    BY <2>1, <2>2
<1>6. ASSUME NEW o \in 1 .. Len(h), NEW site
      PROVE  IsHeap(CopyOf(h, site, o)) /\ Len(CopyOf(h, site, o)) = Len(h) + 1
  BY GrowCopy DEF Grown
<1> QED
  BY <1>1, <1>2, <1>3, <1>4, <1>5, <1>6

LEMMA RecordDateData ==
  ASSUME IInv, SInv, DInv, RecordDate
  PROVE  DInv'
<1>1. At("record", "enter") /\ stack # <<>> /\ Top.arg = Rec /\ Top.fn = "record"
  BY RecordLevels DEF RecordDate
<1>2. CASE Rec.lit = "invalid"
  <2>1. heap' = Opened /\ Return(0)
    BY <1>1, <1>2 DEF RecordDate
  <2>2. Len(heap') = Len(heap) + 2 /\ Len(heap) \in Nat
    BY <1>1, <2>1, AtFacts, OpenedFits
  <2>3. Going(heap', {Dict})
    BY <1>1, <2>1, <2>2, OpenedData DEF Dict
  <2>4. Going(heap', {})
    BY <2>3, GoingLess
  <2>5. Puts(Puttable({}), {0} \ {0})
    BY DEF Puts, Puttable
  <2> QED
    BY <1>1, <2>1, <2>4, <2>5, ReturnData DEF Going
<1>3. CASE Rec.lit # "invalid"
  <2>1. heap' = SetNumber(Opened, Dict, "data", Rec.lit) /\ Return(Dict)
    BY <1>1, <1>3 DEF RecordDate
  <2>2. Rec.data_type # "blob" /\ DataOf(Rec) = <<Text("data", Rec.lit)>>
    BY <1>1 DEF RecordDate, DataOf
  <2> QED
    BY <1>1, <2>1, <2>2, RecordNumberData
<1> QED
  BY <1>2, <1>3

LEMMA RecordDataData ==
  ASSUME IInv, SInv, DInv, RecordData
  PROVE  DInv'
<1>1. /\ At("record", "enter") /\ Return(Dict) /\ Top.arg = Rec /\ Rec.plist = "none"
      /\ Rec.data_type = "blob" /\ Rec.type \in Others
      /\ heap' = SetNumber(Opened, Dict, "data", Rec.lit)
  BY RecordLevels DEF RecordData, BlobOf
<1>2. DataOf(Rec) = <<Text("data", Rec.lit)>>
  BY <1>1 DEF DataOf, Others, Structs
<1> QED
  BY <1>1, <1>2, RecordNumberData

LEMMA RecordWrongSizeData ==
  ASSUME IInv, SInv, DInv, RecordWrongSize
  PROVE  DInv'
<1>1. At("record", "enter") /\ Return(Dict) /\ Top.arg = Rec /\ heap' = Opened
  BY RecordLevels DEF RecordWrongSize, BlobOf
<1>2. DataOf(Rec) = <<>>
  <2>1. CASE Rec.type \in Structs /\ Rec.data_type = "blob" /\ Rec.size # StructSize(Rec.type)
    BY <2>1 DEF DataOf, Structs, Others
  <2>2. CASE Rec.type = "pBBk" /\ Rec.data_type = "blob" /\ Rec.size > BookmarkSize
    BY <2>2 DEF DataOf, Structs, Others
  <2> QED
    BY <1>1, <2>1, <2>2 DEF RecordWrongSize, BlobOf
<1>3. Len(heap') = Len(heap) + 2 /\ Len(heap) \in Nat
  BY <1>1, AtFacts, OpenedFits
<1>4. /\ Going(heap', {Dict}) /\ Dict \in Changeable
      /\ Begun(heap', Dict, Rec, "record", Rec, 1)
  BY <1>1, <1>3, OpenedData DEF Dict
<1>5. Len(Contents(Rec, "record", Rec)) = 1
  BY <1>2, RecordContents
<1> QED
  BY <1>1, <1>4, <1>5, CompleteIf, RecordReturnsData

LEMMA RecordStructData ==
  ASSUME IInv, SInv, DInv, RecordStruct
  PROVE  DInv'
<1> DEFINE g == NewContainer(Opened, "struct")
           d == Len(g)
           f == IF Rec.lit = "DefB" THEN g ELSE SetNumber(g, d, "fields", Rec.lit)
           h == Set(f, Dict, Item("data", d))
<1>1. /\ At("record", "enter") /\ Return(Dict) /\ Top.arg = Rec /\ Rec.data_type = "blob"
      /\ Rec.type \in Structs /\ Rec.size = StructSize(Rec.type)
  BY RecordLevels DEF RecordStruct, BlobOf
<1>2. heap' = CFRelease(h, d)
  BY <1>1 DEF RecordStruct
<1>3. DataOf(Rec) = <<Part("data", <<"struct", Rec>>)>>
  BY <1>1 DEF DataOf, Structs, Others
<1>4. /\ IsHeap(Opened) /\ Dict \in 1 .. Len(Opened) /\ Len(Opened) = Len(heap) + 2
      /\ Len(heap) \in Nat
  BY <1>1, AtFacts, OpenedFits DEF GoodHeap
<1>5. IsHeap(g) /\ d = Len(heap) + 3
  BY <1>4, Lengths DEF NewContainer
<1> HIDE DEF g, d
<1>6. IsHeap(f) /\ Len(f) \in Nat /\ Len(f) >= d /\ Len(f) <= d + 1
      /\ (Rec.lit # "DefB" => Len(f) = d + 1)
  <2>1. CASE Rec.lit = "DefB"
    BY <1>4, <1>5, <2>1 DEF d
  <2>2. CASE Rec.lit # "DefB"
    <3>1. d \in 1 .. Len(g) /\ Len(g) = d
      BY <1>4, <1>5 DEF d
    <3>2. f = SetNumber(g, d, "fields", Rec.lit)
      BY <2>2
    <3> HIDE DEF f
    <3>3. IsHeap(f) /\ Len(f) = Len(g) + 1
      <4>1. NumberPut(g, f, d, "fields", Rec.lit)
        BY <1>5, <3>1, <3>2, GrowNumber
      <4> QED
        BY <3>1, <4>1 DEF NumberPut, Grown
    <3> QED
      BY <1>4, <1>5, <3>1, <3>3, <2>2
  <2> QED
    BY <2>1, <2>2
<1> HIDE DEF f
<1>7. IsItem(Item("data", d), Len(f)) /\ Item("data", d).ref = d /\ Item("data", d).key = "data"
  <2>1. d \in 0 .. Len(f) /\ Len(f) \in Nat
    BY <1>4, <1>5, <1>6
  <2> QED
    BY <2>1, ItemIsItem DEF Item
<1>8. Dict \in 1 .. Len(f) /\ Dict = Len(heap) + 1 /\ Dict # d
  BY <1>4, <1>5, <1>6 DEF Dict
<1>9. IsHeap(h) /\ Len(h) = Len(f) /\ d \in 1 .. Len(h)
  BY <1>4, <1>5, <1>6, <1>7, <1>8, Lengths
<1> HIDE DEF h
<1>10. Len(heap') = Len(f)
  BY <1>2, <1>9, Lengths
<1>11. /\ Going(Opened, {Dict, d}) /\ Dict \in Changeable /\ Dict # 0
       /\ Begun(Opened, Dict, Rec, "record", Rec, 1)
  BY <1>1, <1>4, <1>5, <1>6, <1>8, <1>10, OpenedData
<1>12. Going(g, {Dict, d}) /\ \A o : KeepsBegun(Opened, g, o)
  BY <1>11, GoOnNew DEF g, NewContainer
<1>13. d \in Changeable /\ d \notin Referred(g) /\ d \in Puttable({Dict})
  <2>1. d \in Changeable /\ d \in Puttable({Dict})
    BY <1>4, <1>5, <1>6, <1>8, <1>10, NewChangeable
  <2> QED
    BY <1>12, <2>1, NotReferred
<1>14. <<"struct", Rec>> \in Nodes(Rec) /\ d = Len(Opened) + 1
  <2>1. d = Len(Opened) + 1
    BY <1>4, <1>5
  <2> QED
    BY <2>1, NodesAre
<1>15. Going(f, {Dict, d}) /\ KeepsBegun(g, f, d) /\ Complete(f, d, Rec, "struct", Rec)
  <2>1. CASE Rec.lit = "DefB"
    <3>1. f = g
      BY <2>1 DEF f
    <3>2. Len(Contents(Rec, "struct", Rec)) = 0
      BY <2>1 DEF Contents
    <3>3. Begun(g, d, Rec, "struct", Rec, 0)
      <4>1. 0 <= Len(Contents(Rec, "struct", Rec)) /\ "struct" \notin {"plist", "icvp"}
        BY <3>2
      <4>2. Begun(New(Opened, "struct", NoText), Len(Opened) + 1, Rec, "struct", Rec, 0)
        BY <1>4, <1>14, <4>1, BegunNew
      <4> QED
        BY <1>14, <4>2 DEF g, NewContainer
    <3> QED
      BY <1>12, <3>1, <3>2, <3>3, CompleteIf DEF KeepsBegun
  <2>2. CASE Rec.lit # "DefB"
    <3>1. f = SetNumber(g, d, "fields", Rec.lit)
      BY <2>2 DEF f
    <3>2. d \in 1 .. Len(g) /\ Len(g) + 1 \in Puttable({Dict, d})
      <4>1. Len(g) + 1 = Len(heap) + 4 /\ Len(g) = d
        BY <1>5 DEF d
      <4>2. Len(heap) + 4 <= Len(heap') /\ Len(heap') \in Nat
        BY <1>4, <1>5, <1>6, <1>10, <2>2
      <4>3. Len(heap) + 4 \in Puttable({Dict, d})
        BY <1>4, <1>5, <1>8, <4>2, NewChangeable
      <4> QED
        BY <1>4, <1>5, <4>1, <4>3
    <3>3. Going(f, {Dict, d}) /\ KeepsBegun(g, f, d)
      BY <1>12, <1>13, <3>1, <3>2, GoOnNumber
    <3>4. Len(Contents(Rec, "struct", Rec)) = 1 /\ Contents(Rec, "struct", Rec)[1] = Text("fields", Rec.lit)
      BY <2>2 DEF Contents
    <3>5. Begun(f, d, Rec, "struct", Rec, 1)
      BY <1>4, <1>14, <3>1, <3>4, OpenBegun DEF g
    <3> QED
      BY <3>3, <3>4, <3>5, CompleteIf
  <2> QED
    BY <2>1, <2>2
<1>16. Begun(f, Dict, Rec, "record", Rec, 1) /\ Dict \notin Referred(f)
  <2>1. Begun(g, Dict, Rec, "record", Rec, 1)
    BY <1>8, <1>11, <1>12 DEF KeepsBegun
  <2>2. Begun(f, Dict, Rec, "record", Rec, 1)
    BY <1>8, <1>15, <2>1 DEF KeepsBegun
  <2> QED
    BY <1>11, <1>15, <2>2, NotReferred
<1>17. Shows(f, Item("data", d), Rec, Part("data", <<"struct", Rec>>))
  BY <1>6, <1>14, <1>15, ItemShows
<1>18. Going(f, {Dict})
  BY <1>15, GoingLess
<1>19. Going(h, {Dict}) 
  BY <1>7, <1>8, <1>11, <1>13, <1>18, GoOnSet DEF h
<1>20. Begun(h, Dict, Rec, "record", Rec, 1 + 1)
  <2>1. /\ 1 + 1 <= Len(Contents(Rec, "record", Rec))
        /\ Contents(Rec, "record", Rec)[1 + 1] = Part("data", <<"struct", Rec>>)
        /\ NewKey(Rec, "record", Rec, 1, "data")
    <3>1. Part("data", <<"struct", Rec>>).key = "data"
      BY DEF Part
    <3> QED
      BY <1>3, <3>1, DataNext
  <2> QED
    BY <1>6, <1>7, <1>8, <1>16, <1>17, <2>1, BegunSet DEF h
<1>21. Going(heap', {Dict}) /\ Begun(heap', Dict, Rec, "record", Rec, 1 + 1)
  <2>1. Going(heap', {Dict}) /\ KeepsBegun(h, heap', d)
    BY <1>2, <1>9, <1>19, GoOnRelease
  <2> QED
    BY <1>8, <1>20, <2>1 DEF KeepsBegun
<1>22. Complete(heap', Dict, Rec, "record", Rec)
  BY <1>3, <1>21, DataPut
<1> QED
  BY <1>1, <1>11, <1>21, <1>22, RecordReturnsData

(* The record's list is complete from the start. *)
LEMMA ListComplete ==
  ASSUME IInv, stack # <<>>, plist # 0
  PROVE  plist \in 1 .. Len(heap) /\ Complete(heap, plist, Rec, "plist", Rec)
<1> DEFINE items == heap[plist].items
           shown == ShownPlist(Rec.plist)
           all == Contents(Rec, "plist", Rec)
<1>0. IsHeap(heap) /\ Len(heap) \in Nat /\ plist \in 1 .. Len(heap)
  BY HeapDomain DEF IInv, HeapOK, TypeOK
<1>1. /\ heap[plist].lit = shown.lit /\ Len(items) = Len(shown.items)
      /\ \A k \in 1 .. Len(items) :
           /\ items[k].key = shown.items[k][1]
           /\ shown.items[k][2] = IF items[k].ref = 0 THEN Leaf(items[k].lit)
                                  ELSE Leaf(heap[items[k].ref].lit)
           /\ items[k].ref # 0 => heap[items[k].ref].items = <<>>
  BY DEF IInv, PlistUntouched
<1>2. Len(items) \in Nat /\ \A k \in 1 .. Len(items) : IsItem(items[k], Len(heap))
  BY <1>0, HeapDomain
<1>3. shown.lit = Rec.plist
  BY DEF ShownPlist
<1>4. Len(all) = Len(items) /\ \A k \in 1 .. Len(items) : all[k] = Text(shown.items[k][1], shown.items[k][2].lit)
  <2>1. all = [k \in 1 .. Len(shown.items) |-> Text(shown.items[k][1], shown.items[k][2].lit)]
    BY DEF Contents
  <2> HIDE DEF all, shown, items
  <2> QED
    BY <1>1, <1>2, <2>1
<1>5. <<"plist", Rec>> \in Nodes(Rec)
  BY NodesAre
<1>6. heap[plist].lit = Data(Rec)[<<"plist", Rec>>].lit
  BY <1>1, <1>3, <1>5, DataOfNode
<1> HIDE DEF items, shown, all
<1>7. ASSUME NEW k \in 1 .. Len(items)
      PROVE  Shows(heap, items[k], Rec, all[k])
  <2>1. CASE items[k].ref = 0
    <3>0. shown.items[k][2] = Leaf(items[k].lit)
      BY <1>1, <2>1
    <3>1. shown.items[k][2].lit = items[k].lit
      BY <3>0 DEF Leaf
    <3>2. Shows(heap, items[k], Rec, Text(items[k].key, items[k].lit))
      BY <1>0, <2>1, ShowsText
    <3> QED
      BY <1>1, <1>4, <3>1, <3>2
  <2>2. CASE items[k].ref # 0
    <3> DEFINE o == items[k].ref
    <3>3. o \in 1 .. Len(heap)
      BY <1>0, <1>2, <2>2 DEF IsItem
    <3>4. shown.items[k][2] = Leaf(heap[o].lit) /\ heap[o].items = <<>>
      BY <1>1, <2>2
    <3>5. shown.items[k][2].lit = heap[o].lit
      BY <3>4 DEF Leaf
    <3>1. shown.items[k][2].lit = heap[o].lit /\ Len(heap[o].items) = 0 /\ o \in 1 .. Len(heap)
      BY <3>3, <3>4, <3>5
    <3>2. Shows(heap, items[k], Rec, Text(items[k].key, heap[o].lit))
      BY <1>0, <3>1, ShowsText
    <3> QED
      BY <1>1, <1>4, <3>1, <3>2
  <2> QED
    BY <2>1, <2>2
<1>8. Begun(heap, plist, Rec, "plist", Rec, Len(items))
  BY <1>0, <1>2, <1>4, <1>6, <1>7 DEF Begun, items, all
<1>9. Complete(heap, plist, Rec, "plist", Rec)
  BY <1>4, <1>8, CompleteIf DEF all
<1> QED
  BY <1>0, <1>9

(* What is put under "data" completes a dictionary. *)
LEMMA DataSet ==
  ASSUME IInv, DInv, NEW d, d \in Changeable, NEW S, d \in S, NEW h, Going(h, S),
         DatesValid(Rec) => Begun(h, d, Rec, "record", Rec, 1), d \in 1 .. Len(h),
         NEW o \in 1 .. Len(h), o \in Puttable(S), NEW kind, NEW x,
         DatesValid(Rec) => DataOf(Rec) = <<Part("data", <<kind, x>>)>>,
         DatesValid(Rec) => <<kind, x>> \in Nodes(Rec) /\ Complete(h, o, Rec, kind, x)
  PROVE  /\ Going(Set(h, d, Item("data", o)), S) /\ Len(Set(h, d, Item("data", o))) = Len(h)
         /\ DatesValid(Rec) => Complete(Set(h, d, Item("data", o)), d, Rec, "record", Rec)
<1> DEFINE it == Item("data", o)
           g == Set(h, d, it)
<1>1. IsHeap(h) /\ Len(h) \in Nat
  BY GoingFacts
<1>2. IsItem(it, Len(h)) /\ it.ref = o /\ it.key = "data"
  BY <1>1, ItemIsItem DEF Item
<1>3. d \notin Referred(h) /\ o # d
  BY NotReferred DEF Puttable
<1>5. ASSUME DatesValid(Rec) PROVE Shows(h, it, Rec, Part("data", <<kind, x>>))
  BY <1>1, <1>5, ItemShows
<1> HIDE DEF it
<1>4. Going(g, S) /\ Len(g) = Len(h)
  BY <1>2, GoOnSet
<1>6. ASSUME DatesValid(Rec) PROVE Complete(g, d, Rec, "record", Rec)
  <2>1. Part("data", <<kind, x>>).key = "data"
    BY DEF Part
  <2>2. /\ 1 + 1 <= Len(Contents(Rec, "record", Rec))
        /\ Contents(Rec, "record", Rec)[1 + 1] = Part("data", <<kind, x>>)
        /\ NewKey(Rec, "record", Rec, 1, "data")
    BY <1>6, <2>1, DataNext
  <2>3. Begun(g, d, Rec, "record", Rec, 1 + 1)
    BY <1>1, <1>2, <1>3, <1>5, <1>6, <2>2, BegunSet
  <2> QED
    BY <1>6, <2>3, DataPut
<1> QED
  BY <1>4, <1>6 DEF it

LEMMA RecordPlistData ==
  ASSUME IInv, SInv, DInv, RecordPlist
  PROVE  DInv'
<1>1. /\ At("record", "enter") /\ Return(Dict) /\ Top.arg = Rec /\ Rec.data_type = "blob"
      /\ Rec.type = "other" /\ plist # 0 /\ heap' = Set(Opened, Dict, Item("data", plist))
      /\ stack # <<>> /\ Rec.plist # "none"
  BY RecordLevels DEF RecordPlist, BlobOf
<1>2. DataOf(Rec) = <<Part("data", <<"plist", Rec>>)>>
  BY <1>1 DEF DataOf, Structs, Others
<1>3. plist \in 1 .. Len(heap) /\ Complete(heap, plist, Rec, "plist", Rec)
  BY <1>1, ListComplete
<1>4. /\ IsHeap(Opened) /\ Dict \in 1 .. Len(Opened) /\ Len(Opened) = Len(heap) + 2
      /\ Len(heap) \in Nat
  BY <1>1, AtFacts, OpenedFits DEF GoodHeap
<1>5. Len(heap') = Len(heap) + 2
  <2>1. IsItem(Item("data", plist), Len(Opened))
    <3>1. plist \in 0 .. Len(Opened) /\ Len(Opened) \in Nat
      BY <1>3, <1>4
    <3> QED
      BY <3>1, ItemIsItem
  <2> QED
    BY <1>1, <1>4, <2>1, Lengths
<1>6. /\ Going(Opened, {Dict}) /\ Dict \in Changeable /\ Dict # 0
      /\ Begun(Opened, Dict, Rec, "record", Rec, 1) /\ KeepsBegun(heap, Opened, Dict)
  BY <1>1, <1>4, <1>5, OpenedData DEF Dict
<1>7. plist # Dict /\ plist \in Puttable({Dict}) /\ plist \in 1 .. Len(Opened)
  BY <1>3, <1>4 DEF Dict, Puttable
<1>8. Complete(Opened, plist, Rec, "plist", Rec) /\ <<"plist", Rec>> \in Nodes(Rec)
  BY <1>3, <1>6, <1>7, NodesAre DEF KeepsBegun, Complete
<1>9. Going(heap', {Dict}) /\ (DatesValid(Rec) => Complete(heap', Dict, Rec, "record", Rec))
  BY <1>1, <1>2, <1>4, <1>6, <1>7, <1>8, DataSet
<1> QED
  BY <1>1, <1>6, <1>9, RecordReturnsData

(* The copy shows what the original does. *)
LEMMA CopyShows ==
  ASSUME NEW h, IsHeap(h), NEW p, NEW site, NEW r, NEW kind, NEW x, NEW i, Begun(h, p, r, kind, x, i)
  PROVE  Begun(CopyOf(h, site, p), Len(h) + 1, r, kind, x, i)
<1> DEFINE g == CopyOf(h, site, p)
           q == Len(h) + 1
<1>1. /\ p \in 1 .. Len(h) /\ i \in Nat /\ Len(h[p].items) = i /\ Len(h) \in Nat
      /\ \A k \in 1 .. i : IsItem(h[p].items[k], Len(h))
  BY BegunThere, HeapDomain
<1>2. Grown(h, g, {}, {}) /\ Len(g) = q /\ g[q].lit = h[p].lit /\ g[q].items = h[p].items
  BY <1>1, GrowCopy
<1> HIDE DEF g
<1>3. {} \intersect Referred(h) = {} /\ \A o : o \notin {}
  OBVIOUS
<1>4. ASSUME NEW k \in 1 .. i
      PROVE  Shows(g, h[p].items[k], r, Contents(r, kind, x)[k])
  <2>1. Shows(h, h[p].items[k], r, Contents(r, kind, x)[k])
    BY DEF Begun
  <2> QED
    BY <1>1, <1>2, <1>3, <2>1, ShowsKept
<1>5. Begun(g, q, r, kind, x, i)
  BY <1>1, <1>2, <1>4 DEF Begun
<1> QED
  BY <1>5 DEF g

(* A copy of the record's list. *)
LEMMA CopyMade ==
  ASSUME IInv, SInv, DInv, At("record", "enter"), plist # 0, Len(heap') \in Nat,
         Len(heap) + 3 <= Len(heap'), NEW S, Dict \in S, Len(heap) + 2 \notin S
  PROVE  LET g == CopyOf(Opened, "copy", plist)
             q == Len(heap) + 3
         IN  /\ Going(g, S) /\ Len(g) = q /\ Len(Opened) + 1 = q /\ IsHeap(g)
             /\ Dict \in 1 .. Len(g) /\ Dict \in Changeable /\ Dict # 0
             /\ Begun(g, Dict, Rec, "record", Rec, 1) /\ Complete(g, q, Rec, "plist", Rec)
             /\ q \in Changeable /\ q # Dict /\ q # 0
<1> DEFINE g == CopyOf(Opened, "copy", plist)
           q == Len(heap) + 3
<1>1. /\ Going(Opened, S) /\ Dict \in Changeable /\ Dict # 0 /\ IsHeap(Opened) /\ Dict \in 1 .. Len(Opened)
      /\ Begun(Opened, Dict, Rec, "record", Rec, 1) /\ KeepsBegun(heap, Opened, Dict)
      /\ Len(Opened) = Len(heap) + 2 /\ Len(heap) \in Nat /\ stack # <<>>
  <2>1. Len(heap) + 2 <= Len(heap') /\ stack # <<>>
    BY AtFacts
  <2> QED
    BY <2>1, OpenedData
<1>2. plist \in 1 .. Len(heap) /\ Complete(heap, plist, Rec, "plist", Rec)
  BY <1>1, ListComplete
<1>3. plist # Dict /\ plist \in 1 .. Len(Opened)
  BY <1>1, <1>2 DEF Dict
<1>4. Complete(Opened, plist, Rec, "plist", Rec)
  BY <1>1, <1>2, <1>3 DEF KeepsBegun, Complete
<1>5. Going(g, S) /\ Len(g) = q /\ KeepsBegun(Opened, g, 0) /\ Len(Opened) + 1 = q
  BY <1>1, <1>3, GoOnCopy
<1>6. Complete(g, q, Rec, "plist", Rec)
  BY <1>1, <1>4, <1>5, CopyShows DEF Complete
<1>7. Begun(g, Dict, Rec, "record", Rec, 1)
  BY <1>1, <1>5 DEF KeepsBegun
<1>8. q \in Changeable /\ q # Dict /\ q # 0 /\ Dict \in 1 .. Len(g)
  BY <1>1, <1>5, NewChangeable DEF Dict
<1> HIDE DEF g, q
<1>9. IsHeap(g)
  BY <1>5, GoingFacts
<1> QED
  BY <1>1, <1>5, <1>6, <1>7, <1>8, <1>9 DEF g, q

LEMMA IcvpPlainData ==
  ASSUME IInv, SInv, DInv, IcvpPlain
  PROVE  DInv'
<1> DEFINE g == CopyOf(Opened, "copy", plist)
           q == Len(heap) + 3
<1>1. /\ At("record", "enter") /\ Return(Dict) /\ Top.arg = Rec /\ Rec.data_type = "blob"
      /\ Rec.type = "icvp" /\ plist # 0 /\ Rec.plist \notin {"list", "alias", "none"}
      /\ heap' = Set(g, Dict, Item("data", Len(Opened) + 1))
  BY RecordLevels DEF IcvpPlain, BlobOf
<1>2. DataOf(Rec) = <<Part("data", <<"plist", Rec>>)>> /\ <<"plist", Rec>> \in Nodes(Rec)
  <2>1. DataOf(Rec) = <<Part("data", <<"plist", Rec>>)>>
    BY <1>1 DEF DataOf, Structs, Others
  <2> QED
    BY <2>1, NodesAre
<1>3. /\ IsHeap(Opened) /\ Dict \in 1 .. Len(Opened) /\ Len(Opened) + 1 = q
      /\ Len(heap) \in Nat /\ plist \in 1 .. Len(Opened)
  <2>1. stack # <<>>
    BY <1>1, AtFacts
  <2>2. /\ IsHeap(Opened) /\ Dict \in 1 .. Len(Opened) /\ Len(Opened) = Len(heap) + 2
        /\ Len(heap) \in Nat
    BY <1>1, AtFacts, OpenedFits DEF GoodHeap
  <2>3. plist \in 1 .. Len(heap)
    BY <1>1, <2>1, ListComplete
  <2> QED
    BY <2>2, <2>3
<1>4. Len(heap') = q
  <2>1. IsHeap(g) /\ Len(g) = q
    BY <1>3, Lengths
  <2>2. Dict \in 1 .. Len(g) /\ q \in 0 .. Len(g)
    BY <1>3, <2>1
  <2>3. IsItem(Item("data", q), Len(g))
    BY <2>1, <2>2, ItemIsItem, Lengths
  <2> HIDE DEF g, q
  <2> QED
    BY <1>1, <1>3, <2>1, <2>2, <2>3, Lengths
<1>5. /\ Going(g, {Dict}) /\ Len(g) = q
      /\ Dict \in 1 .. Len(g) /\ Dict \in Changeable
      /\ Begun(g, Dict, Rec, "record", Rec, 1) /\ Complete(g, q, Rec, "plist", Rec)
      /\ q \in Changeable /\ q # Dict /\ q # 0
  <2>1. Len(heap') \in Nat /\ Len(heap) + 3 <= Len(heap') /\ Len(heap) + 2 \notin {Dict}
    BY <1>3, <1>4 DEF Dict
  <2> QED
    BY <1>1, <2>1, CopyMade
<1>6. q \in Puttable({Dict}) /\ q \in 1 .. Len(g)
  BY <1>3, <1>5 DEF Puttable
<1> HIDE DEF g, q
<1>7. Going(heap', {Dict}) /\ (DatesValid(Rec) => Complete(heap', Dict, Rec, "record", Rec))
  BY <1>1, <1>2, <1>3, <1>5, <1>6, DataSet
<1> QED
  BY <1>1, <1>5, <1>7, RecordReturnsData

(* The three ways to go on, with S in hand then. *)
LEMMA GotoGoes ==
  ASSUME IInv, DInv, stack # <<>>, NEW fr, Goto(fr), NEW S, Locals(fr) = S, Going(heap', S),
         S \subseteq Changeable, DatesValid(Rec) => FrameFilled(heap', Rec, fr)
  PROVE  DInv'
<1>1. Puts(Puttable(S), Locals(fr))
  BY DEF Puts, Puttable
<1> QED
  BY <1>1, GotoData DEF Going

(* It calls a function. *)
LEMMA CallGoes ==
  ASSUME IInv, DInv, stack # <<>>, ret = <<>>, NEW fr, NEW fn, NEW arg, Call(fr, fn, arg),
         NEW S, Locals(fr) = S, Going(heap', S),
         S \subseteq Changeable, DatesValid(Rec) => FrameFilled(heap', Rec, fr)
  PROVE  DInv'
<1>1. Puts(Puttable(S), Locals(fr))
  BY DEF Puts, Puttable
<1> QED
  BY <1>1, CallData DEF Going

(* It returns an object. *)
LEMMA ReturnGoes ==
  ASSUME IInv, SInv, DInv, stack # <<>>, NEW o, Return(o), o # 0, o \in Changeable,
         Going(heap', {o}), DatesValid(Rec) => Complete(heap', o, Rec, Top.fn, Top.arg)
  PROVE  DInv'
<1>1. Puts(Puttable({o}), {o} \ {0})
  BY DEF Puts, Puttable
<1> QED
  BY <1>1, ReturnData DEF Going

(* The step goes on with a parsed alias, if there is one. *)
LEMMA GoOnAlias ==
  ASSUME NEW h, NEW S, Going(h, S), NEW a
  PROVE  /\ Going(AliasOf(h, a), S)
         /\ Len(AliasOf(h, a)) = (IF a.parses THEN Len(h) + 1 ELSE Len(h))
         /\ \A d : KeepsBegun(h, AliasOf(h, a), d)
<1>1. CASE a.parses
  BY <1>1, GoOnNew DEF AliasOf, NewContainer
<1>2. CASE ~a.parses
  BY <1>2 DEF AliasOf, KeepsBegun
<1> QED
  BY <1>1, <1>2

(* How many objects there are then. *)
LEMMA AliasLength ==
  ASSUME NEW h, IsHeap(h), NEW a
  PROVE  /\ Len(AliasOf(h, a)) = (IF a.parses THEN Len(h) + 1 ELSE Len(h))
         /\ NewAlias(h, a) = (IF a.parses THEN Len(h) + 1 ELSE 0)
BY Lengths DEF AliasOf, NewContainer, NewAlias

(* What is filled in a frame of ds_record_copy_dictionary. *)
LEMMA RecordFrameFilled ==
  ASSUME NEW h, NEW r, NEW fr, fr.fn = "record", fr.pc # "nested", fr.pc # "cnids",
         Begun(h, fr.obj, r, "record", r, 1), fr.pc = "alias" => r.type = "pict",
         fr.pc = "icvp" => CopyBegun(h, fr.sub, r)
  PROVE  FrameFilled(h, r, fr)
BY DEF FrameFilled, In

LEMMA RecordBookmarkData ==
  ASSUME IInv, SInv, DInv, RecordBookmark
  PROVE  DInv'
<1> DEFINE fr == [Top EXCEPT !.obj = Dict, !.pc = "bookmark"]
<1>1. /\ At("record", "enter") /\ Call(fr, "bookmark", Top.arg.mark) /\ heap' = Opened
  BY DEF RecordBookmark, BlobOf
<1>2. Len(heap') = Len(heap) + 2 /\ Len(heap) \in Nat
  BY <1>1, AtFacts, OpenedFits
<1>3. /\ Going(heap', {Dict}) /\ Dict \in Changeable /\ Dict # 0
      /\ Begun(heap', Dict, Rec, "record", Rec, 1)
  BY <1>1, <1>2, OpenedData DEF Dict
<1>4. /\ stack # <<>> /\ ret = <<>> /\ FrameOK(heap, Top) /\ Top.fn = "record"
      /\ VariablesAre(Top, 0, 0, 0, 0, 0)
  BY <1>1, AtFacts, ConvertFacts, EnterFacts DEF VariablesAre
<1>5. VariablesAre(fr, Dict, 0, 0, 0, 0) /\ fr.fn = "record" /\ fr.pc = "bookmark"
  BY <1>4 DEF FrameOK, VariablesAre, Variables
<1> HIDE DEF fr
<1>6. Locals(fr) = {Dict}
  BY <1>3, <1>5, DistinctIf
<1>7. FrameFilled(heap', Rec, fr)
  BY <1>3, <1>5, RecordFrameFilled DEF VariablesAre
<1> QED
  BY <1>1, <1>3, <1>4, <1>6, <1>7, CallGoes

LEMMA RecordAliasData ==
  ASSUME IInv, SInv, DInv, RecordAlias
  PROVE  DInv'
<1> DEFINE t == NewAlias(Opened, Top.arg.alias)
           fr == [Top EXCEPT !.obj = Dict, !.tmp = t, !.pc = "alias"]
           S == {Dict, t} \ {0}
<1>1. /\ At("record", "enter") /\ Call(fr, "alias", Top.arg.alias)
      /\ heap' = AliasOf(Opened, Top.arg.alias) /\ Top.arg = Rec /\ Rec.type = "pict"
  BY RecordLevels DEF RecordAlias, BlobOf
<1>2. Len(Opened) = Len(heap) + 2 /\ Len(heap) \in Nat /\ IsHeap(Opened)
  BY <1>1, AtFacts, OpenedFits DEF GoodHeap
<1>3. /\ Len(heap') = (IF Rec.alias.parses THEN Len(heap) + 3 ELSE Len(heap) + 2)
      /\ t = (IF Rec.alias.parses THEN Len(heap) + 3 ELSE 0)
  <2>1. Len(Opened) + 1 = Len(heap) + 3
    BY <1>2
  <2> QED
    BY <1>1, <1>2, <2>1, AliasLength
<1> HIDE DEF t
<1>4. /\ Going(Opened, S) /\ Dict \in Changeable /\ Dict # 0
      /\ Begun(Opened, Dict, Rec, "record", Rec, 1)
  <2>1. Len(heap') \in Nat /\ Len(heap) + 2 <= Len(heap')
    BY <1>2, <1>3
  <2>2. Dict \in S /\ Len(heap) + 2 \notin S
    BY <1>2, <1>3 DEF Dict
  <2> HIDE DEF S
  <2> QED
    BY <1>1, <2>1, <2>2, OpenedData
<1>5. t # 0 => t \in Changeable
  BY <1>2, <1>3, NewChangeable
<1>6. Going(heap', S) /\ Begun(heap', Dict, Rec, "record", Rec, 1)
  <2>1. Going(heap', S) /\ KeepsBegun(Opened, heap', 0)
    BY <1>1, <1>4, GoOnAlias
  <2> QED
    BY <1>4, <2>1 DEF KeepsBegun
<1>7. /\ stack # <<>> /\ ret = <<>> /\ FrameOK(heap, Top) /\ Top.fn = "record"
      /\ VariablesAre(Top, 0, 0, 0, 0, 0)
  BY <1>1, AtFacts, ConvertFacts, EnterFacts DEF VariablesAre
<1>8. VariablesAre(fr, Dict, 0, 0, 0, t) /\ fr.fn = "record" /\ fr.pc = "alias"
  BY <1>7 DEF FrameOK, VariablesAre, Variables
<1> HIDE DEF fr
<1>9. Locals(fr) = S
  BY <1>8, LocalsAre DEF VariablesAre
<1>10. FrameFilled(heap', Rec, fr)
  BY <1>1, <1>6, <1>8, RecordFrameFilled DEF VariablesAre
<1>11. S \subseteq Changeable
  BY <1>4, <1>5
<1> HIDE DEF S
<1> QED
  BY <1>1, <1>6, <1>7, <1>9, <1>10, <1>11, CallGoes

(* The copied list is complete but for the alias. *)
LEMMA AliasList ==
  ASSUME NEW h, IsHeap(h), NEW o, NEW r, r.plist = "alias", Complete(h, o, r, "plist", r)
  PROVE  CopyBegun(h, o, r)
<1>1. Contents(r, "plist", r) =
        [k \in 1 .. Len(ShownPlist(r.plist).items) |->
           Text(ShownPlist(r.plist).items[k][1], ShownPlist(r.plist).items[k][2].lit)]
  BY DEF Contents
<1>2. ShownPlist(r.plist).items =
        <<<<"view", Leaf("icons")>>, <<"backgroundImageAlias", Leaf("bytes")>>>>
  <2>1. ShownPlist(r.plist).items =
          <<<<"view", Leaf("icons")>>>> \o <<<<"backgroundImageAlias", Leaf("bytes")>>>>
    BY DEF ShownPlist
  <2> QED
    BY <2>1, ConcatenatedToOne
<1>3. Leaf("icons").lit = "icons"
  BY DEF Leaf
<1>4. /\ Len(Contents(r, "plist", r)) = 2 /\ Contents(r, "plist", r)[1] = Text("view", "icons")
      /\ Contents(r, "plist", r)[2].key = "backgroundImageAlias"
  <2>1. Contents(r, "plist", r) =
          [k \in 1 .. 2 |-> Text(ShownPlist(r.plist).items[k][1], ShownPlist(r.plist).items[k][2].lit)]
    BY <1>1, <1>2
  <2>2. Contents(r, "plist", r)[1] = Text("view", Leaf("icons").lit)
    BY <1>2, <2>1
  <2>3. Contents(r, "plist", r)[2] = Text("backgroundImageAlias", Leaf("bytes").lit)
    BY <1>2, <2>1
  <2>4. Len(Contents(r, "plist", r)) = 2
    BY <2>1
  <2>5. Contents(r, "plist", r)[2].key = "backgroundImageAlias"
    BY <2>3 DEF Text
  <2> QED
    BY <1>3, <2>2, <2>4, <2>5
<1>5. Begun(h, o, r, "plist", r, 2)
  BY <1>4 DEF Complete
<1>6. /\ o \in 1 .. Len(h) /\ Len(h[o].items) = 2 /\ h[o].items[2].key = "backgroundImageAlias"
      /\ Shows(h, h[o].items[1], r, Text("view", "icons"))
  BY <1>4, <1>5 DEF Begun, Shows
<1>7. <<"plist", r>> \in Nodes(r)
  BY NodesAre
<1>8. h[o].lit = r.plist
  BY <1>5, <1>7, DataOfNode DEF Begun
<1> QED
  BY <1>6, <1>8 DEF CopyBegun

LEMMA IcvpAliasData ==
  ASSUME IInv, SInv, DInv, IcvpAlias
  PROVE  DInv'
<1> DEFINE g == CopyOf(Opened, "copy", plist)
           q == Len(heap) + 3
           fr == [Top EXCEPT !.obj = Dict, !.sub = Len(Opened) + 1, !.pc = "icvp"]
           S == {Dict, q}
<1>1. /\ At("record", "enter") /\ Call(fr, "alias", Top.arg.alias)
      /\ heap' = AliasOf(g, Top.arg.alias) /\ plist # 0 /\ Top.arg = Rec
      /\ Rec.type = "icvp" /\ Rec.plist = "alias"
  BY RecordLevels DEF IcvpAlias, BlobOf
<1>2. /\ Len(heap) \in Nat /\ IsHeap(g) /\ Len(g) = q
  <2>1. stack # <<>> /\ IsHeap(Opened) /\ Len(Opened) = Len(heap) + 2 /\ Len(heap) \in Nat
    BY <1>1, AtFacts, OpenedFits DEF GoodHeap
  <2>2. plist \in 1 .. Len(Opened)
    BY <1>1, <2>1, ListComplete
  <2>3. IsHeap(g) /\ Len(g) = Len(Opened) + 1
    BY <2>1, <2>2, Lengths
  <2> QED
    BY <2>1, <2>3
<1>3. Len(heap') \in Nat /\ Len(heap) + 3 <= Len(heap')
  <2> HIDE DEF g
  <2>1. Len(heap') = IF Rec.alias.parses THEN Len(g) + 1 ELSE Len(g)
    BY <1>1, <1>2, AliasLength
  <2> QED
    BY <1>2, <2>1
<1>4. /\ Going(g, S) /\ Len(Opened) + 1 = q /\ Dict \in Changeable /\ Dict # 0
      /\ Begun(g, Dict, Rec, "record", Rec, 1) /\ Complete(g, q, Rec, "plist", Rec)
      /\ q \in Changeable /\ q # Dict /\ q # 0
  <2>1. Dict \in S /\ Len(heap) + 2 \notin S
    BY <1>2 DEF Dict
  <2> HIDE DEF S
  <2> QED
    BY <1>1, <1>3, <2>1, CopyMade
<1> HIDE DEF g
<1>5. /\ Going(heap', S) /\ Begun(heap', Dict, Rec, "record", Rec, 1)
      /\ Complete(heap', q, Rec, "plist", Rec)
  <2>1. Going(heap', S) /\ KeepsBegun(g, heap', 0)
    BY <1>1, <1>4, GoOnAlias
  <2> QED
    BY <1>4, <2>1 DEF KeepsBegun, Complete
<1>6. CopyBegun(heap', q, Rec)
  BY <1>1, <1>5, GoingFacts, AliasList
<1>7. /\ stack # <<>> /\ ret = <<>> /\ FrameOK(heap, Top) /\ Top.fn = "record"
      /\ VariablesAre(Top, 0, 0, 0, 0, 0)
  BY <1>1, AtFacts, ConvertFacts, EnterFacts DEF VariablesAre
<1>8. VariablesAre(fr, Dict, 0, q, 0, 0) /\ fr.fn = "record" /\ fr.pc = "icvp"
  BY <1>4, <1>7 DEF FrameOK, VariablesAre, Variables
<1> HIDE DEF fr, q
<1>9. Locals(fr) = S
  BY <1>4, <1>8, LocalsAre DEF VariablesAre
<1>10. FrameFilled(heap', Rec, fr)
  BY <1>5, <1>6, <1>8, RecordFrameFilled DEF VariablesAre
<1>11. S \subseteq Changeable
  BY <1>4
<1> HIDE DEF S
<1> QED
  BY <1>1, <1>5, <1>7, <1>9, <1>10, <1>11, CallGoes

(* What is in hand when an object was returned. *)
LEMMA BackHands ==
  ASSUME IInv, NEW fn, NEW pc, Back(fn, pc)
  PROVE  /\ stack # <<>> /\ Top.fn = fn /\ Top.pc = pc /\ FrameOK(heap, Top) /\ RecordOK(Top)
         /\ Hand = Locals(Top) \union {Ret} /\ Ret \in Hand /\ Ret \in 1 .. Len(heap) /\ Ret # 0
         /\ Ret \notin Locals(Top) /\ ret # <<>>
         /\ IsHeap(heap) /\ Len(heap) \in Nat
         /\ \A v \in Variables : Top[v] # 0 => Top[v] \in Hand /\ Top[v] # Ret /\ Top[v] \in 1 .. Len(heap)
<1>1. /\ stack # <<>> /\ Top.fn = fn /\ Top.pc = pc
      /\ Hand = Locals(Top) \union {Ret} /\ Ret \notin Rest \union Locals(Top)
      /\ Ret \in 1 .. Len(heap) /\ Len(heap) \in Nat /\ Locals(Top) \subseteq 1 .. Len(heap)
  BY BackFacts
<1>2. FrameOK(heap, Top) /\ RecordOK(Top)
  BY <1>1, ConvertFacts
<1>3. \A v \in Variables : Top[v] # 0 => Top[v] \in Locals(Top)
  BY DEF Locals
<1>4. IsHeap(heap)
  BY DEF IInv, HeapOK
<1>5. ret # <<>>
  BY DEF Back
<1> QED
  BY <1>1, <1>2, <1>3, <1>4, <1>5

(* ds_record_copy_dictionary has its dictionary and what was returned. *)
LEMMA RecordWaits ==
  ASSUME IInv, SInv, DInv, NEW pc \in {"bookmark", "alias", "icvp"}, Back("record", pc)
  PROVE  /\ stack # <<>> /\ Top.fn = "record" /\ Top.pc = pc /\ Top.arg = Rec
         /\ Top.obj \in Hand /\ Top.obj \in 1 .. Len(heap) /\ Top.obj # 0 /\ Top.obj \in Changeable
         /\ Ret \in Hand /\ Ret \in 1 .. Len(heap) /\ Ret # Top.obj /\ Ret # 0
         /\ Ret \in Puttable({Top.obj}) /\ Ret \in Changeable
         /\ pc = "icvp" => /\ Top.sub \in Hand /\ Top.sub \in 1 .. Len(heap) /\ Top.sub \in Changeable
                           /\ Top.sub # Ret /\ Top.sub # Top.obj
         /\ pc = "alias" => Top.tmp \in 1 .. Len(heap)
         /\ DatesValid(Rec) => /\ Begun(heap, Top.obj, Rec, "record", Rec, 1)
                               /\ pc = "icvp" => CopyBegun(heap, Top.sub, Rec)
                               /\ pc = "alias" => Rec.type = "pict"
         /\ IsHeap(heap) /\ Len(heap) \in Nat
<1>1. /\ stack # <<>> /\ Top.fn = "record" /\ Top.pc = pc /\ FrameOK(heap, Top) /\ RecordOK(Top)
      /\ Hand = Locals(Top) \union {Ret} /\ Ret \in Hand /\ Ret \in 1 .. Len(heap) /\ Ret # 0
      /\ IsHeap(heap) /\ Len(heap) \in Nat /\ Ret \notin Locals(Top)
      /\ \A v \in Variables : Top[v] # 0 => Top[v] \in Hand /\ Top[v] # Ret /\ Top[v] \in 1 .. Len(heap)
  BY BackHands
<1>2. Top.arg = Rec
  BY <1>1 DEF RecordOK
<1>3. Top.obj \in 1 .. Len(heap) /\ (pc = "icvp" => Top.sub \in 1 .. Len(heap))
  BY <1>1 DEF FrameOK, Kinds, IsKind, In
<1>4. Top.obj # 0 /\ (pc = "icvp" => Top.sub # 0)
  BY <1>1, <1>3
<1>5. Top.obj \in Hand /\ Top.obj # Ret /\ (pc = "icvp" => Top.sub \in Hand /\ Top.sub # Ret)
  BY <1>1, <1>4 DEF Variables
<1>6. pc = "icvp" => Top.sub # Top.obj
  BY <1>1, <1>4, TopDistinct DEF Distinct, Variables
<1>7. /\ Ret \in Puttable({Top.obj}) /\ Ret \in Changeable /\ Top.obj \in Changeable
      /\ pc = "icvp" => Top.sub \in Changeable
  BY <1>1, <1>5, HandChangeable
<1>8. ASSUME DatesValid(Rec)
      PROVE  /\ Begun(heap, Top.obj, Rec, "record", Rec, 1)
             /\ pc = "icvp" => CopyBegun(heap, Top.sub, Rec)
             /\ pc = "alias" => Rec.type = "pict"
  BY <1>1, <1>8, TopFilled DEF FrameFilled, In
<1>9. pc = "alias" => Top.tmp \in 1 .. Len(heap)
  <2> SUFFICES ASSUME pc = "alias" PROVE Top.tmp \in 1 .. Len(heap)
    OBVIOUS
  <2>1. Top.arg.alias.parses
    BY <1>1, BackFacts DEF In
  <2> QED
    BY <1>1, <2>1 DEF FrameOK, IsKind, In
<1> QED
  BY <1>1, <1>2, <1>3, <1>4, <1>5, <1>6, <1>7, <1>8, <1>9

(* What was returned is complete. *)
LEMMA RetComplete ==
  ASSUME IInv, DInv, NEW fn, NEW pc, Back(fn, pc), DatesValid(Rec), NEW kind, NEW x,
         Pending(Rec, Top) = Activation(kind, x)
  PROVE  Complete(heap, Ret, Rec, kind, x)
<1>1. stack # <<>> /\ ret # <<>> /\ Ret # 0
  BY BackHands
<1>2. Pending(Rec, Top).fn = kind /\ Pending(Rec, Top).arg = x
  BY DEF Activation
<1> QED
  BY <1>1, <1>2, TopFilled

(* The record in hand is one of the records. *)
LEMMA RecordSize ==
  ASSUME IInv, stack # <<>>
  PROVE  Rec.size \in Nat /\ Rec.alias \in Aliases /\ BookmarkSize \in Nat
<1>1. recs \in Inputs /\ n + 1 \in 1 .. Len(recs)
  BY ConvertFacts DEF IInv, TypeOK
<1> QED
  BY <1>1, InputsAssumption, SizesAssumption DEF Rec

LEMMA RecordBookmarkDoneData ==
  ASSUME IInv, SInv, DInv, RecordBookmarkDone
  PROVE  DInv'
<1> DEFINE d == Top.obj
           g == Set(heap, d, Item("data", Ret))
<1>1. Back("record", "bookmark") /\ heap' = CFRelease(g, Ret) /\ Return(d)
  BY DEF RecordBookmarkDone
<1>2. /\ stack # <<>> /\ Top.fn = "record" /\ Top.pc = "bookmark" /\ Top.arg = Rec
      /\ d \in 1 .. Len(heap) /\ d # 0 /\ d \in Changeable
      /\ Ret \in 1 .. Len(heap) /\ Ret # d /\ Ret \in Puttable({d})
      /\ DatesValid(Rec) => Begun(heap, d, Rec, "record", Rec, 1)
  BY <1>1, RecordWaits
<1>3. ASSUME DatesValid(Rec)
      PROVE  /\ DataOf(Rec) = <<Part("data", <<"bookmark", Rec.mark>>)>>
             /\ <<"bookmark", Rec.mark>> \in Nodes(Rec)
             /\ Complete(heap, Ret, Rec, "bookmark", Rec.mark)
  <2>1. UsesBookmark(Rec)
    BY <1>1, <1>2, BackLevels DEF ActivationOK, PlaceOK, In
  <2>5. Rec.size \in Nat /\ BookmarkSize \in Nat
    BY <1>2, RecordSize
  <2>2. DataOf(Rec) = <<Part("data", <<"bookmark", Rec.mark>>)>>
    BY <2>1, <2>5 DEF UsesBookmark, DataOf, Structs, Others
  <2>3. Pending(Rec, Top) = Activation("bookmark", Rec.mark)
    BY <1>2 DEF Pending, In
  <2>4. Complete(heap, Ret, Rec, "bookmark", Rec.mark)
    BY <1>1, <1>3, <2>3, RetComplete
  <2> QED
    BY <2>2, <2>4, NodesAre
<1>4. Going(heap, {d})
  BY GoingStarts
<1> HIDE DEF d
<1>5. /\ Going(g, {d}) /\ Len(g) = Len(heap)
      /\ DatesValid(Rec) => Complete(g, d, Rec, "record", Rec)
  BY <1>2, <1>3, <1>4, DataSet
<1> HIDE DEF g
<1>6. Going(heap', {d}) /\ KeepsBegun(g, heap', 0)
  <2>1. Ret \in 1 .. Len(g)
    BY <1>2, <1>5
  <2> QED
    BY <1>1, <1>5, <2>1, GoOnRelease
<1>7. DatesValid(Rec) => Complete(heap', d, Rec, "record", Rec)
  BY <1>2, <1>5, <1>6 DEF KeepsBegun, Complete
<1> QED
  BY <1>1, <1>2, <1>6, <1>7, ReturnGoes

LEMMA RecordAliasDoneData ==
  ASSUME IInv, SInv, DInv, RecordAliasDone
  PROVE  DInv'
<1> DEFINE d == Top.obj
           g == Set(heap, d, Item("data", Ret))
           f == CFRelease(g, Ret)
<1>1. Back("record", "alias") /\ heap' = CFRelease(f, Top.tmp) /\ Return(d)
  BY DEF RecordAliasDone
<1>2. /\ stack # <<>> /\ Top.fn = "record" /\ Top.pc = "alias" /\ Top.arg = Rec
      /\ d \in 1 .. Len(heap) /\ d # 0 /\ d \in Changeable
      /\ Ret \in 1 .. Len(heap) /\ Ret # d /\ Ret \in Puttable({d}) /\ Top.tmp \in 1 .. Len(heap)
      /\ DatesValid(Rec) => Begun(heap, d, Rec, "record", Rec, 1) /\ Rec.type = "pict"
  BY <1>1, RecordWaits
<1>3. ASSUME DatesValid(Rec)
      PROVE  /\ DataOf(Rec) = <<Part("data", <<"alias", Rec.alias>>)>>
             /\ <<"alias", Rec.alias>> \in Nodes(Rec)
             /\ Complete(heap, Ret, Rec, "alias", Rec.alias)
  <2>1. UsesAlias(Rec)
    BY <1>1, <1>2, BackLevels DEF ActivationOK, PlaceOK, In
  <2>2. DataOf(Rec) = <<Part("data", <<"alias", Rec.alias>>)>>
    BY <1>2, <1>3, <2>1 DEF UsesAlias, DataOf, Structs, Others
  <2>3. Pending(Rec, Top) = Activation("alias", Rec.alias)
    BY <1>2 DEF Pending, In
  <2>4. Complete(heap, Ret, Rec, "alias", Rec.alias)
    BY <1>1, <1>3, <2>3, RetComplete
  <2>5. Rec.alias \in Aliases
    BY <1>2, RecordSize
  <2> QED
    BY <2>2, <2>4, <2>5, NodesAre
<1>4. Going(heap, {d})
  BY GoingStarts
<1> HIDE DEF d
<1>5. /\ Going(g, {d}) /\ Len(g) = Len(heap)
      /\ DatesValid(Rec) => Complete(g, d, Rec, "record", Rec)
  BY <1>2, <1>3, <1>4, DataSet
<1> HIDE DEF g
<1>6. Going(f, {d}) /\ KeepsBegun(g, f, 0) /\ Len(f) = Len(heap)
  <2>1. Ret \in 1 .. Len(g)
    BY <1>2, <1>5
  <2> QED
    BY <1>5, <2>1, GoOnRelease
<1> HIDE DEF f
<1>7. Going(heap', {d}) /\ KeepsBegun(f, heap', 0)
  BY <1>1, <1>2, <1>6, GoOnRelease
<1>8. DatesValid(Rec) => Complete(heap', d, Rec, "record", Rec)
  BY <1>2, <1>5, <1>6, <1>7 DEF KeepsBegun, Complete
<1> QED
  BY <1>1, <1>2, <1>7, <1>8, ReturnGoes

(* The items after one took the place of another. *)
LEMMA ReplacedItems ==
  ASSUME NEW h, IsHeap(h), NEW d \in 1 .. Len(h), NEW k \in 1 .. Len(h[d].items),
         NEW it, IsItem(it, Len(h))
  PROVE  Replace(h, d, k, it)[d].items = With(h[d].items, k, it)
<1> DEFINE g == Replace(h, d, k, it)
<1>1. Grown(h, g, {d}, {it.ref}) /\ Len(g) = Len(h) /\ g[d].items = With(h[d].items, k, it)
  BY GrowReplace
<1> QED
  BY <1>1

(* The alias takes the place of the bytes in the copy of a list. *)
LEMMA BytesReplaced ==
  ASSUME NEW h, IsHeap(h), NEW c, NEW r, CopyBegun(h, c, r), c \notin Referred(h),
         r.alias \in Aliases, NEW o, o # c, Complete(h, o, r, "alias", r.alias)
  PROVE  Complete(Set(h, c, Item("backgroundImageAlias", o)), c, r, "icvp", r)
<1> DEFINE it == Item("backgroundImageAlias", o)
           g == Set(h, c, it)
<1>1. <<"alias", r.alias>> \in Nodes(r) /\ <<"icvp", r>> \in Nodes(r)
  BY NodesAre
<1>2. /\ IsItem(it, Len(h)) /\ it.key = "backgroundImageAlias" /\ it.ref = o
      /\ Shows(h, it, r, Part("backgroundImageAlias", <<"alias", r.alias>>))
  BY <1>1, ItemShows
<1> HIDE DEF it
<1>3. /\ c \in 1 .. Len(h) /\ h[c].lit = r.plist /\ Len(h[c].items) = 2
      /\ Shows(h, h[c].items[1], r, Text("view", "icons"))
      /\ h[c].items[2].key = "backgroundImageAlias"
      /\ DOMAIN h[c].items = 1 .. 2 /\ IsSequence(h[c].items) /\ Len(h) \in Nat
      /\ \A k \in 1 .. 2 : IsItem(h[c].items[k], Len(h)) /\ h[c].items[k].ref \in Referred(h)
  BY HeapDomain DEF CopyBegun
<1>4. h[c].items[1].key = "view"
  BY <1>3 DEF Shows, Text
<1>5. SameKey(h, c, it) = {2}
  BY <1>2, <1>3, <1>4 DEF SameKey
<1>6. Grown(h, g, {c}, {o}) /\ Len(g) = Len(h) /\ g[c].items = With(h[c].items, 2, it)
  <2>1. 2 \in 1 .. Len(h[c].items)
    BY <1>3
  <2>2. Grown(h, g, {c}, {it.ref}) /\ Len(g) = Len(h)
    BY <1>2, <1>3, GrowSet
  <2>3. g[c].items = With(h[c].items, 2, it)
    <3>1. {k \in DOMAIN h[c].items : h[c].items[k].key = it.key} = {2}
      BY <1>5 DEF SameKey
    <3>2. (CHOOSE k \in {2} : TRUE) = 2
      OBVIOUS
    <3>3. g = Replace(h, c, 2, it)
      BY <3>1, <3>2 DEF g, Set
    <3>4. Replace(h, c, 2, it)[c].items = With(h[c].items, 2, it)
      BY <1>2, <1>3, <2>1, ReplacedItems
    <3> QED
      BY <3>3, <3>4
  <2> QED
    BY <1>2, <2>2, <2>3
<1> HIDE DEF g
<1>7. /\ Len(g[c].items) = 2 /\ g[c].items[1] = h[c].items[1] /\ g[c].items[2] = it
      /\ g[c].lit = r.plist
  <2>1. Len(g[c].items) = 2 /\ g[c].items[1] = h[c].items[1] /\ g[c].items[2] = it
    BY <1>3, <1>6, ExceptSequence
  <2> QED
    BY <1>3, <1>6, <2>1 DEF Grown
<1>8. {c} \intersect Referred(h) = {} /\ h[c].items[1].ref \notin {c} /\ it.ref \notin {c}
  BY <1>2, <1>3
<1>9. Shows(g, g[c].items[1], r, Text("view", "icons"))
  BY <1>3, <1>6, <1>7, <1>8, ShowsKept
<1>10. Shows(g, g[c].items[2], r, Part("backgroundImageAlias", <<"alias", r.alias>>))
  BY <1>2, <1>6, <1>7, <1>8, ShowsKept
<1>11. /\ Len(Contents(r, "icvp", r)) = 2 /\ Contents(r, "icvp", r)[1] = Text("view", "icons")
       /\ Contents(r, "icvp", r)[2] = Part("backgroundImageAlias", <<"alias", r.alias>>)
  BY DEF Contents
<1>12. Data(r)[<<"icvp", r>>].lit = r.plist
  BY <1>1, DataOfNode
<1>13. Begun(g, c, r, "icvp", r, 2)
  <2>1. \A k \in 1 .. 2 : Shows(g, g[c].items[k], r, Contents(r, "icvp", r)[k])
    <3>1. \A k \in 1 .. 2 : k = 1 \/ k = 2
      OBVIOUS
    <3> QED
      BY <1>9, <1>10, <1>11, <3>1
  <2> QED
    BY <1>3, <1>6, <1>7, <1>11, <1>12, <2>1 DEF Begun
<1>14. Complete(g, c, r, "icvp", r)
  BY <1>11, <1>13, CompleteIf
<1> QED
  BY <1>14 DEF g, it

LEMMA IcvpAliasDoneData ==
  ASSUME IInv, SInv, DInv, IcvpAliasDone
  PROVE  DInv'
<1> DEFINE d == Top.obj
           c == Top.sub
           g == Set(heap, c, Item("backgroundImageAlias", Ret))
<1>1. Back("record", "icvp") /\ heap' = Set(g, d, Item("data", c)) /\ Return(d)
  BY DEF IcvpAliasDone
<1>2. /\ stack # <<>> /\ Top.fn = "record" /\ Top.pc = "icvp" /\ Top.arg = Rec
      /\ d \in 1 .. Len(heap) /\ d # 0 /\ d \in Changeable /\ Ret \in Hand
      /\ Ret \in 1 .. Len(heap) /\ Ret # d /\ c \in 1 .. Len(heap) /\ c \in Changeable
      /\ c # Ret /\ c # d /\ c \in Hand /\ IsHeap(heap) /\ Len(heap) \in Nat
      /\ DatesValid(Rec) => Begun(heap, d, Rec, "record", Rec, 1) /\ CopyBegun(heap, c, Rec)
  BY <1>1, RecordWaits
<1>3. ASSUME DatesValid(Rec)
      PROVE  /\ DataOf(Rec) = <<Part("data", <<"icvp", Rec>>)>>
             /\ <<"icvp", Rec>> \in Nodes(Rec)
             /\ Complete(heap, Ret, Rec, "alias", Rec.alias) /\ Rec.alias \in Aliases
  <2>1. UsesAlias(Rec) /\ Rec.type = "icvp"
    <3>1. RecordOK(Top)
      BY <1>1, BackHands
    <3> QED
      BY <1>1, <1>2, <3>1, BackLevels DEF ActivationOK, PlaceOK, In, RecordOK
  <2>2. DataOf(Rec) = <<Part("data", <<"icvp", Rec>>)>>
    BY <2>1 DEF UsesAlias, DataOf, Structs, Others
  <2>3. Pending(Rec, Top) = Activation("alias", Rec.alias)
    BY <1>2 DEF Pending, In
  <2>4. Complete(heap, Ret, Rec, "alias", Rec.alias)
    BY <1>1, <1>3, <2>3, RetComplete
  <2>5. Rec.alias \in Aliases
    BY <1>2, RecordSize
  <2> QED
    BY <2>2, <2>4, <2>5, NodesAre
<1>4. Going(heap, {d, c}) /\ Going(heap, {d})
  BY GoingStarts
<1>5. Ret \in Puttable({d, c}) /\ c \in Puttable({d})
  BY <1>2, HandChangeable
<1> HIDE DEF d, c
<1>6. d \notin Referred(heap) /\ c \notin Referred(heap)
  BY <1>2, <1>4, NotReferred
<1>7. Going(g, {d, c}) /\ Len(g) = Len(heap) /\ KeepsBegun(heap, g, c)
  <2>1. IsItem(Item("backgroundImageAlias", Ret), Len(heap)) /\ Item("backgroundImageAlias", Ret).ref = Ret
    <3>1. Ret \in 0 .. Len(heap)
      BY <1>2
    <3> QED
      BY <1>2, <3>1, ItemIsItem
  <2> QED
    BY <1>2, <1>4, <1>5, <1>6, <2>1, GoOnSet
<1>8. Going(g, {d})
  BY <1>7, GoingLess
<1>9. ASSUME DatesValid(Rec)
      PROVE  Begun(g, d, Rec, "record", Rec, 1) /\ Complete(g, c, Rec, "icvp", Rec)
  <2>1. Begun(g, d, Rec, "record", Rec, 1)
    BY <1>2, <1>7, <1>9 DEF KeepsBegun
  <2>2. Complete(g, c, Rec, "icvp", Rec)
    BY <1>2, <1>3, <1>6, <1>9, BytesReplaced
  <2> QED
    BY <2>1, <2>2
<1> HIDE DEF g
<1>10. /\ Going(heap', {d}) /\ (DatesValid(Rec) => Complete(heap', d, Rec, "record", Rec))
  <2>1. d \in 1 .. Len(g) /\ c \in 1 .. Len(g)
    BY <1>2, <1>7
  <2> QED
    BY <1>1, <1>2, <1>3, <1>5, <1>8, <1>9, <2>1, DataSet
<1> QED
  BY <1>1, <1>2, <1>10, ReturnGoes

-----------------------------------------------------------------------------
(* What the functions for bookmarks and aliases make.                      *)

(* A container with its first item, and an empty array. *)
LEMMA PairMade ==
  ASSUME IInv, DInv, NEW site, NEW key, NEW lit, NEW array,
         heap' = NewContainer(SetNumber(NewContainer(heap, site), Len(heap) + 1, key, lit), array),
         NEW S, Len(heap) + 1 \in S, Len(heap) + 2 \notin S,
         NEW kind, kind \notin {"plist", "icvp"}, NEW x, <<kind, x>> \in Nodes(Rec),
         1 <= Len(Contents(Rec, kind, x)), Contents(Rec, kind, x)[1] = Text(key, lit),
         NEW many, many \notin {"plist", "icvp"}, NEW y, <<many, y>> \in Nodes(Rec),
         0 <= Len(Contents(Rec, many, y))
  PROVE  /\ Going(heap', S) /\ Len(heap') = Len(heap) + 3 /\ Len(heap) \in Nat
         /\ KeepsBegun(heap, heap', Len(heap) + 1)
         /\ Begun(heap', Len(heap) + 1, Rec, kind, x, 1) /\ Begun(heap', Len(heap) + 3, Rec, many, y, 0)
         /\ {Len(heap) + 1, Len(heap) + 3} \subseteq Changeable
<1> DEFINE d == Len(heap) + 1
           f == NewContainer(heap, site)
           g == SetNumber(f, d, key, lit)
<1>0. heap' = New(g, array, NoText)
  BY DEF NewContainer
<1>1. Going(heap, S) /\ IsHeap(heap) /\ Len(heap) \in Nat
  BY GoingStarts
<1>2. IsHeap(f) /\ Len(f) = d
  BY <1>1, Lengths DEF NewContainer
<1>3. IsHeap(g) /\ Len(g) = Len(f) + 1
  <2>1. d \in 1 .. Len(f)
    BY <1>1, <1>2
  <2> HIDE DEF f, d
  <2>2. NumberPut(f, g, d, key, lit)
    BY <1>2, <2>1, GrowNumber
  <2> HIDE DEF g
  <2> QED
    BY <1>2, <2>2 DEF NumberPut, Grown
<1>4. IsHeap(heap') /\ Len(heap') = Len(g) + 1
  <2> HIDE DEF g
  <2> QED
    BY <1>0, <1>3, Lengths
<1>5. Len(heap') = Len(heap) + 3 /\ Len(heap') \in Nat /\ Len(g) + 1 = Len(heap) + 3
  <2> HIDE DEF f, g
  <2> QED
    BY <1>1, <1>2, <1>3, <1>4
<1>6. /\ d \in Changeable /\ d # 0 /\ Len(heap) + 2 \in Puttable(S) /\ Len(heap) + 3 \in Changeable
      /\ d \in 1 .. Len(f) /\ Len(f) + 1 = Len(heap) + 2
  <2>1. d \in Changeable /\ d # 0
    BY <1>1, <1>5, NewChangeable
  <2>2. Len(heap) + 2 \in Puttable(S)
    BY <1>1, <1>5, NewChangeable
  <2>3. Len(heap) + 3 \in Changeable
    BY <1>1, <1>5, NewChangeable
  <2> HIDE DEF f
  <2> QED
    BY <1>1, <1>2, <2>1, <2>2, <2>3
<1>7. Going(f, S) /\ KeepsBegun(heap, f, d)
  BY <1>1, GoOnNew DEF NewContainer
<1>8. Begun(g, d, Rec, kind, x, 1)
  BY <1>1, OpenBegun
<1> HIDE DEF f
<1>9. d \notin Referred(f)
  BY <1>6, <1>7, NotReferred
<1>10. Going(g, S) /\ KeepsBegun(f, g, d)
  BY <1>6, <1>7, <1>9, GoOnNumber
<1> HIDE DEF g
<1>11. Going(heap', S) /\ \A o : KeepsBegun(g, heap', o)
  BY <1>0, <1>10, GoOnNew
<1>12. Begun(heap', Len(g) + 1, Rec, many, y, 0)
  BY <1>0, <1>3, BegunNew
<1>13. Begun(heap', d, Rec, kind, x, 1)
  BY <1>1, <1>8, <1>11 DEF KeepsBegun
<1>14. KeepsBegun(heap, heap', d)
  <2>1. KeepsBegun(g, heap', d)
    BY <1>11
  <2> QED
    BY <1>7, <1>10, <2>1 DEF KeepsBegun
<1> QED
  BY <1>1, <1>5, <1>6, <1>11, <1>12, <1>13, <1>14

(* A container with two items is complete with its second, the object o. *)
SecondIs(h, d, key, o, kind, x, part, y) ==
  /\ Begun(h, d, Rec, kind, x, 1) /\ Len(Contents(Rec, kind, x)) = 2
  /\ Contents(Rec, kind, x)[1].key # key
  /\ Contents(Rec, kind, x)[2] = Part(key, <<part, y>>)
  /\ <<part, y>> \in Nodes(Rec) /\ Complete(h, o, Rec, part, y)

(* The step goes on: it puts o into d. *)
LEMMA PutGoes ==
  ASSUME IInv, DInv, NEW d, d \in Changeable, NEW S, d \in S, NEW h, Going(h, S), d \in 1 .. Len(h),
         NEW key, NEW o \in 1 .. Len(h), o \in Puttable(S)
  PROVE  /\ Going(Set(h, d, Item(key, o)), S) /\ Len(Set(h, d, Item(key, o))) = Len(h)
         /\ KeepsBegun(h, Set(h, d, Item(key, o)), d)
<1> DEFINE it == Item(key, o)
<1>1. IsHeap(h) /\ Len(h) \in Nat
  BY GoingFacts
<1>2. IsItem(it, Len(h)) /\ it.ref = o
  BY <1>1, ItemIsItem DEF Item
<1>3. d \notin Referred(h)
  BY NotReferred
<1> HIDE DEF it
<1>4. Going(Set(h, d, it), S) /\ Len(Set(h, d, it)) = Len(h) /\ KeepsBegun(h, Set(h, d, it), d)
  BY <1>2, <1>3, GoOnSet
<1> QED
  BY <1>4 DEF it

(* The second entry completes a dictionary. *)
LEMMA PartSet ==
  ASSUME IInv, DInv, NEW d, d \in Changeable, NEW S, d \in S, NEW h, Going(h, S),
         NEW key, NEW o, o \in Puttable(S), NEW kind, NEW x, NEW part, NEW y,
         SecondIs(h, d, key, o, kind, x, part, y)
  PROVE  Complete(Set(h, d, Item(key, o)), d, Rec, kind, x)
<1> DEFINE it == Item(key, o)
<1>1. IsHeap(h)
  BY GoingFacts
<1>2. IsItem(it, Len(h)) /\ it.ref = o /\ it.key = key /\ Shows(h, it, Rec, Part(key, <<part, y>>))
  BY <1>1, ItemShows DEF SecondIs
<1>3. d \notin Referred(h) /\ o # d
  BY NotReferred DEF Puttable
<1> HIDE DEF it
<1>4. NewKey(Rec, kind, x, 1, it.key)
  BY <1>2 DEF NewKey, SecondIs
<1>5. /\ 1 + 1 <= Len(Contents(Rec, kind, x)) /\ Contents(Rec, kind, x)[1 + 1] = Part(key, <<part, y>>)
      /\ 1 + 1 = Len(Contents(Rec, kind, x))
  <2>1. Len(Contents(Rec, kind, x)) = 2 /\ Contents(Rec, kind, x)[2] = Part(key, <<part, y>>)
    BY DEF SecondIs
  <2> QED
    BY <2>1
<1>6. Begun(Set(h, d, it), d, Rec, kind, x, 1 + 1)
  BY <1>1, <1>2, <1>3, <1>4, <1>5, BegunSet DEF SecondIs
<1>7. Complete(Set(h, d, it), d, Rec, kind, x)
  BY <1>5, <1>6, CompleteIf
<1> QED
  BY <1>7 DEF it

(* An array has one element more. *)
LEMMA ElementAdded ==
  ASSUME IInv, DInv, NEW d, d \in Changeable, NEW S, d \in S, NEW h, Going(h, S), d \in 1 .. Len(h),
         NEW o \in 1 .. Len(h), o \in Puttable(S), NEW kind, NEW x, NEW i, NEW part, NEW y,
         DatesValid(Rec) =>
           /\ Begun(h, d, Rec, kind, x, i) /\ i + 1 <= Len(Contents(Rec, kind, x))
           /\ Contents(Rec, kind, x)[i + 1] = Part(NoText, <<part, y>>)
           /\ <<part, y>> \in Nodes(Rec) /\ Complete(h, o, Rec, part, y)
  PROVE  /\ Going(Add(h, d, Element(o)), S) /\ Len(Add(h, d, Element(o))) = Len(h)
         /\ KeepsBegun(h, Add(h, d, Element(o)), d)
         /\ DatesValid(Rec) => Begun(Add(h, d, Element(o)), d, Rec, kind, x, i + 1)
<1> DEFINE it == Item(NoText, o)
           g == Add(h, d, it)
<1>1. IsHeap(h) /\ Len(h) \in Nat
  BY GoingFacts
<1>2. IsItem(it, Len(h)) /\ it.ref = o
  BY <1>1, ItemIsItem DEF Item
<1>3. d \notin Referred(h) /\ o # d
  BY NotReferred DEF Puttable
<1>5. ASSUME DatesValid(Rec) PROVE Shows(h, it, Rec, Part(NoText, <<part, y>>))
  BY <1>1, <1>5, ItemShows
<1>7. Element(o) = it
  BY DEF Element
<1> HIDE DEF it
<1>4. Going(g, S) /\ Len(g) = Len(h) /\ KeepsBegun(h, g, d)
  BY <1>2, <1>3, GoOnAdd
<1>6. ASSUME DatesValid(Rec) PROVE Begun(g, d, Rec, kind, x, i + 1)
  BY <1>1, <1>2, <1>3, <1>5, <1>6, BegunAdd
<1> QED
  BY <1>4, <1>6, <1>7

TwoItems(r, kind, x, a, b) ==
  /\ Len(Contents(r, kind, x)) = 2 /\ 1 <= Len(Contents(r, kind, x))
  /\ Contents(r, kind, x)[1] = a /\ Contents(r, kind, x)[2] = b

(* The containers that have two items. *)
LEMMA Pairs ==
  ASSUME NEW r, NEW x
  PROVE  /\ TwoItems(r, "icvp", x, Text("view", "icons"),
                     Part("backgroundImageAlias", <<"alias", x.alias>>))
         /\ TwoItems(r, "bookmark", x, Text("fields", "header"), Part("tocs", <<"tocs", x>>))
         /\ TwoItems(r, "toc", x, Text("fields", "toc"), Part("entries", <<"entries", x>>))
         /\ TwoItems(r, "item", x, TypeItem(x), ValueItem(x))
         /\ TwoItems(r, "alias", x, Text("fields", x.lit), Part("metadata", <<"metadata", x>>))
         /\ TwoItems(r, "meta", x, Text("tag", x.tag), MetaItem(x))
<1>1. ASSUME NEW kind, NEW a, NEW b, Contents(r, kind, x) = <<a, b>>
      PROVE  TwoItems(r, kind, x, a, b)
  <2>1. Len(Contents(r, kind, x)) = 2 /\ Contents(r, kind, x)[1] = a /\ Contents(r, kind, x)[2] = b
    BY <1>1
  <2> QED
    BY <2>1 DEF TwoItems
<1>2. TwoItems(r, "icvp", x, Text("view", "icons"), Part("backgroundImageAlias", <<"alias", x.alias>>))
  BY <1>1 DEF Contents
<1>3. TwoItems(r, "bookmark", x, Text("fields", "header"), Part("tocs", <<"tocs", x>>))
  BY <1>1 DEF Contents
<1>4. TwoItems(r, "toc", x, Text("fields", "toc"), Part("entries", <<"entries", x>>))
  BY <1>1 DEF Contents
<1>5. TwoItems(r, "item", x, TypeItem(x), ValueItem(x))
  BY <1>1 DEF Contents
<1>6. TwoItems(r, "alias", x, Text("fields", x.lit), Part("metadata", <<"metadata", x>>))
  BY <1>1 DEF Contents
<1>7. TwoItems(r, "meta", x, Text("tag", x.tag), MetaItem(x))
  BY <1>1 DEF Contents
<1> QED
  BY <1>2, <1>3, <1>4, <1>5, <1>6, <1>7

(* The arrays of tables and of entries, and of an array's elements. *)
LEMMA Tocs ==
  ASSUME NEW r, NEW x, Len(TablesOf(x)) \in Nat
  PROVE  /\ Len(Contents(r, "tocs", x)) = Len(TablesOf(x))
         /\ \A k \in 1 .. Len(TablesOf(x)) :
              Contents(r, "tocs", x)[k] = Part(NoText, <<"toc", TablesOf(x)[k]>>)
<1>1. Contents(r, "tocs", x) = [k \in 1 .. Len(TablesOf(x)) |-> Part(NoText, <<"toc", TablesOf(x)[k]>>)]
  BY DEF Contents
<1> QED
  BY <1>1

(* The entries of a table. *)
LEMMA EntriesShown ==
  ASSUME NEW r, NEW x, x.count \in Nat
  PROVE  /\ Len(Contents(r, "entries", x)) = x.count
         /\ \A k \in 1 .. x.count :
              Contents(r, "entries", x)[k] = Part(NoText, <<"entry", x.entries[k]>>)
<1>1. Contents(r, "entries", x) = [k \in 1 .. x.count |-> Part(NoText, <<"entry", x.entries[k]>>)]
  BY DEF Contents
<1> QED
  BY <1>1

(* The elements of an array. *)
LEMMA ElementsShown ==
  ASSUME NEW r, NEW x, Elements(x) \in Nat
  PROVE  /\ Len(Contents(r, "array", x)) = Elements(x)
         /\ \A k \in 1 .. Elements(x) :
              Contents(r, "array", x)[k] = Part(NoText, <<"item", r.mark.items[x.elems[k]]>>)
<1>1. Contents(r, "array", x) = [k \in 1 .. Elements(x) |-> Part(NoText, <<"item", r.mark.items[x.elems[k]]>>)]
  BY DEF Contents
<1> QED
  BY <1>1

(* The entries of an alias. *)
LEMMA MetadataShown ==
  ASSUME NEW r, NEW x, Len(x.metadata) \in Nat
  PROVE  /\ Len(Contents(r, "metadata", x)) = Len(x.metadata)
         /\ \A k \in 1 .. Len(x.metadata) :
              Contents(r, "metadata", x)[k] = Part(NoText, <<"meta", x.metadata[k]>>)
<1>1. Contents(r, "metadata", x) = [k \in 1 .. Len(x.metadata) |-> Part(NoText, <<"meta", x.metadata[k]>>)]
  BY DEF Contents
<1> QED
  BY <1>1

(* The numbers in an entry of an alias. *)
LEMMA CnidsShown ==
  ASSUME NEW r, NEW x, x.length \div 4 \in Nat
  PROVE  /\ Len(Contents(r, "cnids", x)) = x.length \div 4
         /\ \A k \in 1 .. x.length \div 4 : Contents(r, "cnids", x)[k] = Text(NoText, x.lit)
<1>1. Contents(r, "cnids", x) = [k \in 1 .. x.length \div 4 |-> Text(NoText, x.lit)]
  BY DEF Contents
<1> QED
  BY <1>1

(* What is filled in a frame for a bookmark, an item or an alias. *)
LEMMA BookmarkFrameFilled ==
  ASSUME NEW h, NEW r, NEW fr, fr.fn = "bookmark", fr.pc \in {"tocs", "entries", "entry"},
         Begun(h, fr.obj, r, "bookmark", fr.arg, 1), Begun(h, fr.arr, r, "tocs", fr.arg, fr.i),
         fr.pc # "tocs" => /\ Begun(h, fr.sub, r, "toc", TableIn(fr), 1)
                           /\ Begun(h, fr.subarr, r, "entries", TableIn(fr), fr.j),
         fr.pc = "entry" => fr.j < TableIn(fr).count
  PROVE  FrameFilled(h, r, fr)
BY DEF FrameFilled, In

(* What is filled in a frame for an item. *)
LEMMA ItemFrameFilled ==
  ASSUME NEW h, NEW r, NEW fr, fr.fn = "item", fr.pc \in {"array", "element"},
         Begun(h, fr.obj, r, "item", fr.arg, 1), Begun(h, fr.arr, r, "array", fr.arg, fr.i),
         fr.pc = "element" => fr.i < Elements(fr.arg)
  PROVE  FrameFilled(h, r, fr)
BY DEF FrameFilled, In

(* What is filled in a frame for an alias. *)
LEMMA AliasFrameFilled ==
  ASSUME NEW h, NEW r, NEW fr, fr.fn = "alias", fr.pc \in {"metadata", "nested", "cnids"},
         Begun(h, fr.obj, r, "alias", fr.arg, 1), Begun(h, fr.arr, r, "metadata", fr.arg, fr.i),
         fr.pc # "metadata" => fr.i < Len(fr.arg.metadata) /\ Begun(h, fr.sub, r, "meta", MetaIn(fr), 1),
         fr.pc = "nested" => MetaIn(fr).tag = "alias",
         fr.pc = "cnids" => IsCnids(MetaIn(fr)) /\ Begun(h, fr.subarr, r, "cnids", MetaIn(fr), fr.j)
  PROVE  FrameFilled(h, r, fr)
BY DEF FrameFilled, In

LEMMA BookmarkEnterData ==
  ASSUME IInv, SInv, DInv, BookmarkEnter
  PROVE  DInv'
<1> DEFINE d == Len(heap) + 1
           a == Len(heap) + 3
           S == {d, a}
           fr == [Top EXCEPT !.obj = d, !.arr = Len(heap'), !.pc = "tocs"]
<1>1. /\ At("bookmark", "enter") /\ Goto(fr)
      /\ heap' = NewContainer(SetNumber(NewContainer(heap, "pbbk"), d, "fields", "header"), "tocs")
  BY DEF BookmarkEnter
<1>2. /\ stack # <<>> /\ Top.arg = Rec.mark /\ IsMark(Rec.mark) /\ Top.fn = "bookmark"
      /\ DOMAIN Top = {"fn", "pc", "arg", "i", "j"} \union Variables /\ Top.i = 0
      /\ VariablesAre(Top, 0, 0, 0, 0, 0) /\ Len(heap) \in Nat
  BY <1>1, AtLevels, EnterFacts, TopFields DEF PlaceOK, VariablesAre
<1>3. Len(TablesOf(Rec.mark)) \in Nat
  BY <1>2, TableFacts
<1>4. {<<"bookmark", Rec.mark>>, <<"tocs", Rec.mark>>} \subseteq Nodes(Rec)
  BY NodesAre
<1>5. TwoItems(Rec, "bookmark", Rec.mark, Text("fields", "header"), Part("tocs", <<"tocs", Rec.mark>>))
  BY Pairs
<1>6. 0 <= Len(Contents(Rec, "tocs", Rec.mark))
  BY <1>3, Tocs
<1>7. /\ Going(heap', S) /\ Len(heap') = a
      /\ Begun(heap', d, Rec, "bookmark", Rec.mark, 1) /\ Begun(heap', a, Rec, "tocs", Rec.mark, 0)
      /\ S \subseteq Changeable
  <2>1. d \in S /\ Len(heap) + 2 \notin S
    BY <1>2
  <2> QED
    BY <1>1, <1>4, <1>5, <1>6, <2>1, PairMade DEF TwoItems
<1>8. VariablesAre(fr, d, a, 0, 0, 0) /\ fr.fn = "bookmark" /\ fr.pc = "tocs" /\ fr.arg = Rec.mark /\ fr.i = 0
  BY <1>2, <1>7 DEF VariablesAre, Variables
<1> HIDE DEF fr
<1>9. Locals(fr) = S
  BY <1>2, <1>8, LocalsAre DEF VariablesAre
<1>10. FrameFilled(heap', Rec, fr)
  BY <1>7, <1>8, BookmarkFrameFilled DEF VariablesAre
<1> HIDE DEF S
<1> QED
  BY <1>1, <1>2, <1>7, <1>9, <1>10, GotoGoes

(* The object o is one of the variables of the running function. *)
InHand(o) == o \in Hand /\ o \in Changeable /\ o \in 1 .. Len(heap) /\ o # 0

(* The variables of the running function are in its hand. *)
LEMMA TopInHand ==
  ASSUME IInv, DInv, stack # <<>>, NEW v \in Variables, Top[v] \in 1 .. Len(heap), Len(heap) \in Nat
  PROVE  InHand(Top[v]) /\ Top[v] \in Locals(Top)
<1>1. Top[v] # 0
  OBVIOUS
<1>2. Top[v] \in Locals(Top)
  BY <1>1 DEF Locals
<1>3. Top[v] \in Hand
  BY <1>2 DEF Hand
<1> QED
  BY <1>1, <1>2, <1>3, HandChangeable DEF InHand

(* What _pBBk_record_copy_dictionary has in hand. *)
LEMMA BookmarkFrame ==
  ASSUME IInv, SInv, DInv, stack # <<>>, Top.fn = "bookmark", Top.pc \in {"tocs", "entries", "entry"}
  PROVE  /\ Top.arg = Rec.mark /\ IsMark(Rec.mark) /\ Len(heap) \in Nat /\ IsHeap(heap)
         /\ DOMAIN Top = {"fn", "pc", "arg", "i", "j"} \union Variables /\ Top.i \in Nat /\ Top.j \in Nat
         /\ InHand(Top.obj) /\ InHand(Top.arr) /\ Top.obj # Top.arr /\ Top.tmp = 0
         /\ Top.pc = "tocs" => /\ Top.sub = 0 /\ Top.subarr = 0 /\ Locals(Top) = {Top.obj, Top.arr}
         /\ Top.pc # "tocs" => /\ InHand(Top.sub) /\ InHand(Top.subarr) /\ Top.sub # Top.subarr
                               /\ {Top.sub, Top.subarr} \intersect {Top.obj, Top.arr} = {}
                               /\ Locals(Top) = {Top.obj, Top.arr, Top.sub, Top.subarr}
                               /\ Top.i < Len(TablesOf(Rec.mark))
         /\ DatesValid(Rec) =>
              /\ Begun(heap, Top.obj, Rec, "bookmark", Rec.mark, 1)
              /\ Begun(heap, Top.arr, Rec, "tocs", Rec.mark, Top.i)
              /\ Top.pc # "tocs" => /\ Begun(heap, Top.sub, Rec, "toc", TableIn(Top), 1)
                                    /\ Begun(heap, Top.subarr, Rec, "entries", TableIn(Top), Top.j)
              /\ Top.pc = "entry" => Top.j < TableIn(Top).count
<1>1. /\ Top.arg = Rec.mark /\ IsMark(Rec.mark) /\ Len(heap) \in Nat /\ FrameOK(heap, Top)
      /\ DOMAIN Top = {"fn", "pc", "arg", "i", "j"} \union Variables /\ Top.i \in Nat
  BY TopFields
<1>2. ActivationOK(Rec, Top, Len(stack)) /\ IsHeap(heap)
  BY RunFacts DEF IInv, HeapOK
<1>3. Top.j \in Nat /\ (Top.pc # "tocs" => Top.i < Len(TablesOf(Rec.mark)))
  BY <1>1, <1>2 DEF ActivationOK, PlaceOK
<1>4. /\ Top.obj \in 1 .. Len(heap) /\ Top.arr \in 1 .. Len(heap) /\ Top.tmp = 0
      /\ Top.pc = "tocs" => Top.sub = 0 /\ Top.subarr = 0
      /\ Top.pc # "tocs" => Top.sub \in 1 .. Len(heap) /\ Top.subarr \in 1 .. Len(heap)
  BY <1>1 DEF FrameOK, Kinds, IsKind, In
<1>5. InHand(Top.obj) /\ InHand(Top.arr) /\ (Top.pc # "tocs" => InHand(Top.sub) /\ InHand(Top.subarr))
  <2>1. \A v \in Variables : Top[v] \in 1 .. Len(heap) => InHand(Top[v])
    BY <1>1, TopInHand
  <2> QED
    BY <1>4, <2>1 DEF Variables
<1>6. /\ Top.obj # Top.arr
      /\ Top.pc # "tocs" => /\ Top.sub # Top.subarr
                            /\ {Top.sub, Top.subarr} \intersect {Top.obj, Top.arr} = {}
  <2>1. Distinct(Top)
    BY TopDistinct
  <2> QED
    BY <1>5, <2>1 DEF Distinct, Variables, InHand
<1>7. /\ Top.pc = "tocs" => Locals(Top) = {Top.obj, Top.arr}
      /\ Top.pc # "tocs" => Locals(Top) = {Top.obj, Top.arr, Top.sub, Top.subarr}
  BY <1>4, <1>5, LocalsAre DEF InHand
<1>8. ASSUME DatesValid(Rec)
      PROVE  /\ Begun(heap, Top.obj, Rec, "bookmark", Rec.mark, 1)
             /\ Begun(heap, Top.arr, Rec, "tocs", Rec.mark, Top.i)
             /\ Top.pc # "tocs" => /\ Begun(heap, Top.sub, Rec, "toc", TableIn(Top), 1)
                                   /\ Begun(heap, Top.subarr, Rec, "entries", TableIn(Top), Top.j)
             /\ Top.pc = "entry" => Top.j < TableIn(Top).count
  <2>1. FrameFilled(heap, Rec, Top)
    BY <1>8, TopFilled
  <2> QED
    BY <1>1, <2>1 DEF FrameFilled, In
<1> QED
  BY <1>1, <1>2, <1>3, <1>4, <1>5, <1>6, <1>7, <1>8

(* The table in hand. *)
LEMMA TableHere ==
  ASSUME NEW r, IsMark(r.mark), NEW i \in Nat, i < Len(TablesOf(r.mark)), NEW t, t = TablesOf(r.mark)[i + 1]
  PROVE  /\ Len(TablesOf(r.mark)) \in Nat /\ i + 1 \in 1 .. Len(TablesOf(r.mark)) /\ t.count \in Nat
         /\ {<<"toc", t>>, <<"entries", t>>} \subseteq Nodes(r)
         /\ \A k \in 1 .. t.count : <<"entry", t.entries[k]>> \in Nodes(r)
<1>1. Len(TablesOf(r.mark)) \in Nat
  BY TableFacts
<1>2. i + 1 \in 1 .. Len(TablesOf(r.mark))
  BY <1>1
<1> QED
  BY <1>1, <1>2, TableFacts, NodesAre

LEMMA BookmarkTocData ==
  ASSUME IInv, SInv, DInv, BookmarkToc
  PROVE  DInv'
<1> DEFINE d == Len(heap) + 1
           a == Len(heap) + 3
           S == {Top.obj, Top.arr, d, a}
           fr == [Top EXCEPT !.sub = d, !.subarr = Len(heap'), !.j = 0, !.pc = "entries"]
           t == TablesOf(Rec.mark)[Top.i + 1]
<1>1. /\ At("bookmark", "tocs") /\ Goto(fr) /\ Top.i < Len(TablesOf(Top.arg))
      /\ heap' = NewContainer(SetNumber(NewContainer(heap, "toc"), d, "fields", "toc"), "entries")
  BY DEF BookmarkToc
<1>2. stack # <<>> /\ Top.fn = "bookmark" /\ Top.pc = "tocs"
  BY <1>1, AtLevels
<1>3. /\ Top.arg = Rec.mark /\ IsMark(Rec.mark) /\ Len(heap) \in Nat /\ IsHeap(heap)
      /\ DOMAIN Top = {"fn", "pc", "arg", "i", "j"} \union Variables /\ Top.i \in Nat
      /\ InHand(Top.obj) /\ InHand(Top.arr) /\ Top.obj # Top.arr /\ Top.tmp = 0
      /\ DatesValid(Rec) =>
           /\ Begun(heap, Top.obj, Rec, "bookmark", Rec.mark, 1)
           /\ Begun(heap, Top.arr, Rec, "tocs", Rec.mark, Top.i)
  BY <1>2, BookmarkFrame
<1>4. /\ t.count \in Nat /\ {<<"toc", t>>, <<"entries", t>>} \subseteq Nodes(Rec)
  BY <1>1, <1>3, TableHere
<1>5. /\ TwoItems(Rec, "toc", t, Text("fields", "toc"), Part("entries", <<"entries", t>>))
      /\ 0 <= Len(Contents(Rec, "entries", t))
  <2> HIDE DEF t
  <2>1. TwoItems(Rec, "toc", t, Text("fields", "toc"), Part("entries", <<"entries", t>>))
    BY Pairs
  <2>2. Len(Contents(Rec, "entries", t)) = t.count
    BY <1>4, EntriesShown
  <2> QED
    BY <1>4, <2>1, <2>2
<1>6. Top.obj # d /\ Top.arr # d /\ d \in S /\ Len(heap) + 2 \notin S /\ Top.obj # 0 /\ Top.arr # 0 /\ a # 0 /\ d # 0
  BY <1>3 DEF InHand
<1>7. /\ Going(heap', S) /\ Len(heap') = a
      /\ KeepsBegun(heap, heap', d)
      /\ Begun(heap', d, Rec, "toc", t, 1) /\ Begun(heap', a, Rec, "entries", t, 0)
      /\ {d, a} \subseteq Changeable
  <2> HIDE DEF t, S
  <2> QED
    BY <1>1, <1>4, <1>5, <1>6, PairMade DEF TwoItems
<1>8. /\ VariablesAre(fr, Top.obj, Top.arr, d, a, 0) /\ fr.fn = "bookmark" /\ fr.pc = "entries"
      /\ fr.arg = Rec.mark /\ fr.i = Top.i /\ fr.j = 0
  BY <1>2, <1>3, <1>7 DEF VariablesAre, Variables
<1> HIDE DEF fr
<1>9. Locals(fr) = S
  BY <1>6, <1>8, LocalsAre DEF VariablesAre
<1>10. TableIn(fr) = t
  BY <1>8 DEF TableIn
<1> HIDE DEF t, d, a
<1>11. ASSUME DatesValid(Rec) PROVE FrameFilled(heap', Rec, fr)
  <2>1. Begun(heap', Top.obj, Rec, "bookmark", Rec.mark, 1) /\ Begun(heap', Top.arr, Rec, "tocs", Rec.mark, Top.i)
    BY <1>3, <1>6, <1>7, <1>11 DEF KeepsBegun
  <2> QED
    BY <1>7, <1>8, <1>10, <2>1, BookmarkFrameFilled DEF VariablesAre
<1>12. S \subseteq Changeable
  BY <1>3, <1>7 DEF InHand
<1> HIDE DEF S
<1> QED
  BY <1>1, <1>2, <1>7, <1>9, <1>11, <1>12, GotoGoes

LEMMA BookmarkEntryData ==
  ASSUME IInv, SInv, DInv, BookmarkEntry
  PROVE  DInv'
<1> DEFINE fr == [Top EXCEPT !.pc = "entry"]
           t == TablesOf(Rec.mark)[Top.i + 1]
           arg == t.entries[Top.j + 1].data
           S == {Top.obj, Top.arr, Top.sub, Top.subarr}
<1>1. At("bookmark", "entries")
  BY DEF BookmarkEntry
<1>2. stack # <<>> /\ Top.fn = "bookmark" /\ Top.pc = "entries" /\ ret = <<>>
  BY <1>1, AtLevels
<1>3. /\ Top.arg = Rec.mark /\ Len(heap) \in Nat /\ IsHeap(heap)
      /\ DOMAIN Top = {"fn", "pc", "arg", "i", "j"} \union Variables
      /\ InHand(Top.obj) /\ InHand(Top.arr) /\ InHand(Top.sub) /\ InHand(Top.subarr)
      /\ Locals(Top) = S
      /\ DatesValid(Rec) =>
           /\ Begun(heap, Top.obj, Rec, "bookmark", Rec.mark, 1)
           /\ Begun(heap, Top.arr, Rec, "tocs", Rec.mark, Top.i)
           /\ Begun(heap, Top.sub, Rec, "toc", TableIn(Top), 1)
           /\ Begun(heap, Top.subarr, Rec, "entries", TableIn(Top), Top.j)
  BY <1>2, BookmarkFrame
<1>4. Call(fr, "item", arg) /\ heap' = heap /\ Top.j < t.count
  BY <1>3 DEF BookmarkEntry
<1>5. /\ VariablesAre(fr, Top.obj, Top.arr, Top.sub, Top.subarr, Top.tmp)
      /\ fr.fn = "bookmark" /\ fr.pc = "entry" /\ fr.arg = Top.arg /\ fr.i = Top.i /\ fr.j = Top.j
  BY <1>2, <1>3 DEF VariablesAre, Variables
<1> HIDE DEF fr
<1>6. TableIn(fr) = TableIn(Top) /\ TableIn(Top) = t
  BY <1>3, <1>5 DEF TableIn
<1>7. Locals(fr) = S
  BY <1>3, <1>5, SameVariables
<1> HIDE DEF t, arg
<1>8. ASSUME DatesValid(Rec) PROVE FrameFilled(heap', Rec, fr)
  BY <1>3, <1>4, <1>5, <1>6, <1>8, BookmarkFrameFilled DEF VariablesAre
<1>9. Going(heap', S)
  BY <1>4, GoingStarts
<1>10. S \subseteq Changeable
  BY <1>3 DEF InHand
<1> HIDE DEF S
<1> QED
  BY <1>2, <1>4, <1>7, <1>8, <1>9, <1>10, CallGoes

(* The dictionary of an item becomes that of an entry. *)
LEMMA EntryBegun ==
  ASSUME NEW h, NEW o, NEW r, NEW e, <<"item", e.data>> \in Nodes(r), <<"entry", e>> \in Nodes(r),
         Complete(h, o, r, "item", e.data)
  PROVE  /\ Begun(h, o, r, "entry", e, 2) /\ Len(Contents(r, "entry", e)) = 3
         /\ Contents(r, "entry", e)[3] = Text("key", e.key) /\ NewKey(r, "entry", e, 2, "key")
<1>1. TwoItems(r, "item", e.data, TypeItem(e.data), ValueItem(e.data))
  BY Pairs
<1>2. /\ Len(Contents(r, "entry", e)) = 3 /\ Contents(r, "entry", e)[1] = TypeItem(e.data)
      /\ Contents(r, "entry", e)[2] = ValueItem(e.data) /\ Contents(r, "entry", e)[3] = Text("key", e.key)
  BY DEF Contents
<1>3. Data(r)[<<"item", e.data>>].lit = NoText /\ Data(r)[<<"entry", e>>].lit = NoText
  BY DataOfNode
<1>4. Begun(h, o, r, "item", e.data, 2)
  BY <1>1 DEF TwoItems, Complete
<1>5. \A k \in 1 .. 2 : Contents(r, "item", e.data)[k] = Contents(r, "entry", e)[k]
  <2>1. \A k \in 1 .. 2 : k = 1 \/ k = 2
    OBVIOUS
  <2> QED
    BY <1>1, <1>2, <2>1 DEF TwoItems
<1>6. Begun(h, o, r, "entry", e, 2)
  <2>1. 2 <= Len(Contents(r, "entry", e))
    BY <1>2
  <2> QED
    BY <1>3, <1>4, <1>5, <2>1 DEF Begun
<1>7. NewKey(r, "entry", e, 2, "key")
  <2>1. TypeItem(e.data).key = "data.type"
    BY DEF TypeItem, Text
  <2>2. ValueItem(e.data).key = "data.value"
    BY DEF ValueItem, Text, Part
  <2>3. \A k \in 1 .. 2 : k = 1 \/ k = 2
    OBVIOUS
  <2> QED
    BY <1>2, <2>1, <2>2, <2>3 DEF NewKey
<1> QED
  BY <1>2, <1>6, <1>7

(* A value is set in a dictionary that was returned. *)
LEMMA NumberSet ==
  ASSUME IInv, DInv, NEW d, d \in Changeable, NEW S, d \in S, NEW h, Going(h, S), d \in 1 .. Len(h),
         NEW key, NEW lit, Len(h) + 1 \in Puttable(S), NEW kind, NEW x, NEW i,
         DatesValid(Rec) =>
           /\ Begun(h, d, Rec, kind, x, i) /\ i + 1 <= Len(Contents(Rec, kind, x))
           /\ Contents(Rec, kind, x)[i + 1] = Text(key, lit) /\ NewKey(Rec, kind, x, i, key)
  PROVE  /\ Going(SetNumber(h, d, key, lit), S) /\ Len(SetNumber(h, d, key, lit)) = Len(h) + 1
         /\ KeepsBegun(h, SetNumber(h, d, key, lit), d)
         /\ DatesValid(Rec) => Begun(SetNumber(h, d, key, lit), d, Rec, kind, x, i + 1)
<1>1. IsHeap(h)
  BY GoingFacts
<1>2. d \notin Referred(h)
  BY NotReferred
<1>3. /\ Going(SetNumber(h, d, key, lit), S) /\ Len(SetNumber(h, d, key, lit)) = Len(h) + 1
      /\ KeepsBegun(h, SetNumber(h, d, key, lit), d)
  BY <1>2, GoOnNumber
<1>4. ASSUME DatesValid(Rec) PROVE Begun(SetNumber(h, d, key, lit), d, Rec, kind, x, i + 1)
  BY <1>1, <1>2, <1>4, BegunNumber
<1> QED
  BY <1>3, <1>4

LEMMA BookmarkEntryDoneData ==
  ASSUME IInv, SInv, DInv, BookmarkEntryDone
  PROVE  DInv'
<1> DEFINE t == TablesOf(Rec.mark)[Top.i + 1]
           e == t.entries[Top.j + 1]
           fr == [Top EXCEPT !.j = @ + 1, !.pc = "entries"]
           S == {Top.obj, Top.arr, Top.sub, Top.subarr}
           T == S \union {Ret}
           g == SetNumber(heap, Ret, "key", e.key)
<1>1. Back("bookmark", "entry") /\ Goto(fr)
  BY DEF BookmarkEntryDone
<1>2. /\ stack # <<>> /\ Top.fn = "bookmark" /\ Top.pc = "entry" /\ Ret \in Hand /\ Ret \in 1 .. Len(heap)
      /\ Ret # 0 /\ Ret \notin Locals(Top) /\ Ret \in Changeable
  BY <1>1, BackHands, HandChangeable
<1>3. /\ Top.arg = Rec.mark /\ IsMark(Rec.mark) /\ Len(heap) \in Nat /\ IsHeap(heap)
      /\ DOMAIN Top = {"fn", "pc", "arg", "i", "j"} \union Variables /\ Top.i \in Nat /\ Top.j \in Nat
      /\ InHand(Top.obj) /\ InHand(Top.arr) /\ InHand(Top.sub) /\ InHand(Top.subarr)
      /\ Locals(Top) = S /\ Top.i < Len(TablesOf(Rec.mark))
      /\ Top.subarr \notin {Top.obj, Top.arr, Top.sub} /\ Ret \notin S
      /\ DatesValid(Rec) =>
           /\ Begun(heap, Top.obj, Rec, "bookmark", Rec.mark, 1)
           /\ Begun(heap, Top.arr, Rec, "tocs", Rec.mark, Top.i)
           /\ Begun(heap, Top.sub, Rec, "toc", TableIn(Top), 1)
           /\ Begun(heap, Top.subarr, Rec, "entries", TableIn(Top), Top.j)
           /\ Top.j < TableIn(Top).count
  BY <1>2, BookmarkFrame
<1>4. heap' = Add(g, Top.subarr, Element(Ret)) /\ TableIn(Top) = t
  BY <1>3 DEF BookmarkEntryDone, TableIn
<1>5. /\ t.count \in Nat /\ Top.i + 1 \in 1 .. Len(TablesOf(Rec.mark))
      /\ \A k \in 1 .. t.count : <<"entry", t.entries[k]>> \in Nodes(Rec)
  BY <1>3, TableHere
<1>6. ASSUME DatesValid(Rec)
      PROVE  /\ Complete(heap, Ret, Rec, "item", e.data) /\ Top.j + 1 \in 1 .. t.count
             /\ <<"item", e.data>> \in Nodes(Rec) /\ <<"entry", e>> \in Nodes(Rec)
  <2>1. Top.j + 1 \in 1 .. t.count
    BY <1>3, <1>4, <1>5, <1>6
  <2>2. PICK o \in DOMAIN Rec.mark.items : e.data = Rec.mark.items[o]
    BY <1>3, <1>5, <2>1, TableFacts
  <2>3. <<"item", e.data>> \in Nodes(Rec)
    BY <2>2, NodesAre
  <2>4. Pending(Rec, Top) = Activation("item", e.data)
    BY <1>2, <1>3 DEF Pending, In
  <2>5. Complete(heap, Ret, Rec, "item", e.data)
    BY <1>1, <1>6, <2>4, RetComplete
  <2> QED
    BY <1>5, <2>1, <2>3, <2>5
<1>7. Going(heap, T)
  BY GoingStarts
<1>8. ASSUME DatesValid(Rec)
      PROVE  /\ Begun(heap, Ret, Rec, "entry", e, 2) /\ Len(Contents(Rec, "entry", e)) = 3
             /\ 2 + 1 <= Len(Contents(Rec, "entry", e))
             /\ Contents(Rec, "entry", e)[2 + 1] = Text("key", e.key) /\ NewKey(Rec, "entry", e, 2, "key")
  <2>1. /\ Begun(heap, Ret, Rec, "entry", e, 2) /\ Len(Contents(Rec, "entry", e)) = 3
        /\ Contents(Rec, "entry", e)[3] = Text("key", e.key) /\ NewKey(Rec, "entry", e, 2, "key")
    BY <1>6, <1>8, EntryBegun
  <2> QED
    BY <2>1
<1> HIDE DEF e, t
<1>9. Len(heap') = Len(heap) + 1
  <2>1. IsHeap(g) /\ Len(g) = Len(heap) + 1
    <3>1. NumberPut(heap, g, Ret, "key", e.key)
      BY <1>2, <1>3, GrowNumber
    <3> HIDE DEF g
    <3> QED
      BY <3>1 DEF NumberPut, Grown
  <2>2. Top.subarr \in 1 .. Len(g) /\ Ret \in 0 .. Len(g) /\ Len(g) \in Nat
    BY <1>2, <1>3, <2>1 DEF InHand
  <2>3. IsItem(Element(Ret), Len(g))
    BY <2>2, ItemIsItem DEF Element
  <2> HIDE DEF g
  <2> QED
    BY <1>4, <2>1, <2>2, <2>3, GrowAdd
<1>10. Len(heap) + 1 \in Puttable(T)
  <2>1. Len(heap) + 1 \notin T
    BY <1>2, <1>3 DEF InHand
  <2> HIDE DEF T
  <2> QED
    BY <1>3, <1>9, <2>1, NewChangeable
<1>11. /\ Going(g, T) /\ Len(g) = Len(heap) + 1 /\ KeepsBegun(heap, g, Ret)
       /\ DatesValid(Rec) => Begun(g, Ret, Rec, "entry", e, 2 + 1)
  <2>1. Ret \in T
    OBVIOUS
  <2> HIDE DEF T
  <2>2. Ret \notin Referred(heap)
    BY <1>2, <1>7, <2>1, NotReferred
  <2>3. Going(g, T) /\ Len(g) = Len(heap) + 1 /\ KeepsBegun(heap, g, Ret)
    BY <1>2, <1>7, <1>10, <2>2, GoOnNumber
  <2>4. ASSUME DatesValid(Rec) PROVE Begun(g, Ret, Rec, "entry", e, 2 + 1)
    <3>1. /\ Begun(heap, Ret, Rec, "entry", e, 2) /\ NewKey(Rec, "entry", e, 2, "key")
          /\ 2 + 1 <= Len(Contents(Rec, "entry", e))
          /\ Contents(Rec, "entry", e)[2 + 1] = Text("key", e.key)
      BY <1>8, <2>4
    <3> QED
      BY <1>3, <2>2, <3>1, BegunNumber
  <2> QED
    BY <2>3, <2>4
<1> HIDE DEF g
<1>12. Going(g, S)
  BY <1>11, GoingLess
<1>13. /\ Going(heap', S) /\ KeepsBegun(g, heap', Top.subarr)
       /\ DatesValid(Rec) => Begun(heap', Top.subarr, Rec, "entries", t, Top.j + 1)
  <2>1. /\ Top.subarr \in S /\ Top.subarr \in 1 .. Len(g) /\ Ret \in 1 .. Len(g) /\ Ret \in Puttable(S)
        /\ Top.subarr \in Changeable /\ Top.subarr # Ret
    <3>1. Ret \in Puttable(S)
      BY <1>2, <1>3 DEF Puttable
    <3> QED
      BY <1>2, <1>3, <1>11, <3>1 DEF InHand
  <2>2. ASSUME DatesValid(Rec)
        PROVE  /\ Begun(g, Top.subarr, Rec, "entries", t, Top.j)
               /\ Top.j + 1 <= Len(Contents(Rec, "entries", t))
               /\ Contents(Rec, "entries", t)[Top.j + 1] = Part(NoText, <<"entry", e>>)
               /\ <<"entry", e>> \in Nodes(Rec) /\ Complete(g, Ret, Rec, "entry", e)
    <3>1. Begun(g, Top.subarr, Rec, "entries", t, Top.j)
      BY <1>3, <1>4, <1>11, <2>1, <2>2 DEF KeepsBegun
    <3>2. /\ Len(Contents(Rec, "entries", t)) = t.count /\ Top.j + 1 \in 1 .. t.count
          /\ Contents(Rec, "entries", t)[Top.j + 1] = Part(NoText, <<"entry", e>>)
      BY <1>5, <1>6, <2>2, EntriesShown DEF e
    <3>3. 2 + 1 = Len(Contents(Rec, "entry", e))
      BY <1>8, <2>2
    <3>4. Complete(g, Ret, Rec, "entry", e)
      BY <1>11, <2>2, <3>3, CompleteIf
    <3> QED
      BY <1>5, <1>6, <2>2, <3>1, <3>2, <3>4
  <2> HIDE DEF S
  <2> QED
    BY <1>4, <1>12, <2>1, <2>2, ElementAdded
<1>14. /\ VariablesAre(fr, Top.obj, Top.arr, Top.sub, Top.subarr, Top.tmp)
       /\ fr.fn = "bookmark" /\ fr.pc = "entries" /\ fr.arg = Top.arg /\ fr.i = Top.i /\ fr.j = Top.j + 1
  BY <1>2, <1>3 DEF VariablesAre, Variables
<1> HIDE DEF fr
<1>15. Locals(fr) = S
  BY <1>3, <1>14, SameVariables
<1>16. ASSUME DatesValid(Rec) PROVE FrameFilled(heap', Rec, fr)
  <2>1. /\ Begun(heap', Top.obj, Rec, "bookmark", Rec.mark, 1)
        /\ Begun(heap', Top.arr, Rec, "tocs", Rec.mark, Top.i)
        /\ Begun(heap', Top.sub, Rec, "toc", t, 1)
    <3>1. ASSUME NEW o \in {Top.obj, Top.arr, Top.sub}, NEW kind, NEW x, NEW i, Begun(heap, o, Rec, kind, x, i)
          PROVE  Begun(heap', o, Rec, kind, x, i)
      <4>1. o # Ret /\ o # Top.subarr
        BY <1>3
      <4>2. Begun(g, o, Rec, kind, x, i)
        BY <1>11, <3>1, <4>1 DEF KeepsBegun
      <4> QED
        BY <1>13, <4>1, <4>2 DEF KeepsBegun
    <3> QED
      BY <1>3, <1>4, <1>16, <3>1
  <2>2. TableIn(fr) = t
    BY <1>4, <1>14 DEF TableIn
  <2> QED
    BY <1>3, <1>13, <1>14, <1>16, <2>1, <2>2, BookmarkFrameFilled DEF VariablesAre
<1>17. S \subseteq Changeable
  BY <1>3 DEF InHand
<1> HIDE DEF S
<1> QED
  BY <1>1, <1>2, <1>13, <1>15, <1>16, <1>17, GotoGoes

LEMMA BookmarkTocDoneData ==
  ASSUME IInv, SInv, DInv, BookmarkTocDone
  PROVE  DInv'
<1> DEFINE t == TablesOf(Rec.mark)[Top.i + 1]
           fr == [Top EXCEPT !.i = @ + 1, !.sub = 0, !.subarr = 0, !.pc = "tocs"]
           S == {Top.obj, Top.arr}
           T == {Top.obj, Top.arr, Top.sub}
           g == Set(heap, Top.sub, Item("entries", Top.subarr))
<1>1. At("bookmark", "entries") /\ Goto(fr)
  BY DEF BookmarkTocDone
<1>2. stack # <<>> /\ Top.fn = "bookmark" /\ Top.pc = "entries"
  BY <1>1, AtLevels
<1>3. /\ Top.arg = Rec.mark /\ IsMark(Rec.mark) /\ Len(heap) \in Nat /\ IsHeap(heap)
      /\ DOMAIN Top = {"fn", "pc", "arg", "i", "j"} \union Variables /\ Top.i \in Nat /\ Top.j \in Nat
      /\ InHand(Top.obj) /\ InHand(Top.arr) /\ InHand(Top.sub) /\ InHand(Top.subarr) /\ Top.obj # Top.arr
      /\ Top.tmp = 0 /\ Top.i < Len(TablesOf(Rec.mark))
      /\ Top.sub # Top.subarr /\ {Top.sub, Top.subarr} \intersect {Top.obj, Top.arr} = {}
      /\ DatesValid(Rec) =>
           /\ Begun(heap, Top.obj, Rec, "bookmark", Rec.mark, 1)
           /\ Begun(heap, Top.arr, Rec, "tocs", Rec.mark, Top.i)
           /\ Begun(heap, Top.sub, Rec, "toc", TableIn(Top), 1)
           /\ Begun(heap, Top.subarr, Rec, "entries", TableIn(Top), Top.j)
  BY <1>2, BookmarkFrame
<1>4. heap' = Add(g, Top.arr, Element(Top.sub)) /\ TableIn(Top) = t /\ Top.j = t.count
  BY <1>3 DEF BookmarkTocDone, TableIn
<1>5. /\ Len(TablesOf(Rec.mark)) \in Nat /\ Top.i + 1 \in 1 .. Len(TablesOf(Rec.mark))
      /\ t.count \in Nat /\ {<<"toc", t>>, <<"entries", t>>} \subseteq Nodes(Rec)
  BY <1>3, TableHere
<1> HIDE DEF t
<1>6. Going(heap, T)
  BY GoingStarts
<1>7. /\ Going(g, T) /\ Len(g) = Len(heap) /\ KeepsBegun(heap, g, Top.sub)
      /\ DatesValid(Rec) => Complete(g, Top.sub, Rec, "toc", t)
  <2>1. /\ Top.sub \in T /\ Top.sub \in 1 .. Len(heap) /\ Top.sub \in Changeable
        /\ Top.subarr \in 1 .. Len(heap) /\ Top.subarr \in Puttable(T)
    BY <1>3 DEF InHand, Puttable
  <2>2. ASSUME DatesValid(Rec)
        PROVE  SecondIs(heap, Top.sub, "entries", Top.subarr, "toc", t, "entries", t)
    <3>1. TwoItems(Rec, "toc", t, Text("fields", "toc"), Part("entries", <<"entries", t>>))
      BY Pairs
    <3>2. Text("fields", "toc").key # "entries"
      BY DEF Text
    <3>3. Complete(heap, Top.subarr, Rec, "entries", t)
      BY <1>3, <1>4, <1>5, <2>2, EntriesShown, CompleteIf
    <3> QED
      BY <1>3, <1>4, <1>5, <2>2, <3>1, <3>2, <3>3 DEF TwoItems, SecondIs
  <2> HIDE DEF T
  <2>3. Going(g, T) /\ Len(g) = Len(heap) /\ KeepsBegun(heap, g, Top.sub)
    BY <1>6, <2>1, PutGoes
  <2>4. DatesValid(Rec) => Complete(g, Top.sub, Rec, "toc", t)
    BY <1>6, <2>1, <2>2, PartSet
  <2> QED
    BY <2>3, <2>4
<1> HIDE DEF g
<1>8. Going(g, S)
  BY <1>7, GoingLess
<1>9. /\ Going(heap', S) /\ KeepsBegun(g, heap', Top.arr)
      /\ DatesValid(Rec) => Begun(heap', Top.arr, Rec, "tocs", Rec.mark, Top.i + 1)
  <2>1. /\ Top.arr \in S /\ Top.arr \in 1 .. Len(g) /\ Top.arr \in Changeable
        /\ Top.sub \in 1 .. Len(g) /\ Top.sub \in Puttable(S)
    BY <1>3, <1>7 DEF InHand, Puttable
  <2>2. ASSUME DatesValid(Rec)
        PROVE  /\ Begun(g, Top.arr, Rec, "tocs", Rec.mark, Top.i)
               /\ Top.i + 1 <= Len(Contents(Rec, "tocs", Rec.mark))
               /\ Contents(Rec, "tocs", Rec.mark)[Top.i + 1] = Part(NoText, <<"toc", t>>)
               /\ <<"toc", t>> \in Nodes(Rec) /\ Complete(g, Top.sub, Rec, "toc", t)
    <3>1. Begun(g, Top.arr, Rec, "tocs", Rec.mark, Top.i)
      BY <1>3, <1>7, <2>2 DEF KeepsBegun
    <3>2. /\ Len(Contents(Rec, "tocs", Rec.mark)) = Len(TablesOf(Rec.mark))
          /\ Contents(Rec, "tocs", Rec.mark)[Top.i + 1] = Part(NoText, <<"toc", t>>)
      BY <1>5, Tocs DEF t
    <3> QED
      BY <1>5, <1>7, <2>2, <3>1, <3>2
  <2> HIDE DEF S
  <2> QED
    BY <1>4, <1>8, <2>1, <2>2, ElementAdded
<1>10. /\ VariablesAre(fr, Top.obj, Top.arr, 0, 0, 0)
       /\ fr.fn = "bookmark" /\ fr.pc = "tocs" /\ fr.arg = Rec.mark /\ fr.i = Top.i + 1
  BY <1>2, <1>3 DEF VariablesAre, Variables
<1> HIDE DEF fr
<1>11. Locals(fr) = S
  BY <1>3, <1>10, LocalsAre DEF VariablesAre, InHand
<1>12. ASSUME DatesValid(Rec) PROVE FrameFilled(heap', Rec, fr)
  <2>1. Begun(heap', Top.obj, Rec, "bookmark", Rec.mark, 1)
    BY <1>3, <1>7, <1>9, <1>12 DEF KeepsBegun
  <2> QED
    BY <1>9, <1>10, <1>12, <2>1, BookmarkFrameFilled DEF VariablesAre
<1>13. S \subseteq Changeable
  BY <1>3 DEF InHand
<1> HIDE DEF S
<1> QED
  BY <1>1, <1>2, <1>9, <1>11, <1>12, <1>13, GotoGoes

LEMMA BookmarkDoneData ==
  ASSUME IInv, SInv, DInv, BookmarkDone
  PROVE  DInv'
<1> DEFINE g == Set(heap, Top.obj, Item("tocs", Top.arr))
<1>1. /\ At("bookmark", "tocs") /\ Return(Top.obj) /\ heap' = CFRelease(g, Top.arr)
      /\ Top.i = Len(TablesOf(Top.arg))
  BY DEF BookmarkDone
<1>2. stack # <<>> /\ Top.fn = "bookmark" /\ Top.pc = "tocs"
  BY <1>1, AtLevels
<1>3. /\ Top.arg = Rec.mark /\ IsMark(Rec.mark) /\ Len(heap) \in Nat
      /\ InHand(Top.obj) /\ InHand(Top.arr) /\ Top.obj # Top.arr
      /\ DatesValid(Rec) =>
           /\ Begun(heap, Top.obj, Rec, "bookmark", Rec.mark, 1)
           /\ Begun(heap, Top.arr, Rec, "tocs", Rec.mark, Top.i)
  BY <1>2, BookmarkFrame
<1>4. Going(heap, {Top.obj})
  BY GoingStarts
<1>5. Top.arr \in Puttable({Top.obj})
  BY <1>3 DEF Puttable, InHand
<1>6. ASSUME DatesValid(Rec)
      PROVE  SecondIs(heap, Top.obj, "tocs", Top.arr, "bookmark", Rec.mark, "tocs", Rec.mark)
  <2>1. TwoItems(Rec, "bookmark", Rec.mark, Text("fields", "header"), Part("tocs", <<"tocs", Rec.mark>>))
    BY Pairs
  <2>2. Text("fields", "header").key # "tocs"
    BY DEF Text
  <2>3. Len(Contents(Rec, "tocs", Rec.mark)) = Len(TablesOf(Rec.mark))
    BY <1>3, TableFacts, Tocs
  <2>4. Complete(heap, Top.arr, Rec, "tocs", Rec.mark)
    BY <1>1, <1>3, <1>6, <2>3, CompleteIf
  <2>5. <<"tocs", Rec.mark>> \in Nodes(Rec)
    BY NodesAre
  <2> QED
    BY <1>3, <1>6, <2>1, <2>2, <2>4, <2>5 DEF TwoItems, SecondIs
<1>7. /\ Going(g, {Top.obj}) /\ Len(g) = Len(heap)
      /\ DatesValid(Rec) => Complete(g, Top.obj, Rec, "bookmark", Rec.mark)
  <2>1. Top.obj \in 1 .. Len(heap) /\ Top.arr \in 1 .. Len(heap) /\ Top.obj \in Changeable
    BY <1>3 DEF InHand
  <2>2. Going(g, {Top.obj}) /\ Len(g) = Len(heap)
    BY <1>4, <1>5, <2>1, PutGoes
  <2>3. DatesValid(Rec) => Complete(g, Top.obj, Rec, "bookmark", Rec.mark)
    BY <1>4, <1>5, <1>6, <2>1, PartSet
  <2> QED
    BY <2>2, <2>3
<1> HIDE DEF g
<1>8. Going(heap', {Top.obj}) /\ KeepsBegun(g, heap', 0)
  <2>1. Top.arr \in 1 .. Len(g)
    BY <1>3, <1>7 DEF InHand
  <2> QED
    BY <1>1, <1>7, <2>1, GoOnRelease
<1>9. DatesValid(Rec) => Complete(heap', Top.obj, Rec, "bookmark", Rec.mark)
  BY <1>3, <1>7, <1>8 DEF KeepsBegun, Complete, InHand
<1> QED
  BY <1>1, <1>2, <1>3, <1>8, <1>9, ReturnGoes DEF InHand

-----------------------------------------------------------------------------
(* The steps for an item.                                                  *)

(* The item in hand is one of the bookmark. *)
LEMMA ItemNode ==
  ASSUME IInv, SInv, stack # <<>>, Top.fn = "item"
  PROVE  {<<"item", Top.arg>>, <<"array", Top.arg>>} \subseteq Nodes(Rec)
<1>1. ActivationOK(Rec, Top, Len(stack))
  BY RunFacts
<1>2. PICK o \in DOMAIN Rec.mark.items : Top.arg = Rec.mark.items[o]
  BY <1>1 DEF ActivationOK, PlaceOK
<1> QED
  BY <1>2, NodesAre

(* A dictionary of an item that has its type is begun. *)
LEMMA TypedBegun ==
  ASSUME NEW h, NEW d \in 1 .. Len(h), NEW r, NEW x, <<"item", x>> \in Nodes(r),
         h[d].lit = NoText, Len(h[d].items) = 1, Shows(h, h[d].items[1], r, TypeItem(x))
  PROVE  Begun(h, d, r, "item", x, 1)
<1>1. TwoItems(r, "item", x, TypeItem(x), ValueItem(x))
  BY Pairs
<1>2. Data(r)[<<"item", x>>].lit = NoText
  BY DataOfNode
<1>3. \A k \in 1 .. 1 : k = 1
  OBVIOUS
<1> QED
  BY <1>1, <1>2, <1>3 DEF TwoItems, Begun

(* A key that is new is put behind the others. *)
LEMMA SetAppends ==
  ASSUME NEW h, IsHeap(h), NEW d \in 1 .. Len(h), NEW it, IsItem(it, Len(h)),
         \A k \in 1 .. Len(h[d].items) : h[d].items[k].key # it.key
  PROVE  Set(h, d, it)[d].items = Append(h[d].items, it)
<1> DEFINE g == Set(h, d, it)
<1>1. g[d].items = Append(h[d].items, it)
  BY GrowSet
<1> QED
  BY <1>1

(* The dictionary of an item with its type. *)
Named == Set(NewContainer(heap, "item"), Dict, Constant("data.type", Top.arg.type))

(* The type is set first. *)
LEMMA NamedData ==
  ASSUME IInv, SInv, DInv, At("item", "enter"), NEW S, Dict \in S, 0 \notin S, Len(heap') \in Nat,
         Len(heap) + 1 <= Len(heap')
  PROVE  /\ Going(Named, S) /\ Len(Named) = Len(heap) + 1 /\ IsHeap(Named) /\ Len(heap) \in Nat
         /\ Dict \in Changeable /\ Dict # 0 /\ Dict \in 1 .. Len(Named)
         /\ stack # <<>> /\ ret = <<>> /\ Top.fn = "item" /\ Top.arg.length \in Nat
         /\ {<<"item", Top.arg>>, <<"array", Top.arg>>} \subseteq Nodes(Rec)
         /\ Named[Dict].lit = NoText /\ Len(Named[Dict].items) = 1
         /\ Named[Dict].items[1].key = "data.type"
         /\ TypeItem(Top.arg) = Text("data.type", Top.arg.type) => Begun(Named, Dict, Rec, "item", Top.arg, 1)
<1> DEFINE f == NewContainer(heap, "item")
           c == Constant("data.type", Top.arg.type)
<1>1. Going(heap, S) /\ IsHeap(heap) /\ Len(heap) \in Nat
  BY GoingStarts
<1>2. /\ Going(f, S) /\ Len(f) = Len(heap) + 1 /\ IsHeap(f)
      /\ f[Dict].lit = NoText /\ Len(f[Dict].items) = 0 /\ Dict \in 1 .. Len(f)
  <2>1. Going(f, S) /\ Len(f) = Len(heap) + 1
    BY <1>1, GoOnNew DEF NewContainer
  <2>2. f[Len(heap) + 1].lit = NoText /\ Len(f[Len(heap) + 1].items) = 0
    BY <1>1, GrowNew DEF NewContainer
  <2> HIDE DEF f
  <2> QED
    BY <1>1, <2>1, <2>2, GoingFacts DEF Dict
<1> HIDE DEF f
<1>3. /\ IsItem(c, Len(f)) /\ c.key = "data.type" /\ c.ref = 0
      /\ \A h : IsHeap(h) => Shows(h, c, Rec, Text("data.type", Top.arg.type))
  BY <1>2, ConstantShows
<1> HIDE DEF c
<1>4. Named = Set(f, Dict, c)
  BY DEF Named, f, c
<1>5. Dict \in Changeable /\ Dict # 0
  BY <1>1, NewChangeable DEF Dict
<1>6. 0 \in Puttable(S)
  BY NothingPuttable
<1>7. stack # <<>> /\ ret = <<>> /\ Top.fn = "item" /\ Top.arg.length \in Nat
  BY AtLevels, ItemLevels
<1>8. {<<"item", Top.arg>>, <<"array", Top.arg>>} \subseteq Nodes(Rec)
  BY <1>7, ItemNode
<1>9. Going(Named, S) /\ Len(Named) = Len(heap) + 1
  BY <1>2, <1>3, <1>4, <1>5, <1>6, GoOnSet
<1>10. /\ Named[Dict].lit = NoText /\ Len(Named[Dict].items) = 1 /\ Named[Dict].items[1] = c
  <2>1. Grown(f, Named, {Dict}, {0})
    BY <1>2, <1>3, <1>4, GrowSet
  <2>2. \A k \in 1 .. Len(f[Dict].items) : f[Dict].items[k].key # c.key
    BY <1>2
  <2>3. Named[Dict].items = Append(f[Dict].items, c)
    BY <1>2, <1>3, <1>4, <2>2, SetAppends
  <2>4. Named[Dict].lit = NoText
    BY <1>2, <2>1 DEF Grown
  <2>5. IsSequence(f[Dict].items)
    BY <1>2, HeapDomain
  <2>6. Len(Named[Dict].items) = 1 /\ Named[Dict].items[1] = c
    BY <1>2, <2>3, <2>5, AppendSequence
  <2> QED
    BY <2>4, <2>6
<1>11. IsHeap(Named) /\ Dict \in 1 .. Len(Named)
  BY <1>1, <1>9, GoingFacts DEF Dict
<1>12. ASSUME TypeItem(Top.arg) = Text("data.type", Top.arg.type)
       PROVE  Begun(Named, Dict, Rec, "item", Top.arg, 1)
  BY <1>3, <1>8, <1>10, <1>11, <1>12, TypedBegun
<1> QED
  BY <1>1, <1>3, <1>5, <1>7, <1>8, <1>9, <1>10, <1>11, <1>12

(* A value completes the dictionary. *)
LEMMA ValuePut ==
  ASSUME IInv, SInv, DInv, stack # <<>>, Top.fn = "item", NEW d, d # 0, d \in Changeable, Return(d),
         NEW h, Going(h, {d}), d \in 1 .. Len(h), Begun(h, d, Rec, "item", Top.arg, 1),
         NEW it, IsItem(it, Len(h)), it.key = "data.value", it.ref \in Puttable({d}),
         Shows(h, it, Rec, ValueItem(Top.arg)), heap' = Set(h, d, it)
  PROVE  DInv'
<1>1. IsHeap(h)
  BY GoingFacts
<1>2. d \notin Referred(h) /\ it.ref # d
  BY NotReferred DEF Puttable
<1>3. TwoItems(Rec, "item", Top.arg, TypeItem(Top.arg), ValueItem(Top.arg))
  BY Pairs
<1>4. TypeItem(Top.arg).key = "data.type"
  BY DEF TypeItem, Text
<1>5. NewKey(Rec, "item", Top.arg, 1, it.key)
  BY <1>3, <1>4 DEF NewKey, TwoItems
<1>6. /\ 1 + 1 <= Len(Contents(Rec, "item", Top.arg))
      /\ Contents(Rec, "item", Top.arg)[1 + 1] = ValueItem(Top.arg)
      /\ 1 + 1 = Len(Contents(Rec, "item", Top.arg))
  <2>1. Len(Contents(Rec, "item", Top.arg)) = 2 /\ Contents(Rec, "item", Top.arg)[2] = ValueItem(Top.arg)
    BY <1>3 DEF TwoItems
  <2> QED
    BY <2>1
<1>7. Begun(heap', d, Rec, "item", Top.arg, 1 + 1)
  BY <1>1, <1>2, <1>5, <1>6, BegunSet
<1>8. Complete(heap', d, Rec, Top.fn, Top.arg)
  BY <1>6, <1>7, CompleteIf
<1>9. Going(heap', {d})
  BY GoOnSet
<1> QED
  BY <1>8, <1>9, ReturnGoes

LEMMA ItemScalarData ==
  ASSUME IInv, SInv, DInv, ItemScalar
  PROVE  DInv'
<1>1. /\ At("item", "enter") /\ Return(Dict) /\ Top.arg.type \in {"string", "int", "true"}
      /\ heap' = IF Top.arg.type = "true" THEN Set(Named, Dict, Constant("data.value", "true"))
                 ELSE SetNumber(Named, Dict, "data.value", Top.arg.lit)
  BY DEF ItemScalar, Named, Dict
<1>2. /\ TypeItem(Top.arg) = Text("data.type", Top.arg.type)
      /\ ValueItem(Top.arg) = Text("data.value", IF Top.arg.type = "true" THEN "true" ELSE Top.arg.lit)
  BY <1>1 DEF TypeItem, ValueItem, IsArray
<1>3. /\ GoodHeap(Named, Rest \union {Dict}) /\ Len(Named) = Len(heap) + 1 /\ Len(heap) \in Nat
  BY <1>1, NamedItemFits, ItemFacts DEF Named, Dict
<1>4. IsHeap(Named) /\ Dict \in 1 .. Len(Named)
  BY <1>3 DEF GoodHeap, Dict
<1>5. CASE Top.arg.type = "true"
  <2> DEFINE it == Constant("data.value", "true")
  <2>1. heap' = Set(Named, Dict, it)
    BY <1>1, <1>5
  <2>2. /\ IsItem(it, Len(Named)) /\ it.key = "data.value" /\ it.ref = 0
        /\ Shows(Named, it, Rec, Text("data.value", "true"))
    BY <1>4, ConstantShows
  <2> HIDE DEF it
  <2>3. Len(heap') = Len(heap) + 1
    BY <1>3, <1>4, <2>1, <2>2, Lengths
  <2>4. /\ Going(Named, {Dict}) /\ Dict \in Changeable /\ Dict # 0
        /\ stack # <<>> /\ Top.fn = "item" /\ Begun(Named, Dict, Rec, "item", Top.arg, 1)
    BY <1>1, <1>2, <1>3, <2>3, NamedData DEF Dict
  <2>5. it.ref \in Puttable({Dict})
    BY <2>2, <2>4, NothingPuttable
  <2> QED
    BY <1>1, <1>2, <1>4, <1>5, <2>1, <2>2, <2>4, <2>5, ValuePut
<1>6. CASE Top.arg.type # "true"
  <2>1. heap' = SetNumber(Named, Dict, "data.value", Top.arg.lit)
    BY <1>1, <1>6
  <2>2. Len(heap') = Len(heap) + 2
    <3>1. NumberPut(Named, heap', Dict, "data.value", Top.arg.lit)
      BY <1>4, <2>1, GrowNumber
    <3> QED
      BY <1>3, <3>1 DEF NumberPut
  <2>3. /\ Going(Named, {Dict}) /\ Dict \in Changeable /\ Dict # 0
        /\ stack # <<>> /\ Top.fn = "item" /\ Begun(Named, Dict, Rec, "item", Top.arg, 1)
    BY <1>1, <1>2, <1>3, <2>2, NamedData DEF Dict
  <2>4. Len(Named) + 1 \in Puttable({Dict})
    BY <1>3, <2>2, NewChangeable DEF Dict
  <2>5. TwoItems(Rec, "item", Top.arg, TypeItem(Top.arg), ValueItem(Top.arg))
    BY Pairs
  <2>6. TypeItem(Top.arg).key = "data.type"
    BY <1>2 DEF Text
  <2>7. /\ 1 + 1 <= Len(Contents(Rec, "item", Top.arg)) /\ 1 + 1 = Len(Contents(Rec, "item", Top.arg))
        /\ Contents(Rec, "item", Top.arg)[1 + 1] = Text("data.value", Top.arg.lit)
        /\ NewKey(Rec, "item", Top.arg, 1, "data.value")
    <3>1. /\ Len(Contents(Rec, "item", Top.arg)) = 2
          /\ Contents(Rec, "item", Top.arg)[2] = Text("data.value", Top.arg.lit)
      BY <1>2, <1>6, <2>5 DEF TwoItems
    <3>2. NewKey(Rec, "item", Top.arg, 1, "data.value")
      BY <2>5, <2>6 DEF NewKey, TwoItems
    <3> QED
      BY <3>1, <3>2
  <2>8. Dict \notin Referred(Named)
    BY <2>3, NotReferred
  <2>9. Begun(heap', Dict, Rec, "item", Top.arg, 1 + 1)
    BY <1>4, <2>1, <2>3, <2>7, <2>8, BegunNumber
  <2>10. Complete(heap', Dict, Rec, Top.fn, Top.arg)
    BY <2>3, <2>7, <2>9, CompleteIf
  <2>11. Going(heap', {Dict})
    BY <1>4, <2>1, <2>3, <2>4, GoOnNumber
  <2> QED
    BY <1>1, <2>3, <2>10, <2>11, ReturnGoes
<1> QED
  BY <1>5, <1>6

(* The bytes of an item are its value. *)
LEMMA BytesPut ==
  ASSUME IInv, SInv, DInv, stack # <<>>, Top.fn = "item", Return(Dict), Dict # 0, Dict \in Changeable,
         NEW f, Going(f, {Dict}), Dict \in 1 .. Len(f), Begun(f, Dict, Rec, "item", Top.arg, 1),
         ValueItem(Top.arg) = Text("data.value", Top.arg.lit),
         heap' = Set(New(f, "data", Top.arg.lit), Dict, Item("data.value", Len(f) + 1)),
         Len(heap') = Len(f) + 1
  PROVE  DInv'
<1> DEFINE k == New(f, "data", Top.arg.lit)
           it == Item("data.value", Len(f) + 1)
<1>1. IsHeap(f) /\ Len(f) \in Nat /\ Len(heap) \in Nat /\ Len(heap) <= Len(f)
  BY GoingFacts
<1>2. /\ Going(k, {Dict}) /\ Len(k) = Len(f) + 1 /\ KeepsBegun(f, k, 0)
      /\ k[Len(f) + 1].lit = Top.arg.lit /\ Len(k[Len(f) + 1].items) = 0
  BY <1>1, GoOnNew, GrowNew
<1> HIDE DEF k
<1>3. IsHeap(k) /\ Dict \in 1 .. Len(k) /\ Len(f) + 1 \in 0 .. Len(k) /\ Len(f) + 1 \in 1 .. Len(k)
  BY <1>1, <1>2, GoingFacts
<1>4. IsItem(it, Len(k)) /\ it.key = "data.value" /\ it.ref = Len(f) + 1
  <2> DEFINE o == Len(f) + 1
  <2>1. o \in 0 .. Len(k) /\ Len(k) \in Nat
    BY <1>1, <1>2, <1>3
  <2> HIDE DEF o
  <2>2. IsItem(Item("data.value", o), Len(k))
    BY <2>1, ItemIsItem
  <2>3. Item("data.value", o).key = "data.value" /\ Item("data.value", o).ref = o
    BY DEF Item
  <2> QED
    BY <2>2, <2>3 DEF o
<1>5. Len(f) + 1 \in Puttable({Dict})
  <2>1. Len(f) + 1 # Dict
    BY <1>1
  <2> QED
    BY <1>1, <2>1, NewChangeable
<1>9. heap' = Set(k, Dict, it)
  BY DEF k, it
<1> HIDE DEF it
<1>6. Shows(k, it, Rec, ValueItem(Top.arg))
  <2>1. Shows(k, it, Rec, Text(it.key, Top.arg.lit))
    BY <1>2, <1>3, <1>4, ShowsText
  <2> QED
    BY <1>4, <2>1
<1>7. Begun(k, Dict, Rec, "item", Top.arg, 1)
  BY <1>2 DEF KeepsBegun
<1> QED
  BY <1>2, <1>3, <1>4, <1>5, <1>6, <1>7, <1>9, ValuePut

(* An array that is none is shown under the number of its type. *)
LEMMA Renamed ==
  ASSUME NEW h, IsHeap(h), NEW d \in 1 .. Len(h), NEW r, NEW x, <<"item", x>> \in Nodes(r),
         h[d].lit = NoText, Len(h[d].items) = 1, h[d].items[1].key = "data.type",
         TypeItem(x) = Text("data.type", "number")
  PROVE  Begun(SetNumber(h, d, "data.type", "number"), d, r, "item", x, 1)
<1> DEFINE g == SetNumber(h, d, "data.type", "number")
           o == Len(h) + 1
           it == Item("data.type", o)
<1>1. /\ Len(h) \in Nat /\ DOMAIN h[d].items = 1 .. 1 /\ IsSequence(h[d].items)
  BY HeapDomain
<1>2. NumberPut(h, g, d, "data.type", "number")
  BY GrowNumber
<1> HIDE DEF g
<1>3. it.key = "data.type" /\ it.ref = o
  BY DEF Item
<1>4. SameKey(h, d, it) = {1}
  BY <1>1, <1>3 DEF SameKey
<1>5. /\ Grown(h, g, {d}, {o}) /\ Len(g) = o /\ g[o].lit = "number" /\ Len(g[o].items) = 0
      /\ g[d].items = With(h[d].items, 1, it)
  <2>1. 1 \in 1 .. Len(h[d].items)
    BY <1>1
  <2> QED
    BY <1>2, <1>4, <2>1 DEF NumberPut
<1>6. Len(g[d].items) = 1 /\ g[d].items[1] = it
  BY <1>1, <1>5, ExceptSequence
<1>7. g[d].lit = NoText /\ d \in 1 .. Len(g) /\ IsHeap(g) /\ o \in 1 .. Len(g)
  BY <1>1, <1>5 DEF Grown
<1> HIDE DEF it
<1>8. Shows(g, it, r, Text(it.key, "number"))
  BY <1>3, <1>5, <1>7, ShowsText
<1>9. Begun(g, d, r, "item", x, 1)
  BY <1>3, <1>6, <1>7, <1>8, TypedBegun
<1> QED
  BY <1>9 DEF g

LEMMA ItemDataData ==
  ASSUME IInv, SInv, DInv, ItemData
  PROVE  DInv'
<1> DEFINE f == IF Top.arg.type = "array" THEN SetNumber(Named, Dict, "data.type", "number") ELSE Named
<1>1. /\ At("item", "enter") /\ Return(Dict)
      /\ Top.arg.type = "data" \/ (Top.arg.type = "array" /\ ~IsArray(Top.arg))
      /\ heap' = Set(New(f, "data", Top.arg.lit), Dict, Item("data.value", Len(f) + 1))
  BY DEF ItemData, Named, Dict
<1>2. ValueItem(Top.arg) = Text("data.value", Top.arg.lit)
  BY <1>1 DEF ValueItem, IsArray
<1>3. /\ GoodHeap(Named, Rest \union {Dict}) /\ Len(Named) = Len(heap) + 1 /\ Len(heap) \in Nat
  BY <1>1, NamedItemFits, ItemFacts DEF Named, Dict
<1>4. IsHeap(Named) /\ Dict \in 1 .. Len(Named)
  BY <1>3 DEF GoodHeap, Dict
<1>5. IsHeap(f) /\ Len(f) \in Nat /\ Len(f) = Len(heap) + (IF Top.arg.type = "array" THEN 2 ELSE 1)
  <2>1. NumberPut(Named, SetNumber(Named, Dict, "data.type", "number"), Dict, "data.type", "number")
    BY <1>4, GrowNumber
  <2>2. /\ IsHeap(SetNumber(Named, Dict, "data.type", "number"))
        /\ Len(SetNumber(Named, Dict, "data.type", "number")) = Len(Named) + 1
    BY <2>1 DEF NumberPut, Grown
  <2> QED
    BY <1>3, <1>4, <2>2
<1>6. Len(heap') = Len(f) + 1
  <2> HIDE DEF f
  <2>1. IsHeap(New(f, "data", Top.arg.lit)) /\ Len(New(f, "data", Top.arg.lit)) = Len(f) + 1
    BY <1>5, Lengths
  <2> DEFINE k == New(f, "data", Top.arg.lit)
  <2>2. Dict \in 1 .. Len(k) /\ Len(f) + 1 \in 0 .. Len(k)
    BY <1>3, <1>4, <1>5, <2>1
  <2>3. heap' = Set(k, Dict, Item("data.value", Len(f) + 1)) /\ IsHeap(k)
    BY <1>1, <2>1
  <2> HIDE DEF k
  <2>4. IsItem(Item("data.value", Len(f) + 1), Len(k))
    <3> DEFINE o == Len(f) + 1
    <3>1. o \in 0 .. Len(k) /\ Len(k) \in Nat
      BY <2>2, <2>3, Lengths
    <3> HIDE DEF o
    <3>2. IsItem(Item("data.value", o), Len(k))
      BY <3>1, ItemIsItem
    <3> QED
      BY <3>2 DEF o
  <2>5. Len(heap') = Len(k)
    BY <2>2, <2>3, <2>4, Lengths
  <2> QED
    BY <2>1, <2>5 DEF k
<1>7. Len(heap') \in Nat /\ Len(heap) + 1 <= Len(heap')
  BY <1>3, <1>5, <1>6
<1>8. /\ Going(Named, {Dict}) /\ Dict \in Changeable /\ Dict # 0 /\ stack # <<>> /\ Top.fn = "item"
      /\ <<"item", Top.arg>> \in Nodes(Rec)
      /\ Named[Dict].lit = NoText /\ Len(Named[Dict].items) = 1
      /\ Named[Dict].items[1].key = "data.type"
      /\ TypeItem(Top.arg) = Text("data.type", Top.arg.type) => Begun(Named, Dict, Rec, "item", Top.arg, 1)
  <2>1. Dict \in {Dict} /\ 0 \notin {Dict}
    BY <1>3 DEF Dict
  <2> QED
    BY <1>1, <1>7, <2>1, NamedData
<1>9. Going(f, {Dict}) /\ Begun(f, Dict, Rec, "item", Top.arg, 1) /\ Dict \in 1 .. Len(f)
  <2>1. CASE Top.arg.type = "array"
    <3>1. TypeItem(Top.arg) = Text("data.type", "number")
      BY <1>1, <2>1 DEF TypeItem
    <3>2. Begun(f, Dict, Rec, "item", Top.arg, 1)
      BY <1>4, <1>8, <2>1, <3>1, Renamed
    <3>3. Len(Named) + 1 \in Puttable({Dict})
      BY <1>3, <1>5, <1>6, <2>1, NewChangeable DEF Dict
    <3>4. Going(f, {Dict})
      BY <1>4, <1>8, <2>1, <3>3, GoOnNumber
    <3> QED
      BY <3>2, <3>4 DEF Begun
  <2>2. CASE Top.arg.type # "array"
    <3>1. TypeItem(Top.arg) = Text("data.type", Top.arg.type)
      BY <2>2 DEF TypeItem
    <3> QED
      BY <1>4, <1>8, <2>2, <3>1
  <2> QED
    BY <2>1, <2>2
<1> HIDE DEF f
<1> QED
  BY <1>1, <1>2, <1>6, <1>8, <1>9, BytesPut

LEMMA ItemArrayData ==
  ASSUME IInv, SInv, DInv, ItemArray
  PROVE  DInv'
<1> DEFINE a == Len(heap) + 2
           S == {Dict, a}
           fr == [Top EXCEPT !.obj = Dict, !.arr = Len(heap'), !.pc = "array"]
<1>1. /\ At("item", "enter") /\ Goto(fr) /\ IsArray(Top.arg)
      /\ heap' = New(Named, "arr", NoText)
  BY DEF ItemArray, Named, Dict, NewContainer, IsArray
<1>2. /\ GoodHeap(Named, Rest \union {Dict}) /\ Len(Named) = Len(heap) + 1 /\ Len(heap) \in Nat
      /\ VariablesAre(Top, 0, 0, 0, 0, 0)
  BY <1>1, NamedItemFits, ItemFacts DEF Named, Dict
<1>3. IsHeap(Named) /\ Len(heap') = a
  <2>1. IsHeap(Named)
    BY <1>2 DEF GoodHeap
  <2>2. Len(heap') = Len(Named) + 1
    BY <1>1, <2>1, Lengths
  <2> QED
    BY <1>2, <2>1, <2>2
<1>4. /\ Going(Named, S) /\ Dict \in Changeable /\ Dict # 0 /\ stack # <<>> /\ Top.fn = "item"
      /\ {<<"item", Top.arg>>, <<"array", Top.arg>>} \subseteq Nodes(Rec)
      /\ TypeItem(Top.arg) = Text("data.type", Top.arg.type) => Begun(Named, Dict, Rec, "item", Top.arg, 1)
  <2>1. Dict \in S /\ 0 \notin S /\ Len(heap') \in Nat /\ Len(heap) + 1 <= Len(heap')
    BY <1>2, <1>3 DEF Dict
  <2> HIDE DEF S
  <2> QED
    BY <1>1, <2>1, NamedData
<1>5. Begun(Named, Dict, Rec, "item", Top.arg, 1)
  <2>1. TypeItem(Top.arg) = Text("data.type", Top.arg.type)
    BY <1>1 DEF TypeItem
  <2> QED
    BY <1>4, <2>1
<1>6. a \in Changeable /\ a # 0 /\ Dict # a /\ Len(Named) + 1 = a
  BY <1>2, <1>3, NewChangeable DEF Dict
<1>7. /\ Top.fn = "item" /\ Elements(Top.arg) \in Nat /\ Top.i = 0
      /\ DOMAIN Top = {"fn", "pc", "arg", "i", "j"} \union Variables
  BY <1>1, <1>4, ItemLevels, AtLevels, TopFields DEF PlaceOK
<1>8. 0 <= Len(Contents(Rec, "array", Top.arg))
  BY <1>7, ElementsShown
<1>9. Going(heap', S) /\ Begun(heap', Dict, Rec, "item", Top.arg, 1)
  <2>1. Going(heap', S) /\ KeepsBegun(Named, heap', 0)
    BY <1>1, <1>4, GoOnNew
  <2> QED
    BY <1>4, <1>5, <2>1 DEF KeepsBegun
<1>10. Begun(heap', a, Rec, "array", Top.arg, 0)
  BY <1>1, <1>3, <1>4, <1>6, <1>8, BegunNew
<1>11. VariablesAre(fr, Dict, a, 0, 0, 0) /\ fr.fn = "item" /\ fr.pc = "array" /\ fr.arg = Top.arg /\ fr.i = 0
  BY <1>2, <1>3, <1>7 DEF VariablesAre, Variables
<1> HIDE DEF fr
<1>12. Locals(fr) = S
  BY <1>4, <1>6, <1>11, LocalsAre DEF VariablesAre
<1>13. FrameFilled(heap', Rec, fr)
  BY <1>9, <1>10, <1>11, ItemFrameFilled DEF VariablesAre
<1>14. S \subseteq Changeable
  BY <1>4, <1>6
<1> HIDE DEF S
<1> QED
  BY <1>1, <1>4, <1>9, <1>12, <1>13, <1>14, GotoGoes

(* What _pBBk_entry_data_copy_dictionary has in hand. *)
LEMMA ItemFrame ==
  ASSUME IInv, SInv, DInv, stack # <<>>, Top.fn = "item", Top.pc \in {"array", "element"}
  PROVE  /\ Len(heap) \in Nat /\ IsHeap(heap) /\ IsArray(Top.arg) /\ Elements(Top.arg) \in Nat
         /\ \A k \in 1 .. Elements(Top.arg) : Top.arg.elems[k] \in DOMAIN Rec.mark.items
         /\ {<<"item", Top.arg>>, <<"array", Top.arg>>} \subseteq Nodes(Rec)
         /\ DOMAIN Top = {"fn", "pc", "arg", "i", "j"} \union Variables /\ Top.i \in Nat
         /\ InHand(Top.obj) /\ InHand(Top.arr) /\ Top.obj # Top.arr
         /\ VariablesAre(Top, Top.obj, Top.arr, 0, 0, 0) /\ Locals(Top) = {Top.obj, Top.arr}
         /\ DatesValid(Rec) =>
              /\ Begun(heap, Top.obj, Rec, "item", Top.arg, 1)
              /\ Begun(heap, Top.arr, Rec, "array", Top.arg, Top.i)
              /\ Top.pc = "element" => Top.i < Elements(Top.arg)
<1>1. /\ Len(heap) \in Nat /\ FrameOK(heap, Top)
      /\ DOMAIN Top = {"fn", "pc", "arg", "i", "j"} \union Variables /\ Top.i \in Nat
  BY TopFields
<1>2. ActivationOK(Rec, Top, Len(stack)) /\ IsHeap(heap)
  BY RunFacts DEF IInv, HeapOK
<1>3. IsArray(Top.arg)
  BY <1>2 DEF ActivationOK, PlaceOK
<1>4. /\ Elements(Top.arg) \in Nat
      /\ \A k \in 1 .. Elements(Top.arg) : Top.arg.elems[k] \in DOMAIN Rec.mark.items
      /\ {<<"item", Top.arg>>, <<"array", Top.arg>>} \subseteq Nodes(Rec)
  BY <1>3, ItemLevels, ItemNode
<1>5. /\ Top.obj \in 1 .. Len(heap) /\ Top.arr \in 1 .. Len(heap)
      /\ VariablesAre(Top, Top.obj, Top.arr, 0, 0, 0)
  BY <1>1 DEF FrameOK, Kinds, IsKind, In, VariablesAre
<1>6. InHand(Top.obj) /\ InHand(Top.arr)
  <2>1. \A v \in Variables : Top[v] \in 1 .. Len(heap) => InHand(Top[v])
    BY <1>1, TopInHand
  <2> QED
    BY <1>5, <2>1 DEF Variables
<1>7. Top.obj # Top.arr
  BY <1>6, TopDistinct DEF Distinct, Variables, InHand
<1>8. Locals(Top) = {Top.obj, Top.arr}
  BY <1>5, <1>6, LocalsAre DEF InHand, VariablesAre
<1>9. ASSUME DatesValid(Rec)
      PROVE  /\ Begun(heap, Top.obj, Rec, "item", Top.arg, 1)
             /\ Begun(heap, Top.arr, Rec, "array", Top.arg, Top.i)
             /\ Top.pc = "element" => Top.i < Elements(Top.arg)
  <2>1. FrameFilled(heap, Rec, Top)
    BY <1>9, TopFilled
  <2> QED
    BY <2>1 DEF FrameFilled, In
<1> QED
  BY <1>1, <1>2, <1>3, <1>4, <1>5, <1>6, <1>7, <1>8, <1>9

LEMMA ItemElementData ==
  ASSUME IInv, SInv, DInv, ItemElement
  PROVE  DInv'
<1> DEFINE fr == [Top EXCEPT !.pc = "element"]
           arg == Rec.mark.items[Top.arg.elems[Top.i + 1]]
           S == {Top.obj, Top.arr}
<1>1. /\ At("item", "array") /\ Call(fr, "item", arg) /\ heap' = heap /\ Top.i < Elements(Top.arg)
  BY DEF ItemElement
<1>2. stack # <<>> /\ Top.fn = "item" /\ Top.pc = "array" /\ ret = <<>>
  BY <1>1, AtLevels
<1>3. /\ DOMAIN Top = {"fn", "pc", "arg", "i", "j"} \union Variables
      /\ InHand(Top.obj) /\ InHand(Top.arr) /\ Locals(Top) = S
      /\ DatesValid(Rec) =>
           /\ Begun(heap, Top.obj, Rec, "item", Top.arg, 1)
           /\ Begun(heap, Top.arr, Rec, "array", Top.arg, Top.i)
  BY <1>2, ItemFrame
<1>4. /\ VariablesAre(fr, Top.obj, Top.arr, Top.sub, Top.subarr, Top.tmp)
      /\ fr.fn = "item" /\ fr.pc = "element" /\ fr.arg = Top.arg /\ fr.i = Top.i
  BY <1>2, <1>3 DEF VariablesAre, Variables
<1> HIDE DEF fr, arg
<1>5. Locals(fr) = S
  BY <1>3, <1>4, SameVariables
<1>6. ASSUME DatesValid(Rec) PROVE FrameFilled(heap', Rec, fr)
  BY <1>1, <1>3, <1>4, <1>6, ItemFrameFilled DEF VariablesAre
<1>7. Going(heap', S)
  BY <1>1, GoingStarts
<1>8. S \subseteq Changeable
  BY <1>3 DEF InHand
<1> HIDE DEF S
<1> QED
  BY <1>1, <1>2, <1>5, <1>6, <1>7, <1>8, CallGoes

LEMMA ItemElementDoneData ==
  ASSUME IInv, SInv, DInv, ItemElementDone
  PROVE  DInv'
<1> DEFINE fr == [Top EXCEPT !.i = @ + 1, !.pc = "array"]
           x == Rec.mark.items[Top.arg.elems[Top.i + 1]]
           S == {Top.obj, Top.arr}
<1>1. Back("item", "element") /\ Goto(fr) /\ heap' = Add(heap, Top.arr, Element(Ret))
  BY DEF ItemElementDone
<1>2. /\ stack # <<>> /\ Top.fn = "item" /\ Top.pc = "element" /\ Ret \in Hand /\ Ret \in 1 .. Len(heap)
      /\ Ret # 0 /\ Ret \notin Locals(Top) /\ Ret \in Changeable
  BY <1>1, BackHands, HandChangeable
<1>3. /\ DOMAIN Top = {"fn", "pc", "arg", "i", "j"} \union Variables /\ Top.i \in Nat
      /\ InHand(Top.obj) /\ InHand(Top.arr) /\ Locals(Top) = S /\ Top.obj # Top.arr
      /\ Elements(Top.arg) \in Nat
      /\ \A k \in 1 .. Elements(Top.arg) : Top.arg.elems[k] \in DOMAIN Rec.mark.items
      /\ DatesValid(Rec) =>
           /\ Begun(heap, Top.obj, Rec, "item", Top.arg, 1)
           /\ Begun(heap, Top.arr, Rec, "array", Top.arg, Top.i)
           /\ Top.i < Elements(Top.arg)
  BY <1>2, ItemFrame
<1>4. Going(heap, S)
  BY GoingStarts
<1>5. Ret \in Puttable(S)
  BY <1>2, <1>3 DEF Puttable
<1>6. ASSUME DatesValid(Rec)
      PROVE  /\ Begun(heap, Top.arr, Rec, "array", Top.arg, Top.i)
             /\ Top.i + 1 <= Len(Contents(Rec, "array", Top.arg))
             /\ Contents(Rec, "array", Top.arg)[Top.i + 1] = Part(NoText, <<"item", x>>)
             /\ <<"item", x>> \in Nodes(Rec) /\ Complete(heap, Ret, Rec, "item", x)
  <2>1. Top.i + 1 \in 1 .. Elements(Top.arg)
    BY <1>3, <1>6
  <2>2. <<"item", x>> \in Nodes(Rec)
    BY <1>3, <2>1, NodesAre
  <2>3. Pending(Rec, Top) = Activation("item", x)
    BY <1>2 DEF Pending, In
  <2>4. Complete(heap, Ret, Rec, "item", x)
    BY <1>1, <1>6, <2>3, RetComplete
  <2>5. /\ Len(Contents(Rec, "array", Top.arg)) = Elements(Top.arg)
        /\ Contents(Rec, "array", Top.arg)[Top.i + 1] = Part(NoText, <<"item", x>>)
    BY <1>3, <2>1, ElementsShown
  <2> HIDE DEF x
  <2>6. Top.i + 1 <= Len(Contents(Rec, "array", Top.arg))
    BY <1>3, <1>6, <2>1, <2>5
  <2>7. Begun(heap, Top.arr, Rec, "array", Top.arg, Top.i)
    BY <1>3, <1>6
  <2> QED
    BY <2>2, <2>4, <2>5, <2>6, <2>7
<1> HIDE DEF x
<1>7. /\ Going(heap', S) /\ KeepsBegun(heap, heap', Top.arr)
      /\ DatesValid(Rec) => Begun(heap', Top.arr, Rec, "array", Top.arg, Top.i + 1)
  <2>1. Top.arr \in S /\ Top.arr \in 1 .. Len(heap) /\ Top.arr \in Changeable
    BY <1>3 DEF InHand
  <2> HIDE DEF S
  <2> QED
    BY <1>1, <1>2, <1>4, <1>5, <1>6, <2>1, ElementAdded
<1>8. /\ VariablesAre(fr, Top.obj, Top.arr, Top.sub, Top.subarr, Top.tmp)
      /\ fr.fn = "item" /\ fr.pc = "array" /\ fr.arg = Top.arg /\ fr.i = Top.i + 1
  BY <1>2, <1>3 DEF VariablesAre, Variables
<1> HIDE DEF fr
<1>9. Locals(fr) = S
  BY <1>3, <1>8, SameVariables
<1>10. ASSUME DatesValid(Rec) PROVE FrameFilled(heap', Rec, fr)
  <2>1. Begun(heap', Top.obj, Rec, "item", Top.arg, 1)
    BY <1>3, <1>7, <1>10 DEF KeepsBegun
  <2> QED
    BY <1>7, <1>8, <1>10, <2>1, ItemFrameFilled DEF VariablesAre
<1>11. S \subseteq Changeable
  BY <1>3 DEF InHand
<1> HIDE DEF S
<1> QED
  BY <1>1, <1>2, <1>7, <1>9, <1>10, <1>11, GotoGoes

LEMMA ItemArrayDoneData ==
  ASSUME IInv, SInv, DInv, ItemArrayDone
  PROVE  DInv'
<1>1. /\ At("item", "array") /\ Return(Top.obj) /\ Top.i = Elements(Top.arg)
      /\ heap' = Set(heap, Top.obj, Item("data.value", Top.arr))
  BY DEF ItemArrayDone
<1>2. stack # <<>> /\ Top.fn = "item" /\ Top.pc = "array"
  BY <1>1, AtLevels
<1>3. /\ IsArray(Top.arg) /\ Elements(Top.arg) \in Nat
      /\ {<<"item", Top.arg>>, <<"array", Top.arg>>} \subseteq Nodes(Rec)
      /\ InHand(Top.obj) /\ InHand(Top.arr) /\ Top.obj # Top.arr
      /\ DatesValid(Rec) =>
           /\ Begun(heap, Top.obj, Rec, "item", Top.arg, 1)
           /\ Begun(heap, Top.arr, Rec, "array", Top.arg, Top.i)
  BY <1>2, ItemFrame
<1>4. Going(heap, {Top.obj})
  BY GoingStarts
<1>5. Top.arr \in Puttable({Top.obj})
  BY <1>3 DEF Puttable, InHand
<1>6. ASSUME DatesValid(Rec)
      PROVE  SecondIs(heap, Top.obj, "data.value", Top.arr, "item", Top.arg, "array", Top.arg)
  <2>1. TwoItems(Rec, "item", Top.arg, TypeItem(Top.arg), ValueItem(Top.arg))
    BY Pairs
  <2>2. TypeItem(Top.arg).key # "data.value"
    BY DEF TypeItem, Text
  <2>3. ValueItem(Top.arg) = Part("data.value", <<"array", Top.arg>>)
    BY <1>3 DEF ValueItem
  <2>4. Len(Contents(Rec, "array", Top.arg)) = Elements(Top.arg)
    BY <1>3, ElementsShown
  <2>5. Complete(heap, Top.arr, Rec, "array", Top.arg)
    BY <1>1, <1>3, <1>6, <2>4, CompleteIf
  <2> QED
    BY <1>3, <1>6, <2>1, <2>2, <2>3, <2>5 DEF TwoItems, SecondIs
<1>7. Top.obj \in 1 .. Len(heap) /\ Top.arr \in 1 .. Len(heap) /\ Top.obj \in Changeable /\ Top.obj # 0
  BY <1>3 DEF InHand
<1>8. Going(heap', {Top.obj})
  BY <1>1, <1>4, <1>5, <1>7, PutGoes
<1>9. ASSUME DatesValid(Rec) PROVE Complete(heap', Top.obj, Rec, Top.fn, Top.arg)
  BY <1>1, <1>2, <1>4, <1>5, <1>6, <1>7, <1>9, PartSet
<1> QED
  BY <1>1, <1>2, <1>7, <1>8, <1>9, ReturnGoes

-----------------------------------------------------------------------------
(* The steps for an alias.                                                 *)

(* What _alias_copy_dictionary has in hand. *)
LEMMA AliasFrame ==
  ASSUME IInv, SInv, DInv, stack # <<>>, Top.fn = "alias", Top.pc \in {"metadata", "nested", "cnids"}
  PROVE  /\ Len(heap) \in Nat /\ IsHeap(heap) /\ Top.arg \in Aliases
         /\ DOMAIN Top = {"fn", "pc", "arg", "i", "j"} \union Variables /\ Top.i \in Nat /\ Top.j \in Nat
         /\ InHand(Top.obj) /\ InHand(Top.arr) /\ Top.obj # Top.arr /\ Top.tmp = 0
         /\ Top.pc = "metadata" => /\ Top.sub = 0 /\ Top.subarr = 0 /\ Locals(Top) = {Top.obj, Top.arr}
         /\ Top.pc # "metadata" => InHand(Top.sub) /\ Top.sub \notin {Top.obj, Top.arr}
         /\ Top.pc = "nested" => Top.subarr = 0 /\ Locals(Top) = {Top.obj, Top.arr, Top.sub}
         /\ Top.pc = "cnids" => /\ InHand(Top.subarr) /\ Top.subarr \notin {Top.obj, Top.arr, Top.sub}
                                /\ Locals(Top) = {Top.obj, Top.arr, Top.sub, Top.subarr}
         /\ DatesValid(Rec) =>
              /\ Begun(heap, Top.obj, Rec, "alias", Top.arg, 1)
              /\ Begun(heap, Top.arr, Rec, "metadata", Top.arg, Top.i)
              /\ Top.pc # "metadata" => /\ Top.i < Len(Top.arg.metadata)
                                        /\ Begun(heap, Top.sub, Rec, "meta", Meta, 1)
              /\ Top.pc = "nested" => Meta.tag = "alias"
              /\ Top.pc = "cnids" => IsCnids(Meta) /\ Begun(heap, Top.subarr, Rec, "cnids", Meta, Top.j)
<1>1. /\ Len(heap) \in Nat /\ FrameOK(heap, Top)
      /\ DOMAIN Top = {"fn", "pc", "arg", "i", "j"} \union Variables /\ Top.i \in Nat
  BY TopFields
<1>2. ActivationOK(Rec, Top, Len(stack)) /\ IsHeap(heap)
  BY RunFacts DEF IInv, HeapOK
<1>3. Top.j \in Nat /\ Top.arg \in Aliases
  BY <1>2 DEF ActivationOK, PlaceOK
<1>4. /\ Top.obj \in 1 .. Len(heap) /\ Top.arr \in 1 .. Len(heap) /\ Top.tmp = 0
      /\ Top.pc = "metadata" => Top.sub = 0 /\ Top.subarr = 0
      /\ Top.pc # "metadata" => Top.sub \in 1 .. Len(heap)
      /\ Top.pc = "nested" => Top.subarr = 0
      /\ Top.pc = "cnids" => Top.subarr \in 1 .. Len(heap)
  BY <1>1 DEF FrameOK, Kinds, IsKind, In
<1>5. /\ InHand(Top.obj) /\ InHand(Top.arr) /\ (Top.pc # "metadata" => InHand(Top.sub))
      /\ Top.pc = "cnids" => InHand(Top.subarr)
  <2>1. \A v \in Variables : Top[v] \in 1 .. Len(heap) => InHand(Top[v])
    BY <1>1, TopInHand
  <2> QED
    BY <1>4, <2>1 DEF Variables
<1>6. /\ Top.obj # Top.arr /\ (Top.pc # "metadata" => Top.sub \notin {Top.obj, Top.arr})
      /\ Top.pc = "cnids" => Top.subarr \notin {Top.obj, Top.arr, Top.sub}
  <2>1. Distinct(Top)
    BY TopDistinct
  <2> QED
    BY <1>5, <2>1 DEF Distinct, Variables, InHand
<1>7. /\ Top.pc = "metadata" => Locals(Top) = {Top.obj, Top.arr}
      /\ Top.pc = "nested" => Locals(Top) = {Top.obj, Top.arr, Top.sub}
      /\ Top.pc = "cnids" => Locals(Top) = {Top.obj, Top.arr, Top.sub, Top.subarr}
  BY <1>4, <1>5, LocalsAre DEF InHand
<1>8. ASSUME DatesValid(Rec)
      PROVE  /\ Begun(heap, Top.obj, Rec, "alias", Top.arg, 1)
             /\ Begun(heap, Top.arr, Rec, "metadata", Top.arg, Top.i)
             /\ Top.pc # "metadata" => /\ Top.i < Len(Top.arg.metadata)
                                       /\ Begun(heap, Top.sub, Rec, "meta", Meta, 1)
             /\ Top.pc = "nested" => Meta.tag = "alias"
             /\ Top.pc = "cnids" => IsCnids(Meta) /\ Begun(heap, Top.subarr, Rec, "cnids", Meta, Top.j)
  <2>1. FrameFilled(heap, Rec, Top) /\ MetaIn(Top) = Meta
    BY <1>8, TopFilled DEF MetaIn, Meta
  <2> QED
    BY <2>1 DEF FrameFilled
<1> QED
  BY <1>1, <1>2, <1>3, <1>4, <1>5, <1>6, <1>7, <1>8

(* The entry in hand, and what is shown of it. *)
LEMMA MetaShown ==
  ASSUME Top.arg \in Aliases, Top.i \in Nat, Top.i < Len(Top.arg.metadata)
  PROVE  /\ Len(Top.arg.metadata) \in Nat /\ Meta.length \in Nat
         /\ {<<"meta", Meta>>, <<"cnids", Meta>>} \subseteq Nodes(Rec)
         /\ <<"meta", Meta>> \in Nodes(Rec)
         /\ Meta.tag = "alias" => <<"alias", Meta.alias>> \in Nodes(Rec)
         /\ Top.i + 1 <= Len(Contents(Rec, "metadata", Top.arg))
         /\ Contents(Rec, "metadata", Top.arg)[Top.i + 1] = Part(NoText, <<"meta", Meta>>)
<1> DEFINE a == Top.arg
           i == Top.i
           e == Meta
           r == Rec
<1>1. a \in Aliases /\ i \in Nat /\ i < Len(a.metadata) /\ e = a.metadata[i + 1]
  BY DEF Meta
<1> HIDE DEF a, i, e, r
<1>2. IsAlias(a)
  BY <1>1, AliasesAssumption
<1>3. Len(a.metadata) \in Nat /\ i + 1 \in 1 .. Len(a.metadata)
  BY <1>1, <1>2 DEF IsAlias
<1>4. e.length \in Nat /\ (e.tag = "alias" => e.alias \in Aliases)
  BY <1>1, <1>2, <1>3 DEF IsAlias
<1>5. {<<"meta", e>>, <<"cnids", e>>} \subseteq Nodes(r)
  BY <1>1, <1>3, NodesAre
<1>6. e.tag = "alias" => <<"alias", e.alias>> \in Nodes(r)
  BY <1>4, NodesAre
<1>7. /\ i + 1 <= Len(Contents(r, "metadata", a))
      /\ Contents(r, "metadata", a)[i + 1] = Part(NoText, <<"meta", e>>)
  BY <1>1, <1>3, MetadataShown
<1> QED
  BY <1>3, <1>4, <1>5, <1>6, <1>7 DEF a, i, e, r

LEMMA AliasEnterData ==
  ASSUME IInv, SInv, DInv, AliasEnter
  PROVE  DInv'
<1> DEFINE d == Len(heap) + 1
           a == Len(heap) + 3
           S == {d, a}
           fr == [Top EXCEPT !.obj = d, !.arr = Len(heap'), !.pc = "metadata"]
<1>1. /\ At("alias", "enter") /\ Goto(fr)
      /\ heap' = NewContainer(SetNumber(NewContainer(heap, "pict"), d, "fields", Top.arg.lit),
                              "metadataItems")
  BY DEF AliasEnter
<1>2. /\ stack # <<>> /\ Top.fn = "alias" /\ Top.arg \in Aliases
      /\ DOMAIN Top = {"fn", "pc", "arg", "i", "j"} \union Variables /\ Top.i = 0
      /\ VariablesAre(Top, 0, 0, 0, 0, 0) /\ Len(heap) \in Nat
  BY <1>1, AtLevels, EnterFacts, TopFields DEF PlaceOK, VariablesAre
<1>3. Len(Top.arg.metadata) \in Nat
  BY <1>2, AliasesAssumption DEF IsAlias
<1>4. {<<"alias", Top.arg>>, <<"metadata", Top.arg>>} \subseteq Nodes(Rec)
  BY <1>2, NodesAre
<1>5. TwoItems(Rec, "alias", Top.arg, Text("fields", Top.arg.lit), Part("metadata", <<"metadata", Top.arg>>))
  BY Pairs
<1>6. 0 <= Len(Contents(Rec, "metadata", Top.arg))
  BY <1>3, MetadataShown
<1>7. /\ Going(heap', S) /\ Len(heap') = a
      /\ Begun(heap', d, Rec, "alias", Top.arg, 1) /\ Begun(heap', a, Rec, "metadata", Top.arg, 0)
      /\ S \subseteq Changeable
  <2>1. d \in S /\ Len(heap) + 2 \notin S
    BY <1>2
  <2> QED
    BY <1>1, <1>4, <1>5, <1>6, <2>1, PairMade DEF TwoItems
<1>8. VariablesAre(fr, d, a, 0, 0, 0) /\ fr.fn = "alias" /\ fr.pc = "metadata" /\ fr.arg = Top.arg /\ fr.i = 0
  BY <1>2, <1>7 DEF VariablesAre, Variables
<1> HIDE DEF fr
<1>9. Locals(fr) = S
  BY <1>2, <1>8, LocalsAre DEF VariablesAre
<1>10. FrameFilled(heap', Rec, fr)
  BY <1>7, <1>8, AliasFrameFilled DEF VariablesAre
<1> HIDE DEF S
<1> QED
  BY <1>1, <1>2, <1>7, <1>9, <1>10, GotoGoes

LEMMA AliasDoneData ==
  ASSUME IInv, SInv, DInv, AliasDone
  PROVE  DInv'
<1>1. /\ At("alias", "metadata") /\ Return(Top.obj) /\ Top.i = Len(Top.arg.metadata)
      /\ heap' = Set(heap, Top.obj, Item("metadata", Top.arr))
  BY DEF AliasDone
<1>2. stack # <<>> /\ Top.fn = "alias" /\ Top.pc = "metadata"
  BY <1>1, AtLevels
<1>3. /\ InHand(Top.obj) /\ InHand(Top.arr) /\ Top.obj # Top.arr /\ Top.arg \in Aliases
      /\ DatesValid(Rec) =>
           /\ Begun(heap, Top.obj, Rec, "alias", Top.arg, 1)
           /\ Begun(heap, Top.arr, Rec, "metadata", Top.arg, Top.i)
  BY <1>2, AliasFrame
<1>4. Going(heap, {Top.obj})
  BY GoingStarts
<1>5. Top.arr \in Puttable({Top.obj})
  BY <1>3 DEF Puttable, InHand
<1>6. ASSUME DatesValid(Rec)
      PROVE  SecondIs(heap, Top.obj, "metadata", Top.arr, "alias", Top.arg, "metadata", Top.arg)
  <2>1. TwoItems(Rec, "alias", Top.arg, Text("fields", Top.arg.lit), Part("metadata", <<"metadata", Top.arg>>))
    BY Pairs
  <2>2. Text("fields", Top.arg.lit).key # "metadata"
    BY DEF Text
  <2>3. Len(Contents(Rec, "metadata", Top.arg)) = Len(Top.arg.metadata)
    BY <1>3, AliasesAssumption, MetadataShown DEF IsAlias
  <2>4. Complete(heap, Top.arr, Rec, "metadata", Top.arg)
    BY <1>1, <1>3, <1>6, <2>3, CompleteIf
  <2>5. <<"metadata", Top.arg>> \in Nodes(Rec)
    BY <1>3, NodesAre
  <2> QED
    BY <1>3, <1>6, <2>1, <2>2, <2>4, <2>5 DEF TwoItems, SecondIs
<1>7. Top.obj \in 1 .. Len(heap) /\ Top.arr \in 1 .. Len(heap) /\ Top.obj \in Changeable /\ Top.obj # 0
  BY <1>3 DEF InHand
<1>8. Going(heap', {Top.obj})
  BY <1>1, <1>4, <1>5, <1>7, PutGoes
<1>9. ASSUME DatesValid(Rec) PROVE Complete(heap', Top.obj, Rec, Top.fn, Top.arg)
  BY <1>1, <1>2, <1>4, <1>5, <1>6, <1>7, <1>9, PartSet
<1> QED
  BY <1>1, <1>2, <1>7, <1>8, <1>9, ReturnGoes

(* How many objects there are after a number was set. *)
LEMMA NumberLength ==
  ASSUME NEW h, IsHeap(h), NEW d \in 1 .. Len(h), NEW key, NEW lit
  PROVE  IsHeap(SetNumber(h, d, key, lit)) /\ Len(SetNumber(h, d, key, lit)) = Len(h) + 1
<1> DEFINE g == SetNumber(h, d, key, lit)
<1>1. NumberPut(h, g, d, key, lit)
  BY GrowNumber
<1> HIDE DEF g
<1>2. IsHeap(g) /\ Len(g) = Len(h) + 1
  BY <1>1 DEF NumberPut, Grown
<1> QED
  BY <1>2 DEF g

(* The dictionary of an entry, with its tag. *)
LEMMA NewMetaGoes ==
  ASSUME IInv, SInv, DInv, stack # <<>>, Top.fn = "alias", Top.arg \in Aliases, Top.i \in Nat,
         Top.i < Len(Top.arg.metadata), Len(heap') \in Nat, Len(heap) + 2 <= Len(heap'),
         NEW S, Dict \in S, Len(heap) + 2 \notin S
  PROVE  /\ Going(NewMeta(heap), S) /\ Len(NewMeta(heap)) = Len(heap) + 2 /\ Len(heap) \in Nat
         /\ Dict \in Changeable /\ Dict # 0 /\ Dict \in 1 .. Len(NewMeta(heap))
         /\ KeepsBegun(heap, NewMeta(heap), Dict) /\ IsHeap(NewMeta(heap))
         /\ Begun(NewMeta(heap), Dict, Rec, "meta", Meta, 1)
<1> DEFINE g == NewContainer(heap, "meta")
           f == NewMeta(heap)
           e == Meta
<1>1. Going(heap, S) /\ IsHeap(heap) /\ Len(heap) \in Nat
  BY GoingStarts
<1>2. Going(g, S) /\ Len(g) = Len(heap) + 1 /\ KeepsBegun(heap, g, Dict)
  BY <1>1, GoOnNew DEF NewContainer
<1>3. Dict \in Changeable /\ Dict # 0 /\ Len(heap) + 2 \in Puttable(S)
  BY <1>1, NewChangeable DEF Dict
<1>4. Dict \in 1 .. Len(g) /\ Dict = Len(heap) + 1 /\ Len(g) + 1 = Len(heap) + 2
  BY <1>1, <1>2 DEF Dict
<1>5. /\ <<"meta", e>> \in Nodes(Rec) /\ Contents(Rec, "meta", e)[1] = Text("tag", e.tag)
      /\ 1 <= Len(Contents(Rec, "meta", e))
  <2>1. <<"meta", e>> \in Nodes(Rec)
    BY MetaShown
  <2>2. TwoItems(Rec, "meta", e, Text("tag", e.tag), MetaItem(e))
    BY Pairs
  <2> QED
    BY <2>1, <2>2 DEF TwoItems
<1> HIDE DEF g, e
<1>6. f = SetNumber(g, Dict, "tag", e.tag)
  BY <1>4 DEF NewMeta, g, e
<1> HIDE DEF f
<1>7. Dict \notin Referred(g)
  BY <1>2, <1>3, NotReferred
<1>8. Going(f, S) /\ Len(f) = Len(heap) + 2 /\ KeepsBegun(g, f, Dict)
  BY <1>2, <1>3, <1>4, <1>6, <1>7, GoOnNumber
<1>9. KeepsBegun(heap, f, Dict)
  BY <1>2, <1>8 DEF KeepsBegun
<1>10. Begun(f, Dict, Rec, "meta", e, 1)
  BY <1>1, <1>4, <1>5, <1>6, OpenBegun DEF g
<1> QED
  BY <1>1, <1>3, <1>4, <1>8, <1>9, <1>10, GoingFacts DEF f, e

(* The end of an entry whose dictionary d is complete. *)
LEMMA MetaClosed ==
  ASSUME IInv, SInv, DInv, stack # <<>>, Top.fn = "alias", Top.pc \in {"metadata", "nested", "cnids"},
         NextMeta, NEW h, NEW d \in 1 .. Len(h), heap' = CloseMeta(h, d),
         Going(h, {Top.obj, Top.arr}), d \in Puttable({Top.obj, Top.arr}),
         DatesValid(Rec) =>
           /\ Top.i < Len(Top.arg.metadata)
           /\ Begun(h, Top.obj, Rec, "alias", Top.arg, 1)
           /\ Begun(h, Top.arr, Rec, "metadata", Top.arg, Top.i) /\ Complete(h, d, Rec, "meta", Meta)
  PROVE  DInv'
<1> DEFINE S == {Top.obj, Top.arr}
           e == Meta
           g == Add(h, Top.arr, Element(d))
           fr == [Top EXCEPT !.i = @ + 1, !.sub = 0, !.subarr = 0, !.pc = "metadata"]
<1>1. /\ Len(heap) \in Nat /\ Top.arg \in Aliases
      /\ DOMAIN Top = {"fn", "pc", "arg", "i", "j"} \union Variables /\ Top.i \in Nat
      /\ InHand(Top.obj) /\ InHand(Top.arr) /\ Top.obj # Top.arr /\ Top.tmp = 0
  BY AliasFrame
<1>2. Goto(fr) /\ heap' = CFRelease(g, d)
  BY DEF NextMeta, CloseMeta
<1>3. ASSUME DatesValid(Rec)
      PROVE  /\ Begun(h, Top.arr, Rec, "metadata", Top.arg, Top.i)
             /\ Top.i + 1 <= Len(Contents(Rec, "metadata", Top.arg))
             /\ Contents(Rec, "metadata", Top.arg)[Top.i + 1] = Part(NoText, <<"meta", e>>)
             /\ <<"meta", e>> \in Nodes(Rec) /\ Complete(h, d, Rec, "meta", e)
  <2>1. Complete(h, d, Rec, "meta", e) /\ Begun(h, Top.arr, Rec, "metadata", Top.arg, Top.i)
    BY <1>3
  <2> QED
    BY <1>1, <1>3, <2>1, MetaShown
<1> HIDE DEF e
<1>4. /\ Going(g, S) /\ Len(g) = Len(h) /\ KeepsBegun(h, g, Top.arr)
      /\ DatesValid(Rec) => Begun(g, Top.arr, Rec, "metadata", Top.arg, Top.i + 1)
  <2>1. Top.arr \in S /\ Top.arr \in 1 .. Len(h) /\ Top.arr \in Changeable /\ d \in Puttable(S) /\ Going(h, S)
    BY <1>1, GoingFacts DEF InHand
  <2> HIDE DEF S
  <2> QED
    BY <1>3, <2>1, ElementAdded
<1> HIDE DEF g
<1>5. Going(heap', S) /\ KeepsBegun(g, heap', 0)
  BY <1>2, <1>4, GoOnRelease
<1>6. /\ VariablesAre(fr, Top.obj, Top.arr, 0, 0, 0)
      /\ fr.fn = "alias" /\ fr.pc = "metadata" /\ fr.arg = Top.arg /\ fr.i = Top.i + 1
  BY <1>1 DEF VariablesAre, Variables
<1> HIDE DEF fr
<1>7. Locals(fr) = S
  BY <1>1, <1>6, LocalsAre DEF VariablesAre, InHand
<1>8. ASSUME DatesValid(Rec) PROVE FrameFilled(heap', Rec, fr)
  <2>1. Begun(g, Top.obj, Rec, "alias", Top.arg, 1)
    BY <1>1, <1>4, <1>8 DEF KeepsBegun
  <2>2. Top.obj # 0 /\ Top.arr # 0
    BY <1>1 DEF InHand
  <2>3. Begun(heap', Top.obj, Rec, "alias", Top.arg, 1)
    BY <1>5, <2>1, <2>2 DEF KeepsBegun
  <2>4. Begun(heap', Top.arr, Rec, "metadata", Top.arg, Top.i + 1)
    BY <1>4, <1>5, <1>8, <2>2 DEF KeepsBegun
  <2> QED
    BY <1>6, <2>3, <2>4, AliasFrameFilled DEF VariablesAre
<1>9. S \subseteq Changeable
  BY <1>1 DEF InHand
<1> HIDE DEF S
<1> QED
  BY <1>2, <1>5, <1>7, <1>8, <1>9, GotoGoes

(* The value of an entry is the one to be shown if it is no date or a date *)
(* that can be converted.                                                  *)
LEMMA NumberIs ==
  ASSUME IInv, SInv, stack # <<>>, Top.fn = "alias", Len(stack) <= MaxDepth, DatesValid(Rec),
         Top.i \in Nat, Top.i < Len(Top.arg.metadata), Len(Top.arg.metadata) \in Nat
  PROVE  ValuesOf(Meta) = {Meta.lit}
<1> DEFINE c == CallOf(Top)
           e == Len(stack) - 1
<1>1. ActivationOK(Rec, Top, Len(stack)) /\ Len(stack) \in Nat /\ Len(stack) > 0
  BY RunFacts, StackFacts DEF IInv
<1>2. c \in Reaches(Rec, Root(Rec))[e] /\ e \in 0 .. MaxDepth
  BY <1>1, SizesAssumption DEF ActivationOK
<1>3. c.fn = "alias" /\ c.arg = Top.arg
  BY DEF CallOf, Activation
<1> HIDE DEF c, e
<1>4. \A k \in 1 .. Len(c.arg.metadata) : ValuesOf(c.arg.metadata[k]) = {c.arg.metadata[k].lit}
  BY <1>2, <1>3 DEF DatesValid
<1>5. Top.i + 1 \in 1 .. Len(Top.arg.metadata)
  OBVIOUS
<1> QED
  BY <1>3, <1>4, <1>5 DEF Meta

LEMMA AliasValueData ==
  ASSUME IInv, SInv, DInv, AliasValue
  PROVE  DInv'
<1> DEFINE g == NewMeta(heap)
           S == {Top.obj, Top.arr}
           T == {Top.obj, Top.arr, Dict}
<1>1. /\ At("alias", "metadata") /\ NextMeta /\ Top.i < Len(Top.arg.metadata)
      /\ Meta.tag # "alias" /\ ~IsCnids(Meta)
  BY DEF AliasValue, AtMeta
<1>2. PICK v \in ValuesOf(Meta) : heap' = CloseMeta(SetNumber(g, Dict, "value", v), Dict)
  BY DEF AliasValue, Dict
<1>3. stack # <<>> /\ Top.fn = "alias" /\ Top.pc = "metadata" /\ Len(stack) <= MaxDepth
  BY <1>1, AtLevels
<1>4. /\ Len(heap) \in Nat /\ IsHeap(heap) /\ Top.arg \in Aliases /\ Top.i \in Nat
      /\ InHand(Top.obj) /\ InHand(Top.arr) /\ Top.obj # Top.arr
      /\ DatesValid(Rec) =>
           /\ Begun(heap, Top.obj, Rec, "alias", Top.arg, 1)
           /\ Begun(heap, Top.arr, Rec, "metadata", Top.arg, Top.i)
  BY <1>3, AliasFrame
<1>5. Len(Top.arg.metadata) \in Nat /\ (DatesValid(Rec) => v = Meta.lit)
  <2>1. Len(Top.arg.metadata) \in Nat
    BY <1>4, AliasesAssumption DEF IsAlias
  <2> QED
    BY <1>1, <1>2, <1>3, <1>4, <2>1, NumberIs
<1> DEFINE f == SetNumber(g, Dict, "value", v)
           e == Meta
           k == Add(f, Top.arr, Element(Dict))
<1>6. Len(heap') = Len(heap) + 3 /\ IsHeap(f) /\ Len(f) = Len(heap) + 3
  <2> DEFINE b == NewContainer(heap, "meta")
  <2>1. IsHeap(b) /\ Len(b) = Len(heap) + 1
    BY <1>4, Lengths DEF NewContainer
  <2>2. g = SetNumber(b, Len(heap) + 1, "tag", Meta.tag)
    BY DEF NewMeta
  <2> HIDE DEF b, g
  <2>3. Len(heap) + 1 \in 1 .. Len(b)
    BY <1>4, <2>1
  <2>4. IsHeap(g) /\ Len(g) = Len(heap) + 2
    BY <1>4, <2>1, <2>2, <2>3, NumberLength
  <2>5. Dict \in 1 .. Len(g)
    BY <1>4, <2>4 DEF Dict
  <2>6. IsHeap(f) /\ Len(f) = Len(heap) + 3
    BY <1>4, <2>4, <2>5, NumberLength
  <2> HIDE DEF f
  <2>7. Dict \in 1 .. Len(f) /\ Dict \in 0 .. Len(f) /\ Len(f) \in Nat /\ Top.arr \in 1 .. Len(f)
    BY <1>4, <2>6 DEF Dict, InHand
  <2>8. IsItem(Element(Dict), Len(f))
    BY <2>7, ItemIsItem DEF Element
  <2>9. IsHeap(k) /\ Len(k) = Len(f)
    BY <2>6, <2>7, <2>8, Lengths
  <2>10. heap' = CFRelease(k, Dict)
    BY <1>2 DEF CloseMeta, f
  <2> HIDE DEF k
  <2> QED
    BY <2>6, <2>7, <2>9, <2>10, Lengths
<1> HIDE DEF k
<1>7. Dict \in T /\ Dict \notin S /\ Len(heap) + 2 \notin T /\ Len(heap) + 3 \notin T /\ S \subseteq T
  BY <1>4 DEF InHand, Dict
<1>8. /\ Going(g, T) /\ Len(g) = Len(heap) + 2 /\ Dict \in Changeable /\ Dict # 0 /\ Dict \in 1 .. Len(g)
      /\ KeepsBegun(heap, g, Dict) /\ IsHeap(g) /\ Begun(g, Dict, Rec, "meta", e, 1)
  <2> HIDE DEF T
  <2> QED
    BY <1>1, <1>3, <1>4, <1>6, <1>7, NewMetaGoes
<1>9. ASSUME DatesValid(Rec)
      PROVE  /\ Begun(g, Dict, Rec, "meta", e, 1) /\ 1 + 1 <= Len(Contents(Rec, "meta", e))
             /\ Contents(Rec, "meta", e)[1 + 1] = Text("value", v) /\ NewKey(Rec, "meta", e, 1, "value")
             /\ 1 + 1 = Len(Contents(Rec, "meta", e))
  <2>1. TwoItems(Rec, "meta", e, Text("tag", e.tag), MetaItem(e))
    BY Pairs
  <2>2. MetaItem(e) = Text("value", v)
    BY <1>1, <1>5, <1>9 DEF MetaItem
  <2>3. Text("tag", e.tag).key # "value"
    BY DEF Text
  <2> HIDE DEF e
  <2> QED
    BY <1>8, <2>1, <2>2, <2>3 DEF TwoItems, NewKey
<1>10. Len(g) + 1 \in Puttable(T) /\ Dict \in Puttable(S)
  <2>1. Len(heap) + 3 \in Puttable(T)
    BY <1>4, <1>6, <1>7, NewChangeable
  <2> HIDE DEF T
  <2> QED
    BY <1>4, <1>7, <1>8, <2>1 DEF Puttable
<1> HIDE DEF e, g, T
<1>11. /\ Going(f, T) /\ KeepsBegun(g, f, Dict)
       /\ DatesValid(Rec) => Begun(f, Dict, Rec, "meta", e, 1 + 1)
  BY <1>7, <1>8, <1>9, <1>10, NumberSet
<1> HIDE DEF f
<1>12. Going(f, S)
  BY <1>7, <1>11, GoingLess
<1>13. ASSUME DatesValid(Rec)
       PROVE  /\ Begun(f, Top.obj, Rec, "alias", Top.arg, 1)
              /\ Begun(f, Top.arr, Rec, "metadata", Top.arg, Top.i) /\ Complete(f, Dict, Rec, "meta", e)
  <2>1. Top.obj # Dict /\ Top.arr # Dict
    BY <1>7
  <2>2. Complete(f, Dict, Rec, "meta", e)
    BY <1>9, <1>11, <1>13, CompleteIf
  <2> QED
    BY <1>4, <1>8, <1>11, <1>13, <2>1, <2>2 DEF KeepsBegun
<1>14. Dict \in 1 .. Len(f) /\ heap' = CloseMeta(f, Dict)
  BY <1>2, <1>4, <1>6 DEF Dict, f
<1> HIDE DEF S
<1> QED
  BY <1>1, <1>3, <1>10, <1>12, <1>13, <1>14, MetaClosed DEF e, S

LEMMA AliasCnidsData ==
  ASSUME IInv, SInv, DInv, AliasCnids
  PROVE  DInv'
<1> DEFINE d == Len(heap) + 1
           b == Len(heap) + 3
           S == {Top.obj, Top.arr, d, b}
           fr == [Top EXCEPT !.sub = d, !.subarr = Len(heap'), !.j = 0, !.pc = "cnids"]
           e == Meta
<1>1. /\ At("alias", "metadata") /\ Goto(fr) /\ Top.i < Len(Top.arg.metadata) /\ IsCnids(e)
      /\ heap' = NewContainer(SetNumber(NewContainer(heap, "meta"), d, "tag", e.tag), "cnids")
  BY DEF AliasCnids, AtMeta, NewMeta
<1>2. stack # <<>> /\ Top.fn = "alias" /\ Top.pc = "metadata"
  BY <1>1, AtLevels
<1>3. /\ Len(heap) \in Nat /\ IsHeap(heap) /\ Top.arg \in Aliases
      /\ DOMAIN Top = {"fn", "pc", "arg", "i", "j"} \union Variables /\ Top.i \in Nat
      /\ InHand(Top.obj) /\ InHand(Top.arr) /\ Top.obj # Top.arr /\ Top.tmp = 0
      /\ DatesValid(Rec) =>
           /\ Begun(heap, Top.obj, Rec, "alias", Top.arg, 1)
           /\ Begun(heap, Top.arr, Rec, "metadata", Top.arg, Top.i)
  BY <1>2, AliasFrame
<1>4. e.length \in Nat /\ <<"meta", e>> \in Nodes(Rec) /\ <<"cnids", e>> \in Nodes(Rec)
  BY <1>1, <1>3, MetaShown
<1>5. /\ TwoItems(Rec, "meta", e, Text("tag", e.tag), MetaItem(e))
      /\ 0 <= Len(Contents(Rec, "cnids", e))
  <2> HIDE DEF e
  <2>1. TwoItems(Rec, "meta", e, Text("tag", e.tag), MetaItem(e))
    BY Pairs
  <2>2. e.length \div 4 \in Nat
    BY <1>4
  <2>3. Len(Contents(Rec, "cnids", e)) = e.length \div 4
    BY <2>2, CnidsShown
  <2> QED
    BY <2>1, <2>2, <2>3
<1>6. /\ Going(heap', S) /\ Len(heap') = b /\ KeepsBegun(heap, heap', d)
      /\ Begun(heap', d, Rec, "meta", e, 1) /\ Begun(heap', b, Rec, "cnids", e, 0)
      /\ {d, b} \subseteq Changeable
  <2>1. d \in S /\ Len(heap) + 2 \notin S
    BY <1>3 DEF InHand
  <2> HIDE DEF e, S
  <2> QED
    BY <1>1, <1>4, <1>5, <2>1, PairMade DEF TwoItems
<1>7. /\ VariablesAre(fr, Top.obj, Top.arr, d, b, 0)
      /\ fr.fn = "alias" /\ fr.pc = "cnids" /\ fr.arg = Top.arg /\ fr.i = Top.i /\ fr.j = 0
  BY <1>2, <1>3, <1>6 DEF VariablesAre, Variables
<1>8. Top.obj # d /\ Top.arr # d /\ Top.obj # 0 /\ Top.arr # 0 /\ d # 0 /\ b # 0
  BY <1>3 DEF InHand
<1> HIDE DEF fr
<1>9. Locals(fr) = S
  BY <1>7, <1>8, LocalsAre DEF VariablesAre
<1>10. ASSUME DatesValid(Rec) PROVE FrameFilled(heap', Rec, fr)
  <2>1. /\ Begun(heap', Top.obj, Rec, "alias", Top.arg, 1)
        /\ Begun(heap', Top.arr, Rec, "metadata", Top.arg, Top.i)
    BY <1>3, <1>6, <1>8, <1>10 DEF KeepsBegun
  <2>2. MetaIn(fr) = e
    BY <1>7 DEF MetaIn, Meta
  <2> HIDE DEF e
  <2> QED
    BY <1>1, <1>6, <1>7, <2>1, <2>2, AliasFrameFilled DEF VariablesAre
<1>11. S \subseteq Changeable
  BY <1>3, <1>6 DEF InHand
<1> HIDE DEF S
<1> QED
  BY <1>1, <1>2, <1>6, <1>9, <1>10, <1>11, GotoGoes

LEMMA AliasCnidData ==
  ASSUME IInv, SInv, DInv, AliasCnid
  PROVE  DInv'
<1> DEFINE o == Len(heap) + 1
           e == Meta
           it == Item(NoText, o)
           g == New(heap, "value", e.lit)
           f == Add(g, Top.subarr, it)
           S == {Top.obj, Top.arr, Top.sub, Top.subarr}
           fr == [Top EXCEPT !.j = @ + 1]
<1>1. /\ At("alias", "cnids") /\ Goto(fr) /\ Top.j < e.length \div 4 /\ heap' = CFRelease(f, o)
  BY DEF AliasCnid, Element
<1>2. stack # <<>> /\ Top.fn = "alias" /\ Top.pc = "cnids"
  BY <1>1, AtLevels
<1>3. /\ Len(heap) \in Nat /\ IsHeap(heap) /\ Top.arg \in Aliases
      /\ DOMAIN Top = {"fn", "pc", "arg", "i", "j"} \union Variables /\ Top.i \in Nat /\ Top.j \in Nat
      /\ InHand(Top.obj) /\ InHand(Top.arr) /\ InHand(Top.sub) /\ InHand(Top.subarr)
      /\ Top.subarr \notin {Top.obj, Top.arr, Top.sub} /\ Locals(Top) = S
      /\ DatesValid(Rec) =>
           /\ Begun(heap, Top.obj, Rec, "alias", Top.arg, 1)
           /\ Begun(heap, Top.arr, Rec, "metadata", Top.arg, Top.i)
           /\ Top.i < Len(Top.arg.metadata) /\ Begun(heap, Top.sub, Rec, "meta", e, 1)
           /\ IsCnids(e) /\ Begun(heap, Top.subarr, Rec, "cnids", e, Top.j)
  BY <1>2, AliasFrame
<1>4. ASSUME DatesValid(Rec) PROVE e.length \in Nat
  BY <1>3, <1>4, MetaShown
<1>5. /\ VariablesAre(fr, Top.obj, Top.arr, Top.sub, Top.subarr, Top.tmp)
      /\ fr.fn = "alias" /\ fr.pc = "cnids" /\ fr.arg = Top.arg /\ fr.i = Top.i /\ fr.j = Top.j + 1
      /\ MetaIn(fr) = e
  BY <1>2, <1>3 DEF VariablesAre, Variables, MetaIn, Meta
<1> HIDE DEF fr, e
<1>6. Locals(fr) = S
  BY <1>3, <1>5, SameVariables
<1>7. /\ Going(g, S) /\ Len(g) = o /\ KeepsBegun(heap, g, 0) /\ g[o].lit = e.lit /\ Len(g[o].items) = 0
      /\ IsHeap(g)
  BY <1>3, GoingStarts, GoOnNew, GrowNew, GoingFacts
<1> HIDE DEF g
<1>8. /\ Top.subarr \in 1 .. Len(g) /\ o \in 0 .. Len(g) /\ o \in 1 .. Len(g) /\ Len(g) \in Nat
      /\ o \notin S /\ o # Top.subarr
  BY <1>3, <1>7 DEF InHand
<1> HIDE DEF o
<1>9. IsItem(it, Len(g)) /\ it.ref = o /\ it.key = NoText
  BY <1>8, ItemIsItem DEF Item
<1> HIDE DEF it
<1>10. Len(heap') = Len(g)
  <2>1. IsHeap(f) /\ Len(f) = Len(g)
    BY <1>7, <1>8, <1>9, Lengths
  <2> HIDE DEF f
  <2> QED
    BY <1>1, <1>8, <2>1, Lengths
<1>11. o \in Puttable(S)
  <2> HIDE DEF S
  <2> QED
    BY <1>3, <1>7, <1>8, <1>10, NewChangeable DEF o
<1>12. Top.subarr \in S /\ Top.subarr \in Changeable
  BY <1>3 DEF InHand
<1>13. Top.subarr \notin Referred(g)
  <2> HIDE DEF S
  <2> QED
    BY <1>7, <1>12, NotReferred
<1>14. Going(f, S) /\ Len(f) = Len(g) /\ KeepsBegun(g, f, Top.subarr)
  <2> HIDE DEF S
  <2> QED
    BY <1>7, <1>8, <1>9, <1>11, <1>12, <1>13, GoOnAdd
<1>15. ASSUME DatesValid(Rec) PROVE Begun(f, Top.subarr, Rec, "cnids", e, Top.j + 1)
  <2>1. Begun(g, Top.subarr, Rec, "cnids", e, Top.j)
    BY <1>3, <1>7, <1>15 DEF KeepsBegun, InHand
  <2>2. Top.j + 1 \in 1 .. e.length \div 4 /\ e.length \div 4 \in Nat
    BY <1>1, <1>3, <1>4, <1>15
  <2>3. /\ Top.j + 1 <= Len(Contents(Rec, "cnids", e))
        /\ Contents(Rec, "cnids", e)[Top.j + 1] = Text(NoText, e.lit)
    BY <2>2, CnidsShown
  <2>4. Shows(g, it, Rec, Text(NoText, e.lit))
    BY <1>7, <1>8, <1>9, ShowsText
  <2> QED
    BY <1>7, <1>8, <1>9, <1>13, <2>1, <2>3, <2>4, BegunAdd
<1> HIDE DEF f
<1>16. Going(heap', S) /\ KeepsBegun(f, heap', 0)
  <2> HIDE DEF S
  <2> QED
    BY <1>1, <1>8, <1>14, GoOnRelease
<1>17. ASSUME DatesValid(Rec) PROVE FrameFilled(heap', Rec, fr)
  <2>1. ASSUME NEW x \in {Top.obj, Top.arr, Top.sub}, NEW kind, NEW y, NEW i, Begun(heap, x, Rec, kind, y, i)
        PROVE  Begun(heap', x, Rec, kind, y, i)
    <3>1. x # 0 /\ x # Top.subarr
      BY <1>3 DEF InHand
    <3>2. Begun(g, x, Rec, kind, y, i)
      BY <1>7, <2>1, <3>1 DEF KeepsBegun
    <3>3. Begun(f, x, Rec, kind, y, i)
      BY <1>14, <3>1, <3>2 DEF KeepsBegun
    <3> QED
      BY <1>16, <3>1, <3>3 DEF KeepsBegun
  <2>2. Begun(heap', Top.subarr, Rec, "cnids", e, Top.j + 1)
    BY <1>3, <1>15, <1>16, <1>17 DEF KeepsBegun, InHand
  <2>3. /\ Begun(heap', Top.obj, Rec, "alias", Top.arg, 1)
        /\ Begun(heap', Top.arr, Rec, "metadata", Top.arg, Top.i)
        /\ Begun(heap', Top.sub, Rec, "meta", e, 1)
    BY <1>3, <1>17, <2>1
  <2> QED
    BY <1>3, <1>5, <1>17, <2>2, <2>3, AliasFrameFilled DEF VariablesAre
<1>18. S \subseteq Changeable
  BY <1>3 DEF InHand
<1> HIDE DEF S
<1> QED
  BY <1>1, <1>2, <1>6, <1>16, <1>17, <1>18, GotoGoes

LEMMA AliasCnidsDoneData ==
  ASSUME IInv, SInv, DInv, AliasCnidsDone
  PROVE  DInv'
<1> DEFINE d == Top.sub
           b == Top.subarr
           e == Meta
           g == Set(heap, d, Item("value", b))
           S == {Top.obj, Top.arr}
           T == {Top.obj, Top.arr, d}
<1>1. /\ At("alias", "cnids") /\ heap' = CloseMeta(g, d) /\ NextMeta /\ Top.j = e.length \div 4
  BY DEF AliasCnidsDone
<1>2. stack # <<>> /\ Top.fn = "alias" /\ Top.pc = "cnids"
  BY <1>1, AtLevels
<1>3. /\ Len(heap) \in Nat /\ IsHeap(heap) /\ Top.arg \in Aliases /\ Top.i \in Nat
      /\ InHand(Top.obj) /\ InHand(Top.arr) /\ InHand(d) /\ InHand(b)
      /\ d \notin S /\ b \notin T
      /\ DatesValid(Rec) =>
           /\ Begun(heap, Top.obj, Rec, "alias", Top.arg, 1)
           /\ Begun(heap, Top.arr, Rec, "metadata", Top.arg, Top.i)
           /\ Top.i < Len(Top.arg.metadata) /\ Begun(heap, d, Rec, "meta", e, 1)
           /\ IsCnids(e) /\ Begun(heap, b, Rec, "cnids", e, Top.j)
  BY <1>2, AliasFrame
<1>4. ASSUME DatesValid(Rec)
      PROVE  SecondIs(heap, d, "value", b, "meta", e, "cnids", e)
  <2>1. TwoItems(Rec, "meta", e, Text("tag", e.tag), MetaItem(e))
    BY Pairs
  <2>2. Text("tag", e.tag).key # "value"
    BY DEF Text
  <2>3. <<"cnids", e>> \in Nodes(Rec) /\ e.length \in Nat
    BY <1>3, <1>4, MetaShown
  <2> HIDE DEF e
  <2>4. e.length \div 4 \in Nat
    BY <2>3
  <2>5. Len(Contents(Rec, "cnids", e)) = e.length \div 4
    BY <2>4, CnidsShown
  <2>6. Complete(heap, b, Rec, "cnids", e)
    BY <1>1, <1>3, <1>4, <2>5, CompleteIf
  <2>7. MetaItem(e) = Part("value", <<"cnids", e>>)
    BY <1>3, <1>4 DEF MetaItem, IsCnids
  <2> QED
    BY <1>3, <1>4, <2>1, <2>2, <2>3, <2>6, <2>7 DEF TwoItems, SecondIs
<1>5. d \in 1 .. Len(heap) /\ b \in 1 .. Len(heap) /\ d \in Changeable /\ d \in T /\ b \in Puttable(T)
  BY <1>3 DEF InHand, Puttable
<1>6. Going(heap, T)
  BY GoingStarts
<1>7. Going(g, T) /\ Len(g) = Len(heap) /\ KeepsBegun(heap, g, d)
  <2> HIDE DEF T, d, b
  <2> QED
    BY <1>5, <1>6, PutGoes
<1>8. ASSUME DatesValid(Rec) PROVE Complete(g, d, Rec, "meta", e)
  <2> HIDE DEF T, d, b, e
  <2> QED
    BY <1>4, <1>5, <1>6, <1>8, PartSet
<1> HIDE DEF g
<1>9. Going(g, S)
  BY <1>7, GoingLess
<1>10. ASSUME DatesValid(Rec)
       PROVE  /\ Begun(g, Top.obj, Rec, "alias", Top.arg, 1)
              /\ Begun(g, Top.arr, Rec, "metadata", Top.arg, Top.i)
  BY <1>3, <1>7, <1>10 DEF KeepsBegun
<1>11. d \in 1 .. Len(g) /\ d \in Puttable(S)
  BY <1>3, <1>5, <1>7 DEF Puttable
<1> HIDE DEF d
<1> QED
  BY <1>1, <1>2, <1>3, <1>8, <1>9, <1>10, <1>11, MetaClosed

LEMMA AliasNestedData ==
  ASSUME IInv, SInv, DInv, AliasNested
  PROVE  DInv'
<1> DEFINE g == NewMeta(heap)
           a == Meta.alias
           S == {Top.obj, Top.arr, Dict}
           fr == [Top EXCEPT !.sub = Dict, !.pc = "nested"]
<1>1. /\ At("alias", "metadata") /\ Top.i < Len(Top.arg.metadata) /\ Meta.tag = "alias"
      /\ heap' = AliasOf(g, a) /\ Call(fr, "alias", a)
  BY DEF AliasNested, AtMeta, Dict
<1>2. stack # <<>> /\ Top.fn = "alias" /\ Top.pc = "metadata" /\ ret = <<>>
  BY <1>1, AtLevels
<1>3. /\ Len(heap) \in Nat /\ IsHeap(heap) /\ Top.arg \in Aliases
      /\ DOMAIN Top = {"fn", "pc", "arg", "i", "j"} \union Variables /\ Top.i \in Nat
      /\ InHand(Top.obj) /\ InHand(Top.arr) /\ Top.obj # Top.arr /\ Top.tmp = 0 /\ Top.subarr = 0
      /\ DatesValid(Rec) =>
           /\ Begun(heap, Top.obj, Rec, "alias", Top.arg, 1)
           /\ Begun(heap, Top.arr, Rec, "metadata", Top.arg, Top.i)
  BY <1>2, AliasFrame
<1>4. IsHeap(g) /\ Len(g) = Len(heap) + 2
  <2> DEFINE b == NewContainer(heap, "meta")
  <2>1. IsHeap(b) /\ Len(b) = Len(heap) + 1
    BY <1>3, Lengths DEF NewContainer
  <2>2. g = SetNumber(b, Len(heap) + 1, "tag", Meta.tag)
    BY DEF NewMeta
  <2> HIDE DEF b, g
  <2>3. Len(heap) + 1 \in 1 .. Len(b)
    BY <1>3, <2>1
  <2> QED
    BY <1>3, <2>1, <2>2, <2>3, NumberLength
<1> HIDE DEF g, a
<1>5. Len(heap') \in Nat /\ Len(heap) + 2 <= Len(heap')
  <2>1. Len(heap') = (IF a.parses THEN Len(g) + 1 ELSE Len(g))
    BY <1>1, <1>4, AliasLength
  <2> QED
    BY <1>3, <1>4, <2>1
<1>6. Dict \in S /\ Len(heap) + 2 \notin S /\ Dict \notin {Top.obj, Top.arr}
  BY <1>3 DEF InHand, Dict
<1>7. /\ Going(g, S) /\ Dict \in Changeable /\ Dict # 0 /\ KeepsBegun(heap, g, Dict)
      /\ Begun(g, Dict, Rec, "meta", Meta, 1)
  <2> HIDE DEF S
  <2> QED
    BY <1>1, <1>2, <1>3, <1>5, <1>6, NewMetaGoes DEF g
<1>8. Going(heap', S) /\ KeepsBegun(g, heap', 0)
  <2> HIDE DEF S
  <2> QED
    BY <1>1, <1>7, GoOnAlias
<1>9. /\ VariablesAre(fr, Top.obj, Top.arr, Dict, 0, 0)
      /\ fr.fn = "alias" /\ fr.pc = "nested" /\ fr.arg = Top.arg /\ fr.i = Top.i /\ MetaIn(fr) = Meta
  BY <1>2, <1>3 DEF VariablesAre, Variables, MetaIn, Meta
<1> HIDE DEF fr
<1>10. Locals(fr) = S
  BY <1>3, <1>7, <1>9, LocalsAre DEF VariablesAre, InHand
<1>11. ASSUME DatesValid(Rec) PROVE FrameFilled(heap', Rec, fr)
  <2>1. /\ Begun(g, Top.obj, Rec, "alias", Top.arg, 1)
        /\ Begun(g, Top.arr, Rec, "metadata", Top.arg, Top.i)
    BY <1>3, <1>6, <1>7, <1>11 DEF KeepsBegun
  <2>2. /\ Begun(heap', Top.obj, Rec, "alias", Top.arg, 1)
        /\ Begun(heap', Top.arr, Rec, "metadata", Top.arg, Top.i)
        /\ Begun(heap', Dict, Rec, "meta", Meta, 1)
    BY <1>3, <1>7, <1>8, <2>1 DEF KeepsBegun, InHand
  <2> QED
    BY <1>1, <1>9, <2>2, AliasFrameFilled DEF VariablesAre
<1>12. S \subseteq Changeable
  BY <1>3, <1>7 DEF InHand
<1> HIDE DEF S
<1> QED
  BY <1>1, <1>2, <1>8, <1>10, <1>11, <1>12, CallGoes

LEMMA AliasNestedDoneData ==
  ASSUME IInv, SInv, DInv, AliasNestedDone
  PROVE  DInv'
<1> DEFINE d == Top.sub
           e == Meta
           g == Set(heap, d, Item("value", Ret))
           f == CFRelease(g, Ret)
           S == {Top.obj, Top.arr}
           T == {Top.obj, Top.arr, d}
<1>1. Back("alias", "nested") /\ heap' = CloseMeta(f, d) /\ NextMeta
  BY DEF AliasNestedDone
<1>2. /\ stack # <<>> /\ Top.fn = "alias" /\ Top.pc = "nested" /\ Ret \in Hand /\ Ret \in 1 .. Len(heap)
      /\ Ret # 0 /\ Ret \notin Locals(Top) /\ Ret \in Changeable
  BY <1>1, BackHands, HandChangeable
<1>3. /\ Len(heap) \in Nat /\ IsHeap(heap) /\ Top.arg \in Aliases /\ Top.i \in Nat
      /\ InHand(Top.obj) /\ InHand(Top.arr) /\ InHand(d)
      /\ d \notin S /\ Ret \notin T
      /\ DatesValid(Rec) =>
           /\ Begun(heap, Top.obj, Rec, "alias", Top.arg, 1)
           /\ Begun(heap, Top.arr, Rec, "metadata", Top.arg, Top.i)
           /\ Top.i < Len(Top.arg.metadata) /\ Begun(heap, d, Rec, "meta", e, 1) /\ e.tag = "alias"
  BY <1>2, AliasFrame
<1>4. ASSUME DatesValid(Rec)
      PROVE  SecondIs(heap, d, "value", Ret, "meta", e, "alias", e.alias)
  <2>1. TwoItems(Rec, "meta", e, Text("tag", e.tag), MetaItem(e))
    BY Pairs
  <2>2. Text("tag", e.tag).key # "value"
    BY DEF Text
  <2>3. <<"alias", e.alias>> \in Nodes(Rec)
    BY <1>3, <1>4, MetaShown
  <2>4. Pending(Rec, Top) = Activation("alias", e.alias)
    BY <1>2 DEF Pending, In, Meta
  <2>5. Complete(heap, Ret, Rec, "alias", e.alias)
    BY <1>1, <1>4, <2>4, RetComplete
  <2>6. MetaItem(e) = Part("value", <<"alias", e.alias>>)
    BY <1>3, <1>4 DEF MetaItem
  <2> HIDE DEF e
  <2> QED
    BY <1>3, <1>4, <2>1, <2>2, <2>3, <2>5, <2>6 DEF TwoItems, SecondIs
<1>5. d \in 1 .. Len(heap) /\ d \in Changeable /\ d \in T /\ Ret \in Puttable(T)
  BY <1>2, <1>3 DEF InHand, Puttable
<1>6. Going(heap, T)
  BY GoingStarts
<1>7. Going(g, T) /\ Len(g) = Len(heap) /\ KeepsBegun(heap, g, d)
  <2> HIDE DEF T, d
  <2> QED
    BY <1>2, <1>5, <1>6, PutGoes
<1>8. ASSUME DatesValid(Rec) PROVE Complete(g, d, Rec, "meta", e)
  <2> DEFINE x == e.alias
  <2>1. SecondIs(heap, d, "value", Ret, "meta", e, "alias", x)
    BY <1>4, <1>8
  <2> HIDE DEF T, d, e, x
  <2> QED
    BY <1>5, <1>6, <2>1, PartSet
<1> HIDE DEF g
<1>9. Going(f, T) /\ Len(f) = Len(heap) /\ KeepsBegun(g, f, 0)
  <2> HIDE DEF T
  <2> QED
    BY <1>2, <1>7, GoOnRelease
<1> HIDE DEF f
<1>10. Going(f, S)
  BY <1>9, GoingLess
<1>11. ASSUME DatesValid(Rec)
       PROVE  /\ Begun(f, Top.obj, Rec, "alias", Top.arg, 1)
              /\ Begun(f, Top.arr, Rec, "metadata", Top.arg, Top.i) /\ Complete(f, d, Rec, "meta", e)
  <2>1. /\ Begun(g, Top.obj, Rec, "alias", Top.arg, 1)
        /\ Begun(g, Top.arr, Rec, "metadata", Top.arg, Top.i)
    BY <1>3, <1>7, <1>11 DEF KeepsBegun
  <2> HIDE DEF e
  <2> QED
    BY <1>3, <1>8, <1>9, <1>11, <2>1 DEF KeepsBegun, Complete, InHand
<1>12. d \in 1 .. Len(f) /\ d \in Puttable(S)
  BY <1>3, <1>5, <1>9 DEF Puttable
<1> HIDE DEF d
<1> QED
  BY <1>1, <1>2, <1>3, <1>10, <1>11, <1>12, MetaClosed

-----------------------------------------------------------------------------
(* The steps of the caller, and the others.                                *)

(* A step of the caller. *)
LEMMA CallerData ==
  ASSUME IInv, DInv, records' \in {0, records}, records' # 0 => UNCHANGED <<recs, NumberDone>>,
         LocalsFrom(stack') = {}, ret' = <<>>, NEW R, Grown(heap, heap', {}, R),
         R \intersect Nonzero({records'}) = {}, ContentsOK', PrintedMirrorsData', IsSequence(printed')
  PROVE  DInv'
<1>1. InTheMaking' = Nonzero({records'}) /\ Nonzero({records'}) \subseteq Nonzero({records})
  BY DEF InTheMaking, Given, Nonzero
<1>2. Referred(heap) \intersect Nonzero({records}) = {}
  BY HandInTheMaking DEF DInv
<1>3. (Referred(heap) \intersect InTheMaking = {})'
  BY <1>1, <1>2 DEF Grown
<1>4. CollectedOK'
  <2>1. CASE records' = 0
    BY <2>1 DEF CollectedOK
  <2>2. CASE records' # 0
    <3>1. UNCHANGED <<recs, records, NumberDone>> /\ records \in 0 .. Len(heap) /\ CollectedOK
      BY <2>2 DEF IInv, TypeOK, DInv
    <3> DEFINE X == {}
    <3>2. Grown(heap, heap', X, R) /\ X \intersect Referred(heap) = {} /\ records \notin X
      OBVIOUS
    <3> HIDE DEF X
    <3> QED
      BY <3>1, <3>2, CollectedKept
  <2> QED
    BY <2>1, <2>2
<1> QED
  BY <1>3, <1>4 DEF DInv

(* The record's list is new. *)
LEMMA FetchedGrows ==
  ASSUME NEW h, IsHeap(h), NEW p
  PROVE  Grown(h, PlistOf(h, p), {}, {0, Len(h) + 2})
<1> DEFINE d == Len(h) + 1
           a == New(h, "plist", p)
           it == Constant("view", "icons")
           b == Set(a, d, it)
           c == SetNumber(b, d, "backgroundImageAlias", "bytes")
           None == {}
           R == {0, Len(h) + 2}
<1>1. Len(h) \in Nat /\ Grown(h, h, None, R)
  BY HeapDomain, GrownNotAtAll
<1>2. Grown(h, a, None, None) /\ Len(a) = d
  BY GrowNew
<1>3. IsHeap(a) /\ d \in 1 .. Len(a) /\ IsItem(it, Len(a)) /\ it.ref = 0
  BY <1>1, <1>2, ConstantShows DEF Grown
<1>4. PlistOf(h, p) \in {h, a, b, c}
  BY DEF PlistOf
<1> HIDE DEF d, a, it
<1>5. Grown(a, b, {d}, {it.ref}) /\ Len(b) = Len(a)
  BY <1>3, GrowSet
<1>6. IsHeap(b) /\ d \in 1 .. Len(b)
  BY <1>3, <1>5 DEF Grown
<1> HIDE DEF b
<1>7. Grown(b, c, {d}, {Len(b) + 1})
  BY <1>6, GrowNumber DEF NumberPut
<1> HIDE DEF c
<1>8. d \notin 1 .. Len(h) /\ Len(b) + 1 = Len(h) + 2
  BY <1>1, <1>2, <1>5 DEF d
<1>9. Grown(h, b, None \union {d}, None \union {it.ref})
  BY <1>2, <1>5, GrownTwice
<1>10. Grown(h, c, (None \union {d}) \union {d}, (None \union {it.ref}) \union {Len(b) + 1})
  BY <1>7, <1>9, GrownTwice
<1>11. Grown(h, a, None, R)
  BY <1>2, GrownMore
<1>12. Grown(h, b, None, R)
  BY <1>3, <1>8, <1>9, GrownMore
<1>13. Grown(h, c, None, R)
  BY <1>3, <1>8, <1>10, GrownMore
<1> QED
  BY <1>1, <1>4, <1>11, <1>12, <1>13

LEMMA FetchRecordData ==
  ASSUME IInv, DInv, FetchRecord
  PROVE  DInv'
<1> DEFINE fr == Frame("record", Rec)
           R == {0, Len(heap) + 2}
<1>1. /\ step = "fetch" /\ step' = "convert" /\ heap' = PlistOf(heap, Rec.plist) /\ stack' = <<fr>>
      /\ UNCHANGED <<mode, recs, n, ret, records, printed>>
  BY DEF FetchRecord
<1>2. ret = <<>>
  BY <1>1 DEF IInv, CallerOK
<1>3. fr.fn = "record" /\ fr.pc = "enter" /\ Locals(fr) = {}
  BY NewFrame
<1> HIDE DEF fr
<1>4. Len(stack') = 1 /\ stack'[1] = fr
  BY <1>1
<1>5. LocalsFrom(stack') = {}
  BY <1>3, <1>4 DEF LocalsFrom
<1>6. UNCHANGED <<recs, NumberDone>> /\ records' \in {0, records} /\ ret' = <<>>
  BY <1>1, <1>2 DEF NumberDone
<1>7. IsHeap(heap) /\ Len(heap) \in Nat /\ records \in 0 .. Len(heap)
  BY HeapDomain DEF IInv, HeapOK, TypeOK
<1>8. Grown(heap, heap', {}, R)
  BY <1>1, <1>7, FetchedGrows
<1>9. R \intersect Nonzero({records'}) = {}
  BY <1>1, <1>7 DEF Nonzero
<1>10. ContentsOK'
  <2>1. FrameFilled(heap', Rec', fr)
    BY <1>3 DEF FrameFilled, In
  <2> QED
    BY <1>4, <1>6, <2>1 DEF ContentsOK
<1>11. PrintedMirrorsData' /\ IsSequence(printed')
  BY <1>1, <1>6 DEF DInv, PrintedMirrorsData
<1> QED
  BY <1>5, <1>6, <1>8, <1>9, <1>10, <1>11, CallerData

LEMMA NullDictionaryData ==
  ASSUME DInv, NullDictionary
  PROVE  DInv'
BY HaltData DEF NullDictionary, Halt

LEMMA FreeRecordData ==
  ASSUME IInv, DInv, FreeRecord
  PROVE  DInv'
<1>1. /\ step = "free" /\ step' = "fetch" /\ n' = n + 1
      /\ heap' = IF plist = 0 THEN heap ELSE CFRelease(heap, plist)
      /\ UNCHANGED <<mode, recs, stack, ret, records, printed>>
  BY DEF FreeRecord
<1>2. stack = <<>> /\ ret = <<>>
  BY <1>1 DEF IInv, CallerOK
<1>3. LocalsFrom(stack') = {} /\ ret' = <<>>
  BY <1>1, <1>2 DEF LocalsFrom
<1>4. UNCHANGED <<recs, NumberDone>> /\ records' \in {0, records}
  BY <1>1 DEF NumberDone
<1>5. IsHeap(heap) /\ Len(heap) \in Nat /\ plist \in 0 .. Len(heap)
  BY HeapDomain DEF IInv, HeapOK, TypeOK
<1> DEFINE None == {}
<1>6. Grown(heap, heap', None, None)
  <2>1. plist # 0 => plist \in 1 .. Len(heap)
    BY <1>5
  <2> QED
    BY <1>1, <1>5, <2>1, GrownNotAtAll, GrowRelease
<1>7. ContentsOK'
  BY <1>1 DEF ContentsOK
<1>8. PrintedMirrorsData' /\ IsSequence(printed')
  BY <1>1, <1>4 DEF DInv, PrintedMirrorsData
<1> QED
  BY <1>3, <1>4, <1>6, <1>7, <1>8, CallerData

(* The dictionary that the caller is given shows the record. *)
LEMMA RecordShown ==
  ASSUME IInv, DInv, Returned, Ret # 0
  PROVE  /\ Ret \in 1 .. Len(heap) /\ Ret \in InTheMaking
         /\ DatesValid(Rec) => Tree(heap)[Depth][Ret] = Shown(Rec)
<1>1. stack = <<>> /\ ret # <<>> /\ step = "convert"
  BY DEF Returned
<1>2. Ret \in 1 .. Len(heap) /\ IsHeap(heap)
  BY ReturnedFacts DEF IInv, HeapOK
<1>3. Ret \in InTheMaking
  BY <1>1 DEF InTheMaking, Given, Nonzero
<1>4. Awaited.fn = "record" /\ Awaited.arg = Rec
  BY <1>1 DEF Awaited, Root, Activation
<1>5. ASSUME DatesValid(Rec)
      PROVE  Tree(heap)[Depth][Ret] = Shown(Rec)
  <2>1. Complete(heap, Ret, Rec, "record", Rec)
    BY <1>1, <1>4, <1>5 DEF DInv, ContentsOK
  <2>2. Depth \in 0 .. Depth
    BY SizesAssumption
  <2>3. <<"record", Rec>> \in Nodes(Rec)
    BY NodesAre
  <2> QED
    BY <1>2, <2>1, <2>2, <2>3, CompleteTree DEF Shown
<1> QED
  BY <1>2, <1>3, <1>5

LEMMA DumpRecordData ==
  ASSUME IInv, DInv, DumpRecord
  PROVE  DInv'
<1> DEFINE None == {}
           t == Tree(heap)[Depth][Ret]
<1>1. /\ Returned /\ Ret # 0 /\ mode = "dump" /\ step = "convert" /\ stack = <<>>
      /\ printed' = Append(printed, t) /\ heap' = CFRelease(heap, Ret)
      /\ ret' = <<>> /\ step' = "free"
      /\ UNCHANGED <<mode, recs, n, stack, records>>
  BY DEF DumpRecord, Returned
<1>2. Ret \in 1 .. Len(heap) /\ (DatesValid(Rec) => t = Shown(Rec))
  BY <1>1, RecordShown
<1> HIDE DEF t
<1>3. records' = 0 /\ IsHeap(heap) /\ n \in Nat
  BY <1>1 DEF IInv, CallerOK, HeapOK, TypeOK
<1>4. Grown(heap, heap', None, None)
  BY <1>1, <1>2, <1>3, GrowRelease
<1>5. LocalsFrom(stack') = {}
  BY <1>1 DEF LocalsFrom
<1>6. /\ Len(printed) = n /\ IsSequence(printed)
      /\ \A k \in 1 .. Len(printed) : DatesValid(recs[k]) => printed[k] = Shown(recs[k])
  BY <1>1 DEF DInv, PrintedMirrorsData, NumberDone
<1>7. /\ IsSequence(printed') /\ Len(printed') = n + 1
      /\ \A k \in 1 .. n : printed'[k] = printed[k]
      /\ printed'[n + 1] = t
  BY <1>1, <1>6, AppendSequence
<1>8. \A k \in 1 .. Len(printed') : DatesValid(recs[k]) => printed'[k] = Shown(recs[k])
  <2>1. \A k \in 1 .. Len(printed') : k \in 1 .. n \/ k = n + 1
    BY <1>3, <1>7
  <2> QED
    BY <1>2, <1>6, <1>7, <2>1 DEF Rec
<1>9. PrintedMirrorsData'
  BY <1>1, <1>7, <1>8 DEF PrintedMirrorsData, NumberDone
<1>10. ContentsOK'
  BY <1>1 DEF ContentsOK
<1> QED
  BY <1>1, <1>3, <1>4, <1>5, <1>7, <1>9, <1>10, CallerData DEF Nonzero

LEMMA CollectRecordData ==
  ASSUME IInv, DInv, CollectRecord
  PROVE  DInv'
<1> DEFINE it == Element(Ret)
           g == Add(heap, records, it)
           None == {}
           X == {records}
           R == {it.ref}
           t == Tree(heap)[Depth][Ret]
<1>1. /\ Returned /\ Ret # 0 /\ mode = "convert" /\ step = "convert" /\ stack = <<>>
      /\ heap' = CFRelease(g, Ret)
      /\ ret' = <<>> /\ step' = "free"
      /\ UNCHANGED <<mode, recs, n, stack, records, printed>>
  BY DEF CollectRecord, Returned
<1>2. records # 0
  BY <1>1 DEF IInv, CallerOK
<1>3. /\ Ret \in 1 .. Len(heap) /\ Ret \in InTheMaking /\ (DatesValid(Rec) => t = Shown(Rec))
      /\ records \in 1 .. Len(heap) /\ records \in InTheMaking /\ Ret # records
      /\ IsHeap(heap) /\ n \in Nat
  <2>1. Ret \notin Nonzero({plist, records}) /\ records \in 1 .. Len(heap)
    BY <1>1, <1>2, ReturnedFacts
  <2>2. Ret # records
    BY <1>2, <2>1 DEF Nonzero
  <2>3. records \in InTheMaking
    BY <1>2 DEF InTheMaking, Nonzero
  <2> QED
    BY <1>1, <2>1, <2>2, <2>3, RecordShown DEF IInv, HeapOK, TypeOK
<1> HIDE DEF t
<1>4. X \intersect Referred(heap) = {} /\ Ret \notin Referred(heap)
  BY <1>3 DEF DInv
<1>5. IsItem(it, Len(heap)) /\ it.ref = Ret
  <2>1. NoText = NoText /\ Ret \in 0 .. Len(heap) /\ Len(heap) \in Nat
    BY <1>3, HeapDomain
  <2> QED
    BY <2>1, ItemIsItem DEF Element, Item
<1> HIDE DEF it
<1>6. Grown(heap, g, X, R) /\ Len(g) = Len(heap) /\ g[records].items = Append(heap[records].items, it)
  BY <1>3, <1>5, GrowAdd
<1>7. IsHeap(g) /\ Ret \in 1 .. Len(g)
  BY <1>3, <1>6 DEF Grown
<1> HIDE DEF g
<1>8. Grown(g, heap', None, None) /\ Len(heap') = Len(g)
  BY <1>1, <1>7, GrowRelease
<1>9. Grown(heap, heap', X, R)
  <2>1. Grown(heap, heap', X \union None, R \union None)
    BY <1>6, <1>8, GrownTwice
  <2> QED
    BY <2>1
<1>10. heap'[records].items = Append(heap[records].items, it)
  BY <1>3, <1>6, <1>8 DEF Grown
<1>11. /\ IsSequence(heap[records].items) /\ Len(heap[records].items) = n
       /\ \A k \in 1 .. n : /\ heap[records].items[k].ref \in 1 .. Len(heap)
                            /\ heap[records].items[k].ref \in Referred(heap)
                            /\ DatesValid(recs[k]) =>
                                 Tree(heap)[Depth][heap[records].items[k].ref] = Shown(recs[k])
  <2>1. CollectedOK /\ NumberDone = n
    BY <1>1 DEF DInv, NumberDone
  <2>2. IsSequence(heap[records].items)
        /\ \A k \in 1 .. Len(heap[records].items) : heap[records].items[k].ref \in Referred(heap)
    BY <1>3, HeapDomain
  <2> QED
    BY <1>2, <2>1, <2>2 DEF CollectedOK
<1>12. /\ Len(heap'[records].items) = n + 1 /\ heap'[records].items[n + 1] = it
       /\ \A k \in 1 .. n : heap'[records].items[k] = heap[records].items[k]
  BY <1>10, <1>11, AppendSequence
<1> HIDE DEF X, R
<1>13. \A o \in 1 .. Len(heap) : o # records => Tree(heap')[Depth][o] = Tree(heap)[Depth][o]
  <2>1. Depth \in Nat
    BY SizesAssumption
  <2> QED
    BY <1>4, <1>9, <2>1, GrownTrees DEF X
<1>14. CollectedOK'
  <2>1. \A k \in 1 .. n + 1 : k \in 1 .. n \/ k = n + 1
    BY <1>3
  <2>2. ASSUME NEW k \in 1 .. n
        PROVE  LET o == heap'[records].items[k].ref IN
                 /\ o \in 1 .. Len(heap')
                 /\ DatesValid(recs[k]) => Tree(heap')[Depth][o] = Shown(recs[k])
    <3> DEFINE o == heap[records].items[k].ref
    <3>1. o \in 1 .. Len(heap) /\ o # records /\ heap'[records].items[k].ref = o
          /\ (DatesValid(recs[k]) => Tree(heap)[Depth][o] = Shown(recs[k]))
      BY <1>4, <1>11, <1>12 DEF X
    <3> QED
      BY <1>6, <1>8, <1>13, <3>1
  <2>3. /\ heap'[records].items[n + 1].ref = Ret /\ Ret \in 1 .. Len(heap')
        /\ DatesValid(recs[n + 1]) => Tree(heap')[Depth][Ret] = Shown(recs[n + 1])
    BY <1>3, <1>5, <1>6, <1>8, <1>12, <1>13 DEF Rec, t
  <2>4. \A k \in 1 .. n + 1 :
          /\ heap'[records].items[k].ref \in 1 .. Len(heap')
          /\ DatesValid(recs[k]) => Tree(heap')[Depth][heap'[records].items[k].ref] = Shown(recs[k])
    BY <2>1, <2>2, <2>3
  <2>5. records' = records /\ recs' = recs /\ NumberDone' = n + 1
    BY <1>1 DEF NumberDone
  <2> QED
    BY <1>12, <2>4, <2>5 DEF CollectedOK
<1>15. PrintedMirrorsData' /\ IsSequence(printed')
  BY <1>1 DEF DInv, PrintedMirrorsData, NumberDone
<1>16. ContentsOK'
  BY <1>1 DEF ContentsOK
<1>17. (Referred(heap) \intersect InTheMaking = {})'
  <2>1. InTheMaking' = Nonzero({records})
    BY <1>1 DEF InTheMaking, Given, LocalsFrom, Nonzero
  <2>2. Nonzero({records}) \subseteq X /\ R = {Ret}
    BY <1>5 DEF Nonzero, X, R
  <2> QED
    BY <1>3, <1>4, <1>9, <2>1, <2>2 DEF Grown, X
<1> QED
  BY <1>14, <1>15, <1>16, <1>17 DEF DInv

LEMMA FinishData ==
  ASSUME IInv, DInv, Finish
  PROVE  DInv'
<1> DEFINE f == [k \in 1 .. n |-> Tree(heap)[Depth][heap[records].items[k].ref]]
           None == {}
<1>1. /\ step = "fetch" /\ step' = "done" /\ records' = 0
      /\ IF mode = "dump" THEN UNCHANGED <<heap, printed>>
         ELSE printed' = f /\ heap' = CFRelease(heap, records)
      /\ UNCHANGED <<mode, recs, n, stack, ret>>
  BY DEF Finish
<1>2. stack = <<>> /\ ret = <<>> /\ (mode = "dump" \/ records # 0)
  BY <1>1 DEF IInv, CallerOK, TypeOK
<1>3. LocalsFrom(stack') = {} /\ ret' = <<>>
  BY <1>1, <1>2 DEF LocalsFrom
<1>4. IsHeap(heap) /\ Len(heap) \in Nat /\ records \in 0 .. Len(heap) /\ n \in Nat
  BY HeapDomain DEF IInv, HeapOK, TypeOK
<1>5. Grown(heap, heap', None, None)
  <2>1. records # 0 => records \in 1 .. Len(heap)
    BY <1>4
  <2> HIDE DEF f
  <2> QED
    BY <1>1, <1>2, <1>4, <2>1, GrownNotAtAll, GrowRelease
<1>6. ContentsOK'
  BY <1>1 DEF ContentsOK
<1>7. PrintedMirrorsData' /\ IsSequence(printed')
  <2>1. CASE mode = "dump"
    BY <1>1, <2>1 DEF DInv, PrintedMirrorsData, NumberDone
  <2>2. CASE mode # "dump"
    <3>1. \A k \in 1 .. n : DatesValid(recs[k]) => f[k] = Shown(recs[k])
      BY <1>1, <1>2, <2>2 DEF DInv, CollectedOK, NumberDone
    <3>2. f = [k \in 1 .. n |-> f[k]]
      OBVIOUS
    <3>3. printed' = f
      BY <1>1, <2>2
    <3> HIDE DEF f
    <3>4. IsSequence(f) /\ Len(f) = n
      BY <1>4, <3>2, MapSequence
    <3> QED
      BY <1>1, <3>1, <3>3, <3>4 DEF PrintedMirrorsData, NumberDone
  <2> QED
    BY <2>1, <2>2
<1> HIDE DEF f
<1> QED
  BY <1>1, <1>3, <1>5, <1>6, <1>7, CallerData DEF Nonzero

(* The steps that stop the program. *)
LEMMA HaltsData ==
  ASSUME DInv,
         \/ NullDictionary \/ RecordBookmarkOverrun \/ IcvpNotDictionary
         \/ ItemNotUTF8 \/ ItemOverrun \/ StackOverflow \/ AliasNull \/ AliasOverrun
  PROVE  DInv'
<1>1. \E how \in {"crash", "overrun", "overflow"} : Halt(how)
  BY DEF NullDictionary, RecordBookmarkOverrun, IcvpNotDictionary, ItemNotUTF8, ItemOverrun,
         StackOverflow, AliasNull, AliasOverrun
<1> QED
  BY <1>1, HaltData DEF Halt

(* What is freed is held by no container and has no owner. *)
LEMMA FreedApart ==
  ASSUME IInv, NEW p \in Freed(heap)
  PROVE  p \in 1 .. Len(heap) /\ p \notin Owned /\ p \notin Referred(heap)
<1>1. p \in 1 .. Len(heap) /\ heap[p].rc <= 0
  BY DEF Freed
<1>2. IsHeap(heap) /\ Balanced(heap, Owned, Leaks)
  BY DEF IInv, HeapOK
<1>3. heap[p].rc \in Int /\ Spare(heap, Owned, p) >= 0
  BY <1>1, <1>2 DEF IsHeap, Balanced
<1>4. p \notin Owned
  <2>1. p \in Owned => heap[p].rc > 0
    BY <1>2, OwnedCount
  <2> QED
    BY <1>1, <1>3, <2>1
<1>5. ASSUME p \in Referred(heap)
      PROVE  FALSE
  <2>1. PICK o \in 1 .. Len(heap) : \E k \in 1 .. Len(heap[o].items) : heap[o].items[k].ref = p
    BY <1>5, ReferredMember
  <2>2. PICK k \in 1 .. Len(heap[o].items) : heap[o].items[k].ref = p
    BY <2>1
  <2>3. k \in DOMAIN heap[o].items
    BY <1>2, HeapDomain
  <2>4. <<o, k>> \in Refs(heap, p)
    BY <2>2, <2>3, RefsMember
  <2>5. IsFiniteSet(Refs(heap, p)) /\ Cardinality(Refs(heap, p)) \in Nat
    BY <1>1, <1>2, RefsFinite
  <2>6. Cardinality(Refs(heap, p)) # 0
    BY <2>4, <2>5, FS_EmptySet
  <2> QED
    BY <1>1, <1>3, <2>5, <2>6 DEF Spare
<1> QED
  BY <1>1, <1>4, <1>5

(* Freed objects take their items with them. *)
LEMMA FreeItemsData ==
  ASSUME IInv, DInv, FreeItems
  PROVE  DInv'
<1>1. PICK p \in Freed(heap) : heap' = ReleaseItems(heap, p)
  BY DEF FreeItems
<1> DEFINE X == {p}
           R == {}
<1>2. /\ UNCHANGED caller /\ UNCHANGED <<recs, n, step, records, stack, ret, Rec, Top, Ret>>
  BY DEF FreeItems, caller, Rec, Top, Ret
<1>3. p \in 1 .. Len(heap) /\ p \notin Owned /\ p \notin Referred(heap)
  BY FreedApart
<1>4. IsHeap(heap) /\ Len(heap) \in Nat
  BY HeapDomain DEF IInv, HeapOK
<1>5. Grown(heap, heap', X, R)
  <2>1. /\ IsHeap(heap') /\ Len(heap') = Len(heap)
        /\ \A o \in 1 .. Len(heap) :
             Changed(heap[o], heap'[o], heap[o].rc - Cardinality(HeldBy(heap, {p}, o)),
                     IF o = p THEN <<>> ELSE heap[o].items)
    BY <1>1, <1>3, <1>4, ReleaseItemsObjects
  <2>2. /\ IsHeap(heap') /\ Len(heap') = Len(heap)
        /\ \A o \in 1 .. Len(heap) :
             heap'[o].lit = heap[o].lit /\ heap'[o].items = IF o = p THEN <<>> ELSE heap[o].items
    BY <2>1 DEF Changed
  <2>3. Len(heap'[p].items) = 0
    BY <1>3, <2>2
  <2> QED
    BY <1>4, <2>2, <2>3, GrownIf
<1>6. X \intersect Referred(heap) = {} /\ 0 \notin X
  BY <1>3, <1>4
<1>7. p \notin LocalsFrom(stack) /\ p \notin Nonzero({records} \union Given)
  BY <1>3 DEF Owned, Nonzero
<1>8. records \notin X
  BY <1>3, <1>7 DEF Nonzero
<1>9. UNCHANGED InTheMaking
  BY <1>2 DEF InTheMaking, Given
<1> HIDE DEF X, R
<1>10. ContentsOK'
  <2> SUFFICES ASSUME step = "convert", DatesValid(Rec)
               PROVE  /\ \A k \in 1 .. Len(stack) : FrameFilled(heap', Rec, stack[k])
                      /\ ret # <<>> /\ Ret # 0 => Complete(heap', Ret, Rec, Awaited.fn, Awaited.arg)
    BY <1>2 DEF ContentsOK, Awaited
  <2>1. ASSUME NEW k \in 1 .. Len(stack)
        PROVE  FrameFilled(heap', Rec, stack[k])
    <3>1. FrameFilled(heap, Rec, stack[k])
      BY DEF DInv, ContentsOK
    <3>2. X \intersect Locals(stack[k]) = {}
      BY <1>7 DEF LocalsFrom, X
    <3> QED
      BY <1>5, <1>6, <3>1, <3>2, FrameFilledKept
  <2>2. ASSUME ret # <<>>, Ret # 0
        PROVE  Complete(heap', Ret, Rec, Awaited.fn, Awaited.arg)
    <3>1. Complete(heap, Ret, Rec, Awaited.fn, Awaited.arg)
      BY <2>2 DEF DInv, ContentsOK
    <3>2. Ret \notin X
      BY <1>7, <2>2 DEF X, Given, Nonzero
    <3> QED
      BY <1>5, <1>6, <3>1, <3>2, CompleteKept
  <2> QED
    BY <2>1, <2>2
<1>11. Referred(heap) \intersect InTheMaking' = {} /\ R \intersect InTheMaking' = {}
  BY <1>9 DEF DInv, R
<1> QED
  BY <1>2, <1>5, <1>6, <1>8, <1>10, <1>11, DataStep

(* A step that changes nothing. *)
LEMMA StutterData ==
  ASSUME DInv, UNCHANGED vars
  PROVE  DInv'
<1>1. UNCHANGED <<heap, stack, ret, caller>>
  BY DEF vars, caller
<1> QED
  BY <1>1, HaltData

(* At the start nothing is made. *)
LEMMA InitData ==
  ASSUME Init
  PROVE  DInv
<1>1. /\ n = 0 /\ step = "fetch" /\ stack = <<>> /\ ret = <<>> /\ printed = <<>>
      /\ heap = IF mode = "convert" THEN New(<<>>, "records", NoText) ELSE <<>>
      /\ records = IF mode = "convert" THEN 1 ELSE 0
  BY DEF Init, NewContainer
<1>2. IsHeap(<<>>) /\ Len(<<>>) = 0
  BY ShortSequences DEF IsHeap
<1>3. /\ \A o \in 1 .. Len(heap) : Len(heap[o].items) = 0
      /\ records # 0 => records \in 1 .. Len(heap)
  <2>1. CASE mode = "convert"
    <3> DEFINE h == <<>>
    <3>1. IsHeap(h)
      BY <1>2
    <3>2. Len(h) = 0 /\ heap = New(h, "records", NoText)
      BY <1>1, <1>2, <2>1
    <3> HIDE DEF h
    <3> DEFINE g == New(h, "records", NoText)
    <3>3. Len(g) = Len(h) + 1 /\ Len(g[Len(h) + 1].items) = 0
      BY <3>1, GrowNew
    <3>4. heap = g
      BY <3>2
    <3> HIDE DEF g
    <3>5. Len(g) = 1 /\ Len(g[1].items) = 0
      <4>1. Len(h) + 1 = 1
        BY <3>2
      <4> QED
        BY <3>3, <4>1
    <3>6. \A o \in 1 .. Len(heap) : o = 1
      BY <3>4, <3>5
    <3>7. records = 1 /\ 1 \in 1 .. Len(heap)
      BY <1>1, <2>1, <3>4, <3>5
    <3> QED
      BY <3>4, <3>5, <3>6, <3>7
  <2>2. CASE mode # "convert"
    BY <1>1, <1>2, <2>2
  <2> QED
    BY <2>1, <2>2
<1>4. Referred(heap) = {}
  <2>1. \A x : x \notin Referred(heap)
    BY <1>3, ReferredMember
  <2> QED
    BY <2>1
<1>5. NumberDone = 0 /\ 1 .. 0 = {}
  BY <1>1 DEF NumberDone
<1>6. PrintedMirrorsData /\ IsSequence(printed)
  BY <1>1, <1>5, ShortSequences DEF PrintedMirrorsData
<1>7. ContentsOK /\ CollectedOK
  BY <1>1, <1>3, <1>5 DEF ContentsOK, CollectedOK
<1> QED
  BY <1>4, <1>6, <1>7 DEF DInv

(* Every step keeps the invariant. *)
LEMMA NextData ==
  ASSUME IInv, SInv, DInv, [Next]_vars
  PROVE  DInv'
<1>1. CASE UNCHANGED vars
  BY <1>1, StutterData
<1>2. CASE FreeItems
  BY <1>2, FreeItemsData
<1>3. CASE Caller
  BY <1>3, FetchRecordData, NullDictionaryData, DumpRecordData, CollectRecordData, FreeRecordData,
     FinishData DEF Caller
<1>4. CASE RecordStep
  BY <1>4, HaltsData, RecordScalarData, RecordDateData, RecordStructData, RecordWrongSizeData,
     RecordBookmarkData, RecordBookmarkDoneData, RecordAliasData, RecordAliasDoneData,
     RecordDataData, RecordPlistData, IcvpPlainData, IcvpAliasData, IcvpAliasDoneData
     DEF RecordStep
<1>5. CASE BookmarkStep
  BY <1>5, HaltsData, BookmarkEnterData, BookmarkTocData, BookmarkEntryData,
     BookmarkEntryDoneData, BookmarkTocDoneData, BookmarkDoneData, ItemScalarData, ItemArrayData,
     ItemElementData, ItemElementDoneData, ItemArrayDoneData, ItemDataData
     DEF BookmarkStep
<1>6. CASE AliasStep
  BY <1>6, HaltsData, AliasEnterData, AliasValueData, AliasCnidsData, AliasCnidData,
     AliasCnidsDoneData, AliasNestedData, AliasNestedDoneData, AliasDoneData
     DEF AliasStep
<1> QED
  BY <1>1, <1>2, <1>3, <1>4, <1>5, <1>6 DEF Next

(* The containers that are being made show, as far as they are, what is to *)
(* be shown of their part of the record, and no container holds one of     *)
(* them yet: the conversions fill them in the order of the data and put    *)
(* into others only what is complete.                                      *)
THEOREM DataInvariance == Spec => []DInv
<1>1. Init => DInv
  BY InitData
<1>2. IInv /\ SInv /\ DInv /\ [Next]_vars => DInv'
  BY NextData
<1>3. Init => SInv
  BY InitLevels
<1>4. IInv /\ SInv /\ [Next]_vars => SInv'
  BY NextLevels
<1> QED
  BY <1>1, <1>2, <1>3, <1>4, OwnershipInvariant, PTL DEF Spec

(* --dump and --convert print every record, in order, as its data nests:   *)
(* tables, entries, items, arrays and aliases inside of each other, to the *)
(* depth that is printed.                                                  *)
THEOREM PrintedAsTheDataNests == Spec => []PrintedMirrorsData
<1>1. DInv => PrintedMirrorsData
  BY DEF DInv
<1> QED
  BY <1>1, DataInvariance, PTL

===============================================================================
