--------------------------- MODULE ConversionProofs ---------------------------
(***************************************************************************)
(* No object is freed while it is used, whatever the records are, and what *)
(* is left allocated is known.                                             *)
(***************************************************************************)
EXTENDS ConversionStops, FiniteSetTheorems, FunctionTheorems, TLAPS

-----------------------------------------------------------------------------
(* Sequences of anything.                                                  *)

LEMMA IsSequenceIf ==
  ASSUME NEW S, NEW t \in Seq(S)
  PROVE  IsSequence(t)
<1>1. Len(t) \in Nat /\ t \in [1 .. Len(t) -> S]
  OBVIOUS
<1>2. t \in [1 .. Len(t) -> {t[l] : l \in 1 .. Len(t)}]
  BY <1>1
<1> QED
  BY <1>1, <1>2, SMTT(30) DEF IsSequence

LEMMA SequenceDomain ==
  ASSUME NEW s, IsSequence(s)
  PROVE  Len(s) \in Nat /\ DOMAIN s = 1 .. Len(s)
BY DEF IsSequence

LEMMA AppendSequence ==
  ASSUME NEW s, IsSequence(s), NEW x
  PROVE  /\ IsSequence(Append(s, x)) /\ Len(Append(s, x)) = Len(s) + 1
         /\ \A k \in 1 .. Len(s) : Append(s, x)[k] = s[k]
         /\ Append(s, x)[Len(s) + 1] = x
<1> DEFINE S == {s[k] : k \in 1 .. Len(s)} \union {x}
           t == Append(s, x)
<1>1. s \in Seq(S)
  BY DEF IsSequence
<1>2. /\ Len(t) = Len(s) + 1 /\ t \in Seq(S)
      /\ \A k \in 1 .. Len(s) : t[k] = s[k]
      /\ t[Len(s) + 1] = x /\ Len(s) \in Nat
  BY <1>1
<1> HIDE DEF t
<1> QED
  BY <1>2, IsSequenceIf DEF t

With(s, i, x) == [s EXCEPT ![i] = x]

LEMMA ExceptSequence ==
  ASSUME NEW s, IsSequence(s), NEW i \in 1 .. Len(s), NEW x
  PROVE  /\ IsSequence(With(s, i, x)) /\ Len(With(s, i, x)) = Len(s)
         /\ \A k \in 1 .. Len(s) : With(s, i, x)[k] = IF k = i THEN x ELSE s[k]
<1> DEFINE S == {s[k] : k \in 1 .. Len(s)} \union {x}
           t == With(s, i, x)
<1>1. s \in Seq(S)
  BY DEF IsSequence
<1>2. /\ Len(t) = Len(s) /\ t \in Seq(S) /\ Len(s) \in Nat
      /\ \A k \in 1 .. Len(s) : t[k] = IF k = i THEN x ELSE s[k]
  BY <1>1 DEF With
<1> HIDE DEF t
<1> QED
  BY <1>2, IsSequenceIf DEF t

LEMMA ShortSequences ==
  IsSequence(<<>>) /\ \A x : IsSequence(<<x>>)
BY DEF IsSequence

LEMMA SequenceFunction ==
  ASSUME NEW S, NEW t \in Seq(S)
  PROVE  t \in [1 .. Len(t) -> S]
OBVIOUS

LEMMA AppendToOne ==
  ASSUME NEW a, NEW b
  PROVE  Append(<<a>>, b) = <<a, b>>
<1> DEFINE S == {a, b}
           t == Append(<<a>>, b)
           u == <<a, b>>
<1>1. <<a>> \in Seq(S) /\ b \in S
  OBVIOUS
<1>2. t \in Seq(S) /\ Len(t) = 2 /\ t[1] = a /\ t[2] = b
  BY <1>1
<1>3. u \in [1 .. 2 -> S] /\ u[1] = a /\ u[2] = b
  OBVIOUS
<1> HIDE DEF t, u, S
<1>4. t \in [1 .. 2 -> S]
  <2>1. t \in [1 .. Len(t) -> S]
    BY <1>2, SequenceFunction
  <2> QED
    BY <1>2, <2>1
<1>5. ASSUME NEW k \in 1 .. 2 PROVE t[k] = u[k]
  BY <1>2, <1>3
<1>6. t = u
  BY <1>3, <1>4, <1>5
<1> QED
  BY <1>6 DEF t, u

LEMMA ConcatenatedToOne ==
  ASSUME NEW a, NEW b
  PROVE  <<a>> \o <<b>> = <<a, b>> /\ <<a>> \o <<>> = <<a>>
<1> DEFINE S == {a, b}
           t == <<a>> \o <<b>>
           u == <<a, b>>
           v == <<a>> \o <<>>
           w == <<a>>
<1>1. <<a>> \in Seq(S) /\ <<b>> \in Seq(S) /\ <<>> \in Seq(S)
  OBVIOUS
<1>2. t \in Seq(S) /\ Len(t) = 2 /\ t[1] = a /\ t[2] = b
  BY <1>1
<1>3. v \in Seq(S) /\ Len(v) = 1 /\ v[1] = a
  BY <1>1
<1>4. /\ u \in [1 .. 2 -> S] /\ u[1] = a /\ u[2] = b
      /\ w \in [1 .. 1 -> S] /\ w[1] = a
  OBVIOUS
<1> HIDE DEF t, u, v, w, S
<1>5. t \in [1 .. Len(t) -> S] /\ v \in [1 .. Len(v) -> S]
  BY <1>2, <1>3, SequenceFunction
<1>6. ASSUME NEW k \in 1 .. 2
      PROVE  t[k] = u[k]
  BY <1>2, <1>4
<1>7. t = u
  BY <1>2, <1>4, <1>5, <1>6
<1>8. v = w
  BY <1>3, <1>4, <1>5
<1> QED
  BY <1>7, <1>8 DEF t, u, v, w

LEMMA ButLast ==
  ASSUME NEW s, IsSequence(s), Len(s) # 0
  PROVE  LET t == SubSeq(s, 1, Len(s) - 1) IN
           IsSequence(t) /\ Len(t) = Len(s) - 1 /\ \A k \in 1 .. Len(t) : t[k] = s[k]
<1> DEFINE S == {s[k] : k \in 1 .. Len(s)}
           t == SubSeq(s, 1, Len(s) - 1)
<1>1. s \in Seq(S) /\ Len(s) \in Nat
  BY DEF IsSequence
<1>2. t \in Seq(S) /\ Len(t) = Len(s) - 1 /\ \A k \in 1 .. Len(t) : t[k] = s[k]
  <2>1. Len(s) - 1 \in Nat /\ t = [k \in 1 .. Len(s) - 1 |-> s[k]]
    BY <1>1
  <2> HIDE DEF t
  <2> QED
    BY <1>1, <2>1
<1> HIDE DEF t
<1> QED
  BY <1>2, IsSequenceIf DEF t

-----------------------------------------------------------------------------
(* Where an object is held.                                                *)

LEMMA HeldMember ==
  ASSUME NEW h, NEW ps, NEW o, NEW x
  PROVE  x \in HeldBy(h, ps, o) <=>
           \E p \in ps : \E k \in DOMAIN h[p].items : x = <<p, k>> /\ h[p].items[k].ref = o
BY DEF HeldBy, Held

LEMMA HeldFinite ==
  ASSUME NEW h, IsHeap(h), NEW ps \in SUBSET (1 .. Len(h)), NEW o
  PROVE  IsFiniteSet(HeldBy(h, ps, o)) /\ Cardinality(HeldBy(h, ps, o)) \in Nat
<1> DEFINE f == [p \in ps |-> {p} \X Held(h, p, o)]
           U == {f[p] : p \in ps}
<1>1. IsFiniteSet(ps)
  <2>1. Len(h) \in Nat
    BY SequenceDomain DEF IsHeap
  <2>2. IsFiniteSet(1 .. Len(h))
    BY <2>1, FS_Interval
  <2> QED
    BY <2>2, FS_Subset
<1>2. f \in Surjection(ps, U)
  BY DEF Surjection
<1>3. IsFiniteSet(U)
  BY <1>1, <1>2, FS_Surjection
<1>4. ASSUME NEW p \in ps
      PROVE  IsFiniteSet(f[p])
  <2> DEFINE len == Len(h[p].items)
  <2>1. len \in Nat /\ Held(h, p, o) \in SUBSET (1 .. len)
    BY SequenceDomain DEF IsHeap, Held
  <2> HIDE DEF len
  <2>2. IsFiniteSet(1 .. len)
    BY <2>1, FS_Interval
  <2>4. IsFiniteSet(Held(h, p, o))
    BY <2>1, <2>2, FS_Subset
  <2>3. IsFiniteSet({p})
    BY FS_Singleton
  <2> QED
    BY <2>4, <2>3, FS_Product
<1>5. HeldBy(h, ps, o) = UNION U
  BY DEF HeldBy
<1>6. IsFiniteSet(UNION U)
  BY <1>3, <1>4, FS_UNION
<1> QED
  BY <1>5, <1>6, FS_CardinalityType

-----------------------------------------------------------------------------
(* What each operation of the heap does to it, object by object.           *)

ObjectFields == {"site", "rc", "lit", "items"}
IsItem(it, len) == DOMAIN it = {"key", "ref", "lit"} /\ it.ref \in 0 .. len

(* What is said of an object that has only its count and its items changed. *)
Changed(old, new, rc, items) ==
  /\ DOMAIN new = ObjectFields /\ new.site = old.site /\ new.lit = old.lit
  /\ new.rc = rc /\ new.items = items

LEMMA NewObjects ==
  ASSUME NEW h, IsHeap(h), NEW site, NEW lit
  PROVE  /\ IsHeap(New(h, site, lit)) /\ Len(New(h, site, lit)) = Len(h) + 1
         /\ \A o \in 1 .. Len(h) : New(h, site, lit)[o] = h[o]
         /\ New(h, site, lit)[Len(h) + 1] = Object(site, lit)
<1> DEFINE g == New(h, site, lit)
<1>1. /\ IsSequence(g) /\ Len(g) = Len(h) + 1
      /\ \A o \in 1 .. Len(h) : g[o] = h[o]
      /\ g[Len(h) + 1] = Object(site, lit) /\ Len(h) \in Nat
  BY AppendSequence, SequenceDomain DEF IsHeap, New
<1> HIDE DEF g
<1>2. ASSUME NEW o \in 1 .. Len(g)
      PROVE  /\ DOMAIN g[o] = ObjectFields
             /\ g[o].rc \in Int /\ IsSequence(g[o].items)
             /\ \A k \in 1 .. Len(g[o].items) : IsItem(g[o].items[k], Len(g))
  <2>1. CASE o \in 1 .. Len(h)
    BY <1>1, <2>1 DEF IsHeap, ObjectFields, IsItem
  <2>2. CASE o = Len(h) + 1
    <3>1. IsSequence(<<>>) /\ Len(<<>>) = 0
      BY ShortSequences
    <3> QED
      BY <1>1, <2>2, <3>1 DEF Object, ObjectFields
  <2> QED
    BY <1>1, <2>1, <2>2
<1>3. IsHeap(g)
  BY <1>1, <1>2 DEF IsHeap, ObjectFields, IsItem
<1> QED
  BY <1>1, <1>3 DEF g

(* One object becomes x.                                                   *)
LEMMA ChangeObject ==
  ASSUME NEW h, IsHeap(h), NEW r \in 1 .. Len(h), NEW x, NEW rc \in Int, NEW items,
         IsSequence(items), \A k \in 1 .. Len(items) : IsItem(items[k], Len(h)),
         Changed(h[r], x, rc, items)
  PROVE  LET g == With(h, r, x)
         IN  /\ IsHeap(g) /\ Len(g) = Len(h)
             /\ \A o \in 1 .. Len(h) :
                  Changed(h[o], g[o], IF o = r THEN rc ELSE h[o].rc,
                                      IF o = r THEN items ELSE h[o].items)
<1> DEFINE g == With(h, r, x)
<1>0. IsSequence(h)
  BY DEF IsHeap
<1>1. IsSequence(g) /\ Len(g) = Len(h) /\ \A o \in 1 .. Len(h) : g[o] = IF o = r THEN x ELSE h[o]
  BY <1>0, ExceptSequence
<1> HIDE DEF g
<1>2. \A o \in 1 .. Len(h) :
        Changed(h[o], g[o], IF o = r THEN rc ELSE h[o].rc, IF o = r THEN items ELSE h[o].items)
  BY <1>1 DEF Changed, IsHeap, ObjectFields
<1>3. IsHeap(g)
  BY <1>1, <1>2 DEF IsHeap, Changed, ObjectFields, IsItem
<1> QED
  BY <1>1, <1>2, <1>3 DEF g

LEMMA ReleaseObjects ==
  ASSUME NEW h, IsHeap(h), NEW r \in 1 .. Len(h)
  PROVE  /\ IsHeap(CFRelease(h, r)) /\ Len(CFRelease(h, r)) = Len(h)
         /\ \A o \in 1 .. Len(h) :
              Changed(h[o], CFRelease(h, r)[o], h[o].rc - (IF o = r THEN 1 ELSE 0), h[o].items)
<1> DEFINE x == [h[r] EXCEPT !.rc = @ - 1]
<1>1. Changed(h[r], x, h[r].rc - 1, h[r].items)
  BY DEF IsHeap, Changed, ObjectFields
<1>2. CFRelease(h, r) = With(h, r, x)
  BY DEF CFRelease, With
<1> HIDE DEF x
<1>3. /\ \A o \in 1 .. Len(h) : h[o].rc \in Int
      /\ IsSequence(h[r].items) /\ \A k \in 1 .. Len(h[r].items) : IsItem(h[r].items[k], Len(h))
  BY DEF IsHeap, IsItem
<1>4. h[r].rc - 1 \in Int
  BY <1>3
<1>5. LET g == With(h, r, x)
      IN  /\ IsHeap(g) /\ Len(g) = Len(h)
          /\ \A o \in 1 .. Len(h) :
               Changed(h[o], g[o], IF o = r THEN h[r].rc - 1 ELSE h[o].rc,
                                   IF o = r THEN h[r].items ELSE h[o].items)
  BY <1>1, <1>3, <1>4, ChangeObject
<1> QED
  BY <1>2, <1>3, <1>5 DEF Changed

LEMMA RetainObjects ==
  ASSUME NEW h, IsHeap(h), NEW r \in 0 .. Len(h), r # 0 => h[r].rc > 0
  PROVE  /\ IsHeap(CFRetain(h, r)) /\ Len(CFRetain(h, r)) = Len(h)
         /\ \A o \in 1 .. Len(h) :
              Changed(h[o], CFRetain(h, r)[o], h[o].rc + (IF o = r THEN 1 ELSE 0), h[o].items)
<1>0. \A o \in 1 .. Len(h) : DOMAIN h[o] = ObjectFields /\ h[o].rc \in Int
  BY DEF IsHeap, ObjectFields
<1>1. CASE r = 0
  <2>1. CFRetain(h, r) = h
    BY <1>1 DEF CFRetain
  <2> QED
    BY <1>0, <1>1, <2>1 DEF Changed
<1>2. CASE r # 0
  <2> DEFINE x == [h[r] EXCEPT !.rc = @ + 1]
  <2>0. r \in 1 .. Len(h)
    BY <1>2
  <2>1. Changed(h[r], x, h[r].rc + 1, h[r].items)
    BY <1>0, <2>0 DEF Changed, ObjectFields
  <2>2. CFRetain(h, r) = With(h, r, x)
    BY <1>0, <1>2, <2>0 DEF CFRetain, With
  <2> HIDE DEF x
  <2>3. IsSequence(h[r].items) /\ \A k \in 1 .. Len(h[r].items) : IsItem(h[r].items[k], Len(h))
    BY <2>0 DEF IsHeap, IsItem
  <2>4. h[r].rc + 1 \in Int
    BY <1>0, <2>0
  <2>5. LET g == With(h, r, x)
        IN  /\ IsHeap(g) /\ Len(g) = Len(h)
            /\ \A o \in 1 .. Len(h) :
                 Changed(h[o], g[o], IF o = r THEN h[r].rc + 1 ELSE h[o].rc,
                                     IF o = r THEN h[r].items ELSE h[o].items)
    BY <2>0, <2>1, <2>3, <2>4, ChangeObject
  <2> QED
    BY <1>0, <2>2, <2>5 DEF Changed
<1> QED
  BY <1>1, <1>2

(* The items of a container become others.                                 *)
WithItems(h, a, items) == [h EXCEPT ![a].items = items]

LEMMA ItemsObjects ==
  ASSUME NEW h, IsHeap(h), NEW a \in 1 .. Len(h), NEW items,
         IsSequence(items), \A k \in 1 .. Len(items) : IsItem(items[k], Len(h))
  PROVE  LET g == WithItems(h, a, items)
         IN  /\ IsHeap(g) /\ Len(g) = Len(h)
             /\ \A o \in 1 .. Len(h) :
                  Changed(h[o], g[o], h[o].rc, IF o = a THEN items ELSE h[o].items)
<1> DEFINE x == [h[a] EXCEPT !.items = items]
<1>1. Changed(h[a], x, h[a].rc, items)
  BY DEF IsHeap, Changed, ObjectFields
<1>2. WithItems(h, a, items) = With(h, a, x)
  BY DEF WithItems, With
<1> HIDE DEF x
<1>3. \A o \in 1 .. Len(h) : h[o].rc \in Int
  BY DEF IsHeap
<1>4. LET g == With(h, a, x)
      IN  /\ IsHeap(g) /\ Len(g) = Len(h)
          /\ \A o \in 1 .. Len(h) :
               Changed(h[o], g[o], IF o = a THEN h[a].rc ELSE h[o].rc,
                                   IF o = a THEN items ELSE h[o].items)
  BY <1>1, <1>3, ChangeObject
<1> QED
  BY <1>2, <1>3, <1>4 DEF Changed

LEMMA AddObjects ==
  ASSUME NEW h, IsHeap(h), NEW a \in 1 .. Len(h), NEW it, IsItem(it, Len(h)),
         it.ref # 0 => h[it.ref].rc > 0
  PROVE  /\ IsHeap(Add(h, a, it)) /\ Len(Add(h, a, it)) = Len(h)
         /\ \A o \in 1 .. Len(h) :
              Changed(h[o], Add(h, a, it)[o], h[o].rc + (IF o = it.ref THEN 1 ELSE 0),
                      IF o = a THEN Append(h[a].items, it) ELSE h[o].items)
<1> DEFINE f == CFRetain(h, it.ref)
           items == Append(h[a].items, it)
<1>1. /\ IsHeap(f) /\ Len(f) = Len(h)
      /\ \A o \in 1 .. Len(h) :
           Changed(h[o], f[o], h[o].rc + (IF o = it.ref THEN 1 ELSE 0), h[o].items)
  BY RetainObjects DEF IsItem
<1>2. Add(h, a, it) = WithItems(f, a, items)
  BY <1>1 DEF Add, WithItems, Changed
<1>3. IsSequence(h[a].items) /\ \A k \in 1 .. Len(h[a].items) : IsItem(h[a].items[k], Len(h))
  BY DEF IsHeap, IsItem
<1>4. IsSequence(items) /\ \A k \in 1 .. Len(items) : IsItem(items[k], Len(h))
  <2>1. Len(h[a].items) \in Nat
    BY <1>3, SequenceDomain
  <2>2. /\ IsSequence(items) /\ Len(items) = Len(h[a].items) + 1
        /\ \A k \in 1 .. Len(h[a].items) : items[k] = h[a].items[k]
        /\ items[Len(h[a].items) + 1] = it
    BY <1>3, AppendSequence
  <2> HIDE DEF items
  <2> QED
    BY <1>3, <2>1, <2>2
<1> HIDE DEF f, items
<1>5. LET g == WithItems(f, a, items)
      IN  /\ IsHeap(g) /\ Len(g) = Len(f)
          /\ \A o \in 1 .. Len(f) :
               Changed(f[o], g[o], f[o].rc, IF o = a THEN items ELSE f[o].items)
  BY <1>1, <1>4, ItemsObjects
<1> QED
  BY <1>1, <1>2, <1>5 DEF Changed, items

LEMMA ReplaceObjects ==
  ASSUME NEW h, IsHeap(h), NEW d \in 1 .. Len(h), NEW k \in 1 .. Len(h[d].items),
         NEW it, IsItem(it, Len(h)), it.ref # 0 => h[it.ref].rc > 0
  PROVE  /\ IsHeap(Replace(h, d, k, it)) /\ Len(Replace(h, d, k, it)) = Len(h)
         /\ \A o \in 1 .. Len(h) :
              Changed(h[o], Replace(h, d, k, it)[o],
                      h[o].rc + (IF o = it.ref THEN 1 ELSE 0)
                              - (IF o = h[d].items[k].ref THEN 1 ELSE 0),
                      IF o = d THEN With(h[d].items, k, it) ELSE h[o].items)
<1> DEFINE f == CFRetain(h, it.ref)
           items == With(h[d].items, k, it)
           g == WithItems(f, d, items)
           old == h[d].items[k].ref
<1>1. /\ IsHeap(f) /\ Len(f) = Len(h)
      /\ \A o \in 1 .. Len(h) :
           Changed(h[o], f[o], h[o].rc + (IF o = it.ref THEN 1 ELSE 0), h[o].items)
  BY RetainObjects DEF IsItem
<1>2. Replace(h, d, k, it) = IF old = 0 THEN g ELSE CFRelease(g, old)
  <2>1. [f EXCEPT ![d].items[k] = it] = g
    BY <1>1 DEF WithItems, With, Changed
  <2> QED
    BY <2>1 DEF Replace
<1>3. /\ IsSequence(h[d].items)
      /\ \A l \in 1 .. Len(h[d].items) : IsItem(h[d].items[l], Len(h))
      /\ old \in 0 .. Len(h)
  BY DEF IsHeap, IsItem
<1>4. IsSequence(items) /\ \A l \in 1 .. Len(items) : IsItem(items[l], Len(h))
  BY <1>3, ExceptSequence
<1> HIDE DEF f, items
<1>5. /\ IsHeap(g) /\ Len(g) = Len(f)
      /\ \A o \in 1 .. Len(f) :
           Changed(f[o], g[o], f[o].rc, IF o = d THEN items ELSE f[o].items)
  BY <1>1, <1>4, ItemsObjects
<1> HIDE DEF g, old
<1>6. \A o \in 1 .. Len(h) :
        /\ h[o].rc \in Int
        /\ Changed(h[o], g[o], h[o].rc + (IF o = it.ref THEN 1 ELSE 0),
                   IF o = d THEN items ELSE h[o].items)
  BY <1>1, <1>5 DEF Changed, IsHeap
<1>7. CASE old = 0
  BY <1>1, <1>2, <1>5, <1>6, <1>7 DEF items, old, Changed
<1>8. CASE old # 0
  <2>1. old \in 1 .. Len(g)
    BY <1>1, <1>3, <1>5, <1>8
  <2>2. /\ IsHeap(CFRelease(g, old)) /\ Len(CFRelease(g, old)) = Len(g)
        /\ \A o \in 1 .. Len(g) :
             Changed(g[o], CFRelease(g, old)[o], g[o].rc - (IF o = old THEN 1 ELSE 0), g[o].items)
    BY <1>5, <2>1, ReleaseObjects
  <2>3. Replace(h, d, k, it) = CFRelease(g, old)
    BY <1>2, <1>8
  <2>4. \A o \in 1 .. Len(h) :
          Changed(h[o], CFRelease(g, old)[o],
                  h[o].rc + (IF o = it.ref THEN 1 ELSE 0) - (IF o = old THEN 1 ELSE 0),
                  IF o = d THEN items ELSE h[o].items)
    BY <1>1, <1>5, <1>6, <2>2 DEF Changed
  <2>5. Len(CFRelease(g, old)) = Len(h)
    BY <1>1, <1>5, <2>2
  <2> QED
    BY <2>2, <2>3, <2>4, <2>5 DEF items, old
<1> QED
  BY <1>7, <1>8

-----------------------------------------------------------------------------
(* How often an object is held.                                            *)

LEMMA RefsFinite ==
  ASSUME NEW h, IsHeap(h), NEW o
  PROVE  IsFiniteSet(Refs(h, o)) /\ Cardinality(Refs(h, o)) \in Nat
BY HeldFinite DEF Refs

LEMMA RefsMember ==
  ASSUME NEW h, NEW o, NEW x
  PROVE  x \in Refs(h, o) <=>
           \E p \in 1 .. Len(h) : \E k \in DOMAIN h[p].items : x = <<p, k>> /\ h[p].items[k].ref = o
BY HeldMember DEF Refs

LEMMA SameRefs ==
  ASSUME NEW h, NEW g, Len(g) = Len(h), \A p \in 1 .. Len(h) : g[p].items = h[p].items, NEW o
  PROVE  Refs(g, o) = Refs(h, o)
BY DEF Refs, HeldBy, Held

LEMMA AddRefs ==
  ASSUME NEW h, IsHeap(h), NEW g, Len(g) = Len(h), NEW a \in 1 .. Len(h), NEW it,
         \A p \in 1 .. Len(h) :
           g[p].items = IF p = a THEN Append(h[a].items, it) ELSE h[p].items,
         NEW o
  PROVE  Cardinality(Refs(g, o)) = Cardinality(Refs(h, o)) + (IF it.ref = o THEN 1 ELSE 0)
<1> DEFINE items == Append(h[a].items, it)
           x == <<a, Len(h[a].items) + 1>>
<1>1. /\ Len(h[a].items) \in Nat /\ DOMAIN h[a].items = 1 .. Len(h[a].items)
      /\ DOMAIN items = 1 .. Len(h[a].items) + 1
      /\ \A k \in 1 .. Len(h[a].items) : items[k] = h[a].items[k]
      /\ items[Len(h[a].items) + 1] = it
  BY AppendSequence, SequenceDomain DEF IsHeap
<1>2. \A p \in 1 .. Len(h) : g[p].items = IF p = a THEN items ELSE h[p].items
  OBVIOUS
<1> HIDE DEF items
<1>3. x \notin Refs(h, o)
  BY <1>1, RefsMember
<1>4. Refs(g, o) = IF it.ref = o THEN Refs(h, o) \union {x} ELSE Refs(h, o)
  <2>1. ASSUME NEW y
        PROVE  y \in Refs(g, o) <=> y \in Refs(h, o) \/ (it.ref = o /\ y = x)
    <3>1. y \in Refs(g, o) <=>
            \E p \in 1 .. Len(h) : \E k \in DOMAIN g[p].items : y = <<p, k>> /\ g[p].items[k].ref = o
      BY RefsMember
    <3>2. y \in Refs(h, o) <=>
            \E p \in 1 .. Len(h) : \E k \in DOMAIN h[p].items : y = <<p, k>> /\ h[p].items[k].ref = o
      BY RefsMember
    <3>3. ASSUME y \in Refs(g, o)
          PROVE  y \in Refs(h, o) \/ (it.ref = o /\ y = x)
      <4>0. PICK p \in 1 .. Len(h) :
              \E k \in DOMAIN g[p].items : y = <<p, k>> /\ g[p].items[k].ref = o
        BY <3>1, <3>3
      <4>1. PICK k \in DOMAIN g[p].items : y = <<p, k>> /\ g[p].items[k].ref = o
        BY <4>0
      <4>2. CASE p = a /\ k = Len(h[a].items) + 1
        BY <1>1, <1>2, <4>1, <4>2
      <4>3. CASE p = a /\ k \in 1 .. Len(h[a].items)
        BY <1>1, <1>2, <3>2, <4>1, <4>3
      <4>4. CASE p # a
        BY <1>2, <3>2, <4>1, <4>4
      <4> QED
        BY <1>1, <1>2, <4>1, <4>2, <4>3, <4>4
    <3>4. ASSUME y \in Refs(h, o)
          PROVE  y \in Refs(g, o)
      <4>0. PICK p \in 1 .. Len(h) :
              \E k \in DOMAIN h[p].items : y = <<p, k>> /\ h[p].items[k].ref = o
        BY <3>2, <3>4
      <4>1. PICK k \in DOMAIN h[p].items : y = <<p, k>> /\ h[p].items[k].ref = o
        BY <4>0
      <4> QED
        BY <1>1, <1>2, <3>1, <4>1
    <3>5. ASSUME it.ref = o, y = x
          PROVE  y \in Refs(g, o)
      BY <1>1, <1>2, <3>1, <3>5
    <3> QED
      BY <3>3, <3>4, <3>5
  <2> QED
    BY <2>1
<1>5. IsFiniteSet(Refs(h, o)) /\ Cardinality(Refs(h, o)) \in Nat
  BY RefsFinite
<1> HIDE DEF x
<1>6. Cardinality(Refs(h, o) \union {x}) = Cardinality(Refs(h, o)) + 1
  BY <1>3, <1>5, FS_AddElement
<1> QED
  BY <1>4, <1>5, <1>6

(* The heaps differ in the items of d, in which the one at k is now it.     *)
ItemReplaced(h, g, d, k, it) ==
  /\ Len(g) = Len(h)
  /\ \A p \in 1 .. Len(h) :
       g[p].items = IF p = d THEN With(h[d].items, k, it) ELSE h[p].items

LEMMA ReplaceRefs ==
  ASSUME NEW h, IsHeap(h), NEW g, NEW d \in 1 .. Len(h),
         NEW k \in 1 .. Len(h[d].items), NEW it, ItemReplaced(h, g, d, k, it), NEW o
  PROVE  Cardinality(Refs(g, o)) =
           Cardinality(Refs(h, o)) + (IF it.ref = o THEN 1 ELSE 0)
                                   - (IF h[d].items[k].ref = o THEN 1 ELSE 0)
<1> DEFINE items == With(h[d].items, k, it)
           x == <<d, k>>
           R == Refs(h, o) \ {x}
<1>1. /\ DOMAIN h[d].items = 1 .. Len(h[d].items) /\ DOMAIN items = 1 .. Len(h[d].items)
      /\ \A l \in 1 .. Len(h[d].items) : items[l] = IF l = k THEN it ELSE h[d].items[l]
  BY ExceptSequence, SequenceDomain DEF IsHeap
<1>2. /\ Len(g) = Len(h)
      /\ \A p \in 1 .. Len(h) : g[p].items = IF p = d THEN items ELSE h[p].items
  BY DEF ItemReplaced
<1> HIDE DEF items
<1>3. \A y : y \in Refs(g, o) <=>
        \E p \in 1 .. Len(h) : \E l \in DOMAIN g[p].items : y = <<p, l>> /\ g[p].items[l].ref = o
  BY <1>2, RefsMember
<1>4. \A y : y \in Refs(h, o) <=>
        \E p \in 1 .. Len(h) : \E l \in DOMAIN h[p].items : y = <<p, l>> /\ h[p].items[l].ref = o
  BY RefsMember
<1>5. x \in Refs(h, o) <=> h[d].items[k].ref = o
  BY <1>1, <1>4
<1>6. x \in Refs(g, o) <=> it.ref = o
  BY <1>1, <1>2, <1>3
<1>7. ASSUME NEW y, y # x
      PROVE  y \in Refs(g, o) <=> y \in Refs(h, o)
  <2>1. ASSUME NEW p \in 1 .. Len(h), NEW l, y = <<p, l>>
        PROVE  l \in DOMAIN g[p].items /\ g[p].items[l].ref = o
                 <=> l \in DOMAIN h[p].items /\ h[p].items[l].ref = o
    <3>1. p # d \/ l # k
      BY <1>7, <2>1
    <3> QED
      BY <1>1, <1>2, <3>1
  <2>2. ASSUME y \in Refs(g, o)
        PROVE  y \in Refs(h, o)
    BY <1>3, <1>4, <2>1, <2>2
  <2>3. ASSUME y \in Refs(h, o)
        PROVE  y \in Refs(g, o)
    BY <1>3, <1>4, <2>1, <2>3
  <2> QED
    BY <2>2, <2>3
<1>8. IsFiniteSet(Refs(h, o)) /\ Cardinality(Refs(h, o)) \in Nat
  BY RefsFinite
<1>9. Refs(g, o) = IF it.ref = o THEN R \union {x} ELSE R
  BY <1>6, <1>7
<1> HIDE DEF x
<1>10. /\ IsFiniteSet(R)
       /\ Cardinality(R) = Cardinality(Refs(h, o)) - (IF h[d].items[k].ref = o THEN 1 ELSE 0)
  <2>1. /\ IsFiniteSet(R)
        /\ Cardinality(R) =
             IF x \in Refs(h, o) THEN Cardinality(Refs(h, o)) - 1 ELSE Cardinality(Refs(h, o))
    BY <1>8, FS_RemoveElement
  <2> QED
    BY <1>5, <1>8, <2>1
<1>11. x \notin R
  OBVIOUS
<1> HIDE DEF R
<1>12. Cardinality(R \union {x}) = Cardinality(R) + 1
  BY <1>10, <1>11, FS_AddElement
<1> QED
  BY <1>8, <1>9, <1>10, <1>12

-----------------------------------------------------------------------------
(* The heap while one function works on it: what it and the others own is  *)
(* S, and nothing has become of the objects that were there before but     *)
(* that they hold other objects, those of the record's list excepted.      *)

Protected ==
  IF plist = 0 THEN {}
  ELSE {plist} \union Nonzero({heap[plist].items[k].ref : k \in 1 .. Len(heap[plist].items)})

Preserved(h) ==
  /\ Len(heap) \in 0 .. Len(h) /\ Protected \subseteq 1 .. Len(heap)
  /\ \A o \in 1 .. Len(heap) :
       /\ h[o].site = heap[o].site /\ h[o].lit = heap[o].lit
       /\ o \in Protected => h[o].items = heap[o].items

Clean == KnownLeaks = {}

GoodHeap(h, S) ==
  /\ IsHeap(h) /\ Balanced(h, S, KnownLeaks) /\ (Clean => Layered(h)) /\ Preserved(h)

SitesKept(h, g) == \A o \in 1 .. Len(h) : g[o].site = h[o].site
SameKinds(h, g) == Len(g) = Len(h) /\ \A o \in 1 .. Len(h) : g[o].site = h[o].site

(* The container d may hold the object r. *)
Below(h, d, r) == Clean /\ r # 0 => Level[h[r].site] > Level[h[d].site]

LEMMA SpareInt ==
  ASSUME NEW h, IsHeap(h), NEW S, NEW o \in 1 .. Len(h)
  PROVE  Spare(h, S, o) \in Int
<1>1. h[o].rc \in Int /\ Cardinality(Refs(h, o)) \in Nat
  BY RefsFinite DEF IsHeap
<1> QED
  BY <1>1 DEF Spare

LEMMA BalanceKept ==
  ASSUME NEW h, NEW g, Len(h) \in Nat, Len(g) \in Nat, Len(h) <= Len(g), NEW S, NEW T, NEW L,
         Balanced(h, S, L), T \subseteq 1 .. Len(g),
         \A o \in 1 .. Len(h) : g[o].site = h[o].site /\ Spare(g, T, o) = Spare(h, S, o),
         \A o \in 1 .. Len(g) : o > Len(h) => Spare(g, T, o) = 0
  PROVE  Balanced(g, T, L)
BY DEF Balanced

LEMMA OwnedCount ==
  ASSUME NEW h, IsHeap(h), NEW S, NEW L, Balanced(h, S, L), NEW o \in S
  PROVE  o \in 1 .. Len(h) /\ h[o].rc > 0
<1>1. o \in 1 .. Len(h) /\ Spare(h, S, o) >= 0
  BY DEF Balanced
<1>2. h[o].rc \in Int /\ Cardinality(Refs(h, o)) \in Nat
  BY <1>1, RefsFinite DEF IsHeap
<1> QED
  BY <1>1, <1>2 DEF Spare

LEMMA FitsLength ==
  ASSUME NEW h, NEW S, GoodHeap(h, S)
  PROVE  /\ Len(h) \in Nat /\ Len(heap) \in Nat /\ Len(heap) <= Len(h)
         /\ S \subseteq 1 .. Len(h) /\ Protected \subseteq 1 .. Len(heap)
<1>1. Len(h) \in Nat
  BY SequenceDomain DEF GoodHeap, IsHeap
<1> QED
  BY <1>1 DEF GoodHeap, Preserved, Balanced

LEMMA FitsKept ==
  ASSUME NEW h, NEW S, GoodHeap(h, S), NEW g, IsHeap(g), SameKinds(h, g),
         NEW T \in SUBSET (1 .. Len(h)),
         \A o \in 1 .. Len(h) :
           /\ g[o].lit = h[o].lit /\ Spare(g, T, o) = Spare(h, S, o)
           /\ o \in Protected => g[o].items = h[o].items,
         Clean => Layered(g)
  PROVE  GoodHeap(g, T)
<1>1. Len(h) \in Nat /\ Len(g) = Len(h)
  BY FitsLength DEF SameKinds
<1>2. Balanced(g, T, KnownLeaks)
  BY <1>1 DEF GoodHeap, Balanced, SameKinds
<1>3. Preserved(g)
  BY <1>1 DEF GoodHeap, Preserved, SameKinds
<1> QED
  BY <1>2, <1>3 DEF GoodHeap

LEMMA NewFits ==
  ASSUME NEW h, NEW S, GoodHeap(h, S), NEW site, NEW lit, Clean => site \in DOMAIN Level
  PROVE  LET g == New(h, site, lit) IN
           /\ GoodHeap(g, S \union {Len(h) + 1})
           /\ Len(g) = Len(h) + 1 /\ g[Len(h) + 1].site = site
           /\ SitesKept(h, g)
<1> DEFINE g == New(h, site, lit)
           T == S \union {Len(h) + 1}
<1>1. IsHeap(h) /\ Len(h) \in Nat /\ Len(heap) \in Nat /\ Len(heap) <= Len(h) /\ S \subseteq 1 .. Len(h)
  BY FitsLength DEF GoodHeap
<1>2. /\ IsHeap(g) /\ Len(g) = Len(h) + 1
      /\ \A o \in 1 .. Len(h) : g[o] = h[o]
      /\ g[Len(h) + 1] = Object(site, lit)
  BY <1>1, NewObjects
<1> HIDE DEF g
<1>3. /\ g[Len(h) + 1].site = site /\ g[Len(h) + 1].rc = 1 /\ g[Len(h) + 1].items = <<>>
      /\ DOMAIN g[Len(h) + 1].items = {}
  BY <1>2 DEF Object
<1>4. \A p \in 1 .. Len(h) :
        /\ DOMAIN h[p].items = 1 .. Len(h[p].items)
        /\ \A k \in DOMAIN h[p].items : h[p].items[k].ref \in 0 .. Len(h)
  BY <1>1, SequenceDomain DEF IsHeap
<1>5. ASSUME NEW o
      PROVE  Refs(g, o) = Refs(h, o)
  <2>1. ASSUME NEW x
        PROVE  x \in Refs(g, o) <=> x \in Refs(h, o)
    BY <1>1, <1>2, <1>3, RefsMember
  <2> QED
    BY <2>1
<1>6. Refs(g, Len(h) + 1) = {}
  <2>1. \A x : x \notin Refs(h, Len(h) + 1)
    BY <1>1, <1>4, RefsMember
  <2> QED
    BY <1>5, <2>1
<1>7. Balanced(g, T, KnownLeaks)
  <2>1. \A o \in 1 .. Len(h) : g[o].site = h[o].site /\ Spare(g, T, o) = Spare(h, S, o)
    BY <1>1, <1>2, <1>5 DEF Spare
  <2>2. Spare(g, T, Len(h) + 1) = 0
    <3>1. Cardinality(Refs(g, Len(h) + 1)) = 0
      BY <1>6, FS_EmptySet
    <3>2. Len(h) + 1 \in T
      OBVIOUS
    <3> QED
      BY <1>3, <3>1, <3>2 DEF Spare
  <2>3. \A o \in 1 .. Len(g) : o > Len(h) => Spare(g, T, o) = 0
    BY <1>1, <1>2, <2>2
  <2>4. T \subseteq 1 .. Len(g)
    <3>1. 1 .. Len(g) = 1 .. Len(h) \union {Len(h) + 1}
      BY <1>1, <1>2
    <3> QED
      BY <1>1, <3>1
  <2>5. Balanced(h, S, KnownLeaks)
    BY DEF GoodHeap
  <2>6. Len(h) \in Nat /\ Len(g) \in Nat /\ Len(h) <= Len(g)
    BY <1>1, <1>2
  <2> HIDE DEF T
  <2> QED
    BY <2>1, <2>3, <2>4, <2>5, <2>6, BalanceKept
<1>8. ASSUME Clean
      PROVE  Layered(g)
  BY <1>1, <1>2, <1>3, <1>4, <1>8, SMTT(30) DEF Layered, GoodHeap
<1>9. Preserved(g)
  BY <1>1, <1>2 DEF GoodHeap, Preserved
<1> QED
  BY <1>2, <1>3, <1>7, <1>8, <1>9 DEF GoodHeap, SitesKept, g

LEMMA ReleaseFits ==
  ASSUME NEW h, NEW S, GoodHeap(h, S), NEW r \in S
  PROVE  GoodHeap(CFRelease(h, r), S \ {r}) /\ SameKinds(h, CFRelease(h, r))
<1> DEFINE g == CFRelease(h, r)
<1>1. IsHeap(h) /\ Len(h) \in Nat /\ S \subseteq 1 .. Len(h)
  BY FitsLength DEF GoodHeap
<1>2. /\ IsHeap(g) /\ Len(g) = Len(h)
      /\ \A o \in 1 .. Len(h) :
           Changed(h[o], g[o], h[o].rc - (IF o = r THEN 1 ELSE 0), h[o].items)
  BY <1>1, ReleaseObjects
<1> HIDE DEF g
<1>3. \A o : Refs(g, o) = Refs(h, o)
  BY <1>2, SameRefs DEF Changed
<1>4. \A o \in 1 .. Len(h) : h[o].rc \in Int /\ Cardinality(Refs(h, o)) \in Nat
  BY <1>1, RefsFinite DEF IsHeap
<1>5. \A o \in 1 .. Len(h) : Spare(g, S \ {r}, o) = Spare(h, S, o)
  BY <1>2, <1>3, <1>4 DEF Spare, Changed
<1>6. Clean => Layered(g)
  <2>1. \A o \in 1 .. Len(h) : \A k \in DOMAIN h[o].items : h[o].items[k].ref \in 0 .. Len(h)
    BY <1>1, SequenceDomain DEF IsHeap
  <2> QED
    BY <1>2, <2>1, SMTT(30) DEF GoodHeap, Layered, Changed
<1>7. SameKinds(h, g)
  BY <1>2 DEF SameKinds, Changed
<1> DEFINE T == S \ {r}
<1>8. \A o \in 1 .. Len(h) :
        /\ g[o].lit = h[o].lit /\ Spare(g, T, o) = Spare(h, S, o)
        /\ o \in Protected => g[o].items = h[o].items
  BY <1>2, <1>5 DEF Changed
<1>9. T \in SUBSET (1 .. Len(h)) /\ IsHeap(g)
  BY <1>1, <1>2
<1> HIDE DEF T
<1>10. GoodHeap(g, T)
  BY <1>6, <1>7, <1>8, <1>9, FitsKept
<1> QED
  BY <1>7, <1>10 DEF g, T

LEMMA DropBalanced ==
  ASSUME NEW h, IsHeap(h), NEW S, NEW L, Balanced(h, S, L), NEW T \in SUBSET S, NEW M,
         L \subseteq M, \A o \in S \ T : h[o].site \in M
  PROVE  Balanced(h, T, M)
<1>1. S \subseteq 1 .. Len(h)
  BY DEF Balanced
<1>2. \A o \in 1 .. Len(h) : h[o].rc \in Int /\ Cardinality(Refs(h, o)) \in Nat
  BY RefsFinite DEF IsHeap
<1>3. ASSUME NEW o \in 1 .. Len(h)
      PROVE  Spare(h, T, o) >= 0 /\ (h[o].site \notin M => Spare(h, T, o) = 0)
  <2>1. Spare(h, S, o) >= 0 /\ (h[o].site \notin M => Spare(h, S, o) = 0)
    BY DEF Balanced
  <2>2. CASE o \in S \ T
    <3>1. Spare(h, T, o) = Spare(h, S, o) + 1 /\ Spare(h, S, o) \in Int
      BY <1>2, <2>2 DEF Spare
    <3>2. h[o].site \in M
      BY <2>2
    <3> QED
      BY <2>1, <3>1, <3>2
  <2>3. CASE o \notin S \ T
    BY <1>2, <2>1, <2>3 DEF Spare
  <2> QED
    BY <2>2, <2>3
<1> QED
  BY <1>1, <1>3 DEF Balanced

LEMMA DropFits ==
  ASSUME NEW h, NEW S, GoodHeap(h, S), NEW T \in SUBSET S,
         \A o \in S \ T : h[o].site \in KnownLeaks
  PROVE  GoodHeap(h, T)
BY DropBalanced DEF GoodHeap

LEMMA AddFits ==
  ASSUME NEW h, NEW S, GoodHeap(h, S), NEW d \in (1 .. Len(h)) \ Protected,
         NEW it, IsItem(it, Len(h)), it.ref \in S \union {0}, Below(h, d, it.ref)
  PROVE  GoodHeap(Add(h, d, it), S) /\ SameKinds(h, Add(h, d, it))
<1> DEFINE g == Add(h, d, it)
<1>1. IsHeap(h) /\ Len(h) \in Nat /\ S \in SUBSET (1 .. Len(h))
  BY FitsLength DEF GoodHeap
<1>2. it.ref # 0 => h[it.ref].rc > 0
  BY <1>1, OwnedCount DEF GoodHeap
<1>3. /\ IsHeap(g) /\ Len(g) = Len(h)
      /\ \A o \in 1 .. Len(h) :
           Changed(h[o], g[o], h[o].rc + (IF o = it.ref THEN 1 ELSE 0),
                   IF o = d THEN Append(h[d].items, it) ELSE h[o].items)
  BY <1>1, <1>2, AddObjects
<1> HIDE DEF g
<1>4. \A o \in 1 .. Len(h) : g[o].items = IF o = d THEN Append(h[d].items, it) ELSE h[o].items
  BY <1>3 DEF Changed
<1>5. ASSUME NEW o
      PROVE  Cardinality(Refs(g, o)) = Cardinality(Refs(h, o)) + (IF it.ref = o THEN 1 ELSE 0)
  <2>1. IsHeap(h) /\ Len(g) = Len(h) /\ d \in 1 .. Len(h)
    BY <1>1, <1>3
  <2> QED
    BY <1>4, <2>1, AddRefs
<1>6. \A o \in 1 .. Len(h) : h[o].rc \in Int /\ Cardinality(Refs(h, o)) \in Nat
  BY <1>1, RefsFinite DEF IsHeap
<1>7. \A o \in 1 .. Len(h) : Spare(g, S, o) = Spare(h, S, o)
  BY <1>3, <1>5, <1>6, SMTT(30) DEF Spare, Changed
<1>8. SameKinds(h, g)
  BY <1>3 DEF SameKinds, Changed
<1>9. ASSUME Clean
      PROVE  Layered(g)
  <2>1. /\ Len(h[d].items) \in Nat /\ DOMAIN h[d].items = 1 .. Len(h[d].items)
        /\ DOMAIN g[d].items = 1 .. Len(h[d].items) + 1
        /\ \A k \in 1 .. Len(h[d].items) : g[d].items[k] = h[d].items[k]
        /\ g[d].items[Len(h[d].items) + 1] = it
    <3>1. IsSequence(h[d].items) /\ g[d].items = Append(h[d].items, it)
      BY <1>1, <1>4 DEF IsHeap
    <3> QED
      BY <3>1, AppendSequence, SequenceDomain
  <2>2. \A o \in 1 .. Len(h) : \A k \in DOMAIN h[o].items : h[o].items[k].ref \in 0 .. Len(h)
    BY <1>1, SequenceDomain DEF IsHeap
  <2>3. Layered(h)
    BY <1>9 DEF GoodHeap
  <2>4. it.ref # 0 => Level[h[it.ref].site] > Level[h[d].site]
    BY <1>9 DEF Below
  <2>5. ASSUME NEW o \in 1 .. Len(g), NEW k \in DOMAIN g[o].items, g[o].items[k].ref # 0
        PROVE  Level[g[g[o].items[k].ref].site] > Level[g[o].site]
    <3>1. CASE o = d /\ k = Len(h[d].items) + 1
      <4>1. it.ref \in 1 .. Len(h)
        BY <2>1, <2>5, <3>1 DEF IsItem
      <4> QED
        BY <1>8, <2>1, <2>4, <2>5, <3>1, <4>1 DEF SameKinds
    <3>2. CASE ~(o = d /\ k = Len(h[d].items) + 1)
      <4>1. CASE o = d
        <5>1. k \in 1 .. Len(h[d].items) + 1 /\ k # Len(h[d].items) + 1
          BY <2>1, <2>5, <3>2, <4>1
        <5>2. k \in 1 .. Len(h[d].items)
          BY <2>1, <5>1
        <5>3. g[d].items[k] = h[d].items[k] /\ k \in DOMAIN h[d].items
          BY <2>1, <5>2
        <5> QED
          BY <1>3, <1>8, <2>2, <2>3, <2>5, <4>1, <5>3, SMTT(30) DEF SameKinds, Layered
      <4>2. CASE o # d
        <5>1. o \in 1 .. Len(h) /\ g[o].items = h[o].items
          BY <1>3, <1>4, <2>5, <4>2
        <5> QED
          BY <1>3, <1>8, <2>2, <2>3, <2>5, <5>1, SMTT(30) DEF SameKinds, Layered
      <4> QED
        BY <4>1, <4>2
    <3> QED
      BY <3>1, <3>2
  <2> QED
    BY <1>3, <1>8, <2>3, <2>5 DEF Layered, SameKinds
<1>10. \A o \in 1 .. Len(h) :
        /\ g[o].lit = h[o].lit /\ Spare(g, S, o) = Spare(h, S, o)
        /\ o \in Protected => g[o].items = h[o].items
  BY <1>3, <1>4, <1>7 DEF Changed
<1>11. GoodHeap(g, S)
  BY <1>1, <1>3, <1>8, <1>9, <1>10, FitsKept
<1> QED
  BY <1>8, <1>11 DEF g

LEMMA ReplaceFits ==
  ASSUME NEW h, NEW S, GoodHeap(h, S), NEW d \in (1 .. Len(h)) \ Protected,
         NEW k \in 1 .. Len(h[d].items),
         NEW it, IsItem(it, Len(h)), it.ref \in S \union {0}, Below(h, d, it.ref)
  PROVE  GoodHeap(Replace(h, d, k, it), S) /\ SameKinds(h, Replace(h, d, k, it))
<1> DEFINE g == Replace(h, d, k, it)
           old == h[d].items[k].ref
<1>1. IsHeap(h) /\ Len(h) \in Nat /\ S \in SUBSET (1 .. Len(h))
  BY FitsLength DEF GoodHeap
<1>2. it.ref # 0 => h[it.ref].rc > 0
  BY <1>1, OwnedCount DEF GoodHeap
<1>3. /\ IsHeap(g) /\ Len(g) = Len(h)
      /\ \A o \in 1 .. Len(h) :
           Changed(h[o], g[o],
                   h[o].rc + (IF o = it.ref THEN 1 ELSE 0) - (IF o = old THEN 1 ELSE 0),
                   IF o = d THEN With(h[d].items, k, it) ELSE h[o].items)
  BY <1>1, <1>2, ReplaceObjects
<1> HIDE DEF g
<1>4. \A o \in 1 .. Len(h) :
        g[o].items = IF o = d THEN With(h[d].items, k, it) ELSE h[o].items
  BY <1>3 DEF Changed
<1>5. ASSUME NEW o
      PROVE  Cardinality(Refs(g, o)) =
               Cardinality(Refs(h, o)) + (IF it.ref = o THEN 1 ELSE 0) - (IF old = o THEN 1 ELSE 0)
  <2>1. IsHeap(h) /\ Len(g) = Len(h) /\ d \in 1 .. Len(h)
    BY <1>1, <1>3
  <2>2. ItemReplaced(h, g, d, k, it)
    BY <1>4, <2>1 DEF ItemReplaced
  <2>3. Cardinality(Refs(g, o)) =
           Cardinality(Refs(h, o)) + (IF it.ref = o THEN 1 ELSE 0)
                                   - (IF h[d].items[k].ref = o THEN 1 ELSE 0)
    BY <2>1, <2>2, ReplaceRefs
  <2> QED
    BY <2>3
<1>6. \A o \in 1 .. Len(h) : h[o].rc \in Int /\ Cardinality(Refs(h, o)) \in Nat
  BY <1>1, RefsFinite DEF IsHeap
<1> HIDE DEF old
<1>7. ASSUME NEW o \in 1 .. Len(h)
      PROVE  Spare(g, S, o) = Spare(h, S, o)
  <2>1. /\ g[o].rc = h[o].rc + (IF o = it.ref THEN 1 ELSE 0) - (IF o = old THEN 1 ELSE 0)
        /\ h[o].rc \in Int /\ Cardinality(Refs(h, o)) \in Nat
    BY <1>3, <1>6 DEF Changed
  <2> DEFINE c == Cardinality(Refs(h, o))
             a == IF o = it.ref THEN 1 ELSE 0
             b == IF o = old THEN 1 ELSE 0
  <2>2. Cardinality(Refs(g, o)) = c + a - b /\ a \in Int /\ b \in Int
    BY <1>5
  <2>3. g[o].rc = h[o].rc + a - b /\ h[o].rc \in Int /\ c \in Int
    BY <2>1
  <2> HIDE DEF a, b
  <2>4. g[o].rc - Cardinality(Refs(g, o)) = h[o].rc - c
    BY <2>2, <2>3
  <2> QED
    BY <2>4 DEF Spare
<1>8. SameKinds(h, g)
  BY <1>3 DEF SameKinds, Changed
<1>9. ASSUME Clean
      PROVE  Layered(g)
  <2>1. /\ DOMAIN h[d].items = 1 .. Len(h[d].items) /\ DOMAIN g[d].items = 1 .. Len(h[d].items)
        /\ \A l \in 1 .. Len(h[d].items) : g[d].items[l] = IF l = k THEN it ELSE h[d].items[l]
    BY <1>1, <1>4, ExceptSequence, SequenceDomain DEF IsHeap
  <2>2. \A o \in 1 .. Len(h) : \A l \in DOMAIN h[o].items : h[o].items[l].ref \in 0 .. Len(h)
    BY <1>1, SequenceDomain DEF IsHeap
  <2>3. Layered(h)
    BY <1>9 DEF GoodHeap
  <2>4. it.ref # 0 => Level[h[it.ref].site] > Level[h[d].site]
    BY <1>9 DEF Below
  <2>5. ASSUME NEW o \in 1 .. Len(g), NEW l \in DOMAIN g[o].items, g[o].items[l].ref # 0
        PROVE  Level[g[g[o].items[l].ref].site] > Level[g[o].site]
    <3>1. CASE o = d /\ l = k
      <4>1. it.ref \in 1 .. Len(h)
        BY <2>1, <2>5, <3>1 DEF IsItem
      <4> QED
        BY <1>8, <2>1, <2>4, <2>5, <3>1, <4>1 DEF SameKinds
    <3>2. CASE ~(o = d /\ l = k)
      <4>1. l \in DOMAIN h[o].items /\ g[o].items[l] = h[o].items[l]
        BY <1>3, <1>4, <2>1, <2>5, <3>2
      <4>2. /\ h[o].items[l].ref \in 1 .. Len(h) /\ o \in 1 .. Len(h)
            /\ Level[h[h[o].items[l].ref].site] > Level[h[o].site]
        BY <1>3, <2>2, <2>3, <2>5, <4>1, SMTT(30) DEF Layered
      <4> QED
        BY <1>8, <4>1, <4>2 DEF SameKinds
    <3> QED
      BY <3>1, <3>2
  <2> QED
    BY <1>3, <1>8, <2>3, <2>5 DEF Layered, SameKinds
<1>10. \A o \in 1 .. Len(h) :
        /\ g[o].lit = h[o].lit /\ Spare(g, S, o) = Spare(h, S, o)
        /\ o \in Protected => g[o].items = h[o].items
  BY <1>3, <1>4, <1>7 DEF Changed
<1>11. GoodHeap(g, S)
  BY <1>1, <1>3, <1>8, <1>9, <1>10, FitsKept, SMTT(30)
<1> QED
  BY <1>8, <1>11 DEF g

LEMMA SetFits ==
  ASSUME NEW h, NEW S, GoodHeap(h, S), NEW d \in (1 .. Len(h)) \ Protected,
         NEW it, IsItem(it, Len(h)), it.ref \in S \union {0}, Below(h, d, it.ref)
  PROVE  GoodHeap(Set(h, d, it), S) /\ SameKinds(h, Set(h, d, it))
<1> DEFINE same == {k \in DOMAIN h[d].items : h[d].items[k].key = it.key}
<1>1. CASE same = {}
  BY <1>1, AddFits DEF Set
<1>2. CASE same # {}
  <2> DEFINE k == CHOOSE l \in same : TRUE
  <2>1. k \in same
    BY <1>2
  <2>2. DOMAIN h[d].items = 1 .. Len(h[d].items)
    BY SequenceDomain DEF GoodHeap, IsHeap
  <2>3. Set(h, d, it) = Replace(h, d, k, it)
    BY <1>2 DEF Set
  <2>4. k \in 1 .. Len(h[d].items)
    BY <2>1, <2>2
  <2> HIDE DEF k, same
  <2> QED
    BY <2>3, <2>4, ReplaceFits
<1> QED
  BY <1>1, <1>2

(* The setters, of an object or a constant.                                *)
LEMMA ItemIsItem ==
  ASSUME NEW len \in Nat, NEW key, NEW lit
  PROVE  /\ IsItem(Constant(key, lit), len) /\ Constant(key, lit).ref = 0
         /\ \A r \in 0 .. len : IsItem(Item(key, r), len) /\ Item(key, r).ref = r
BY DEF IsItem, Constant, Item

LEMMA SetItemFits ==
  ASSUME NEW h, NEW S, GoodHeap(h, S), NEW d \in (1 .. Len(h)) \ Protected,
         NEW r \in S, Below(h, d, r), NEW key
  PROVE  LET g == Set(h, d, Item(key, r)) IN GoodHeap(g, S) /\ SameKinds(h, g)
<1> DEFINE it == Item(key, r)
<1>1. Len(h) \in Nat /\ r \in 0 .. Len(h)
  BY FitsLength
<1>2. IsItem(it, Len(h)) /\ it.ref = r
  BY <1>1, ItemIsItem
<1> HIDE DEF it
<1> QED
  BY <1>2, SetFits DEF it

LEMMA AddItemFits ==
  ASSUME NEW h, NEW S, GoodHeap(h, S), NEW d \in (1 .. Len(h)) \ Protected,
         NEW r \in S, Below(h, d, r), NEW key
  PROVE  LET g == Add(h, d, Item(key, r)) IN GoodHeap(g, S) /\ SameKinds(h, g)
<1> DEFINE it == Item(key, r)
<1>1. Len(h) \in Nat /\ r \in 0 .. Len(h)
  BY FitsLength
<1>2. IsItem(it, Len(h)) /\ it.ref = r
  BY <1>1, ItemIsItem
<1> HIDE DEF it
<1> QED
  BY <1>2, AddFits DEF it

LEMMA SetConstantFits ==
  ASSUME NEW h, NEW S, GoodHeap(h, S), NEW d \in (1 .. Len(h)) \ Protected, NEW key, NEW lit
  PROVE  LET g == Set(h, d, Constant(key, lit)) IN GoodHeap(g, S) /\ SameKinds(h, g)
<1> DEFINE it == Constant(key, lit)
<1>1. Len(h) \in Nat
  BY FitsLength
<1>2. IsItem(it, Len(h)) /\ it.ref = 0
  BY <1>1, ItemIsItem
<1>3. Below(h, d, it.ref)
  BY <1>2 DEF Below
<1> HIDE DEF it
<1> QED
  BY <1>2, <1>3, SetFits DEF it

(* An object is put in a container and released by who made it.            *)
LEMMA MoveFits ==
  ASSUME NEW h, NEW S, GoodHeap(h, S), NEW d \in (1 .. Len(h)) \ Protected,
         NEW r \in S, Below(h, d, r), NEW key
  PROVE  LET g == CFRelease(Set(h, d, Item(key, r)), r)
             f == CFRelease(Add(h, d, Item(key, r)), r)
         IN  /\ GoodHeap(g, S \ {r}) /\ SameKinds(h, g)
             /\ GoodHeap(f, S \ {r}) /\ SameKinds(h, f)
<1> DEFINE g == Set(h, d, Item(key, r))
           f == Add(h, d, Item(key, r))
<1>1. GoodHeap(g, S) /\ SameKinds(h, g) /\ GoodHeap(f, S) /\ SameKinds(h, f)
  BY SetItemFits, AddItemFits
<1> HIDE DEF g, f
<1>2. /\ GoodHeap(CFRelease(g, r), S \ {r}) /\ SameKinds(g, CFRelease(g, r))
      /\ GoodHeap(CFRelease(f, r), S \ {r}) /\ SameKinds(f, CFRelease(f, r))
  BY <1>1, ReleaseFits
<1> QED
  BY <1>1, <1>2 DEF SameKinds, g, f

LEMMA NumberFits ==
  ASSUME NEW h, NEW S, GoodHeap(h, S), NEW d \in (1 .. Len(h)) \ Protected,
         Clean => Level[h[d].site] < 4, NEW key, NEW lit
  PROVE  LET g == SetNumber(h, d, key, lit)
         IN  GoodHeap(g, S) /\ Len(g) = Len(h) + 1 /\ SitesKept(h, g)
<1> DEFINE r == Len(h) + 1
           f == New(h, "value", lit)
           T == S \union {r}
           g == CFRelease(Set(f, d, Item(key, r)), r)
<1>1. Len(h) \in Nat /\ S \subseteq 1 .. Len(h)
  BY FitsLength
<1>2. "value" \in DOMAIN Level /\ Level["value"] = 4
  BY DEF Level
<1>3. GoodHeap(f, T) /\ Len(f) = r /\ f[r].site = "value" /\ SitesKept(h, f)
  BY <1>2, NewFits
<1> HIDE DEF f
<1>4. d \in (1 .. Len(f)) \ Protected /\ Below(f, d, r)
  BY <1>1, <1>2, <1>3 DEF Below, SitesKept
<1>5. r \in T /\ T \ {r} = S
  BY <1>1
<1> HIDE DEF r, T
<1>6. GoodHeap(g, T \ {r}) /\ SameKinds(f, g)
  BY <1>3, <1>4, <1>5, MoveFits
<1>7. SetNumber(h, d, key, lit) = g
  BY DEF SetNumber, f, r
<1> HIDE DEF g
<1>8. GoodHeap(g, S) /\ Len(g) = Len(h) + 1
  BY <1>3, <1>5, <1>6 DEF SameKinds, r
<1>9. SitesKept(h, g)
  BY <1>1, <1>3, <1>6 DEF SameKinds, SitesKept, r
<1> QED
  BY <1>7, <1>8, <1>9

(* A new container with its fields.                                        *)
LEMMA OpenFits ==
  ASSUME NEW h, NEW S, GoodHeap(h, S), NEW site, NEW key, NEW lit,
         Clean => site \in DOMAIN Level /\ Level[site] < 4
  PROVE  LET g == SetNumber(NewContainer(h, site), Len(h) + 1, key, lit)
         IN  /\ GoodHeap(g, S \union {Len(h) + 1}) /\ Len(g) = Len(h) + 2
             /\ g[Len(h) + 1].site = site /\ SitesKept(h, g)
<1> DEFINE d == Len(h) + 1
           f == NewContainer(h, site)
           T == S \union {d}
           g == SetNumber(f, d, key, lit)
<1>1. Len(h) \in Nat /\ Len(heap) \in Nat /\ Len(heap) <= Len(h) /\ Protected \subseteq 1 .. Len(heap)
  BY FitsLength
<1>2. GoodHeap(f, T) /\ Len(f) = d /\ f[d].site = site /\ SitesKept(h, f)
  BY NewFits DEF NewContainer
<1>3. d \in (1 .. Len(f)) \ Protected
  <2>1. d \in 1 .. Len(f)
    BY <1>1, <1>2
  <2>2. d \notin Protected
    BY <1>1
  <2> QED
    BY <2>1, <2>2
<1>4. Clean => Level[f[d].site] < 4
  BY <1>2
<1> HIDE DEF f, T
<1>5. GoodHeap(g, T) /\ Len(g) = Len(f) + 1 /\ SitesKept(f, g)
  BY <1>2, <1>3, <1>4, NumberFits
<1> HIDE DEF g
<1>6. Len(g) = Len(h) + 2 /\ g[d].site = site /\ SitesKept(h, g)
  BY <1>1, <1>2, <1>5 DEF SitesKept
<1> QED
  BY <1>5, <1>6 DEF f, g, T

LEMMA MapSequence ==
  ASSUME NEW len \in Nat, NEW f, f = [o \in 1 .. len |-> f[o]]
  PROVE  IsSequence(f) /\ Len(f) = len
<1>1. f \in Seq({f[o] : o \in 1 .. len}) /\ Len(f) = len
  OBVIOUS
<1> QED
  BY <1>1 DEF IsSequence

Copied(h, g, p, site) ==
  LET q == Len(h) + 1 IN
  /\ IsHeap(g) /\ Len(g) = q
  /\ \A o \in 1 .. Len(h) :
       Changed(h[o], g[o], h[o].rc + Cardinality(HeldBy(h, {p}, o)), h[o].items)
  /\ g[q].site = site /\ g[q].rc = 1 /\ g[q].items = h[p].items

LEMMA CopyObjects ==
  ASSUME NEW h, IsHeap(h), NEW p \in 1 .. Len(h), NEW site
  PROVE  Copied(h, CopyOf(h, site, p), p, site)
<1> DEFINE q == Len(h) + 1
           new(o) == [h[o] EXCEPT !.rc = @ + Cardinality(HeldBy(h, {p}, o))]
           f == [o \in 1 .. Len(h) |-> new(o)]
           x == [Object(site, h[p].lit) EXCEPT !.items = h[p].items]
           g == CopyOf(h, site, p)
<1>1. Len(h) \in Nat /\ IsSequence(h)
  BY SequenceDomain DEF IsHeap
<1>2. ASSUME NEW o \in 1 .. Len(h)
      PROVE  /\ DOMAIN h[o] = ObjectFields /\ h[o].rc \in Int /\ IsSequence(h[o].items)
             /\ \A k \in 1 .. Len(h[o].items) : IsItem(h[o].items[k], Len(h))
             /\ Cardinality(HeldBy(h, {p}, o)) \in Nat
  BY HeldFinite DEF IsHeap, IsItem, ObjectFields
<1>3. ASSUME NEW o \in 1 .. Len(h)
      PROVE  Changed(h[o], new(o), h[o].rc + Cardinality(HeldBy(h, {p}, o)), h[o].items)
  BY <1>2 DEF Changed, ObjectFields
<1>4. IsSequence(f) /\ Len(f) = Len(h) /\ \A o \in 1 .. Len(h) : f[o] = new(o)
  BY <1>1, MapSequence
<1>5. /\ DOMAIN x = ObjectFields /\ x.site = site /\ x.rc = 1 /\ x.items = h[p].items
  BY DEF Object, ObjectFields
<1>6. g = Append(f, x)
  BY DEF CopyOf
<1> HIDE DEF f, x, new, g
<1>7. /\ IsSequence(g) /\ Len(g) = q /\ g[q] = x
      /\ \A o \in 1 .. Len(h) : g[o] = new(o)
  BY <1>4, <1>6, AppendSequence
<1>8. ASSUME NEW o \in 1 .. Len(g)
      PROVE  /\ DOMAIN g[o] = ObjectFields
             /\ g[o].rc \in Int /\ IsSequence(g[o].items)
             /\ \A k \in 1 .. Len(g[o].items) : IsItem(g[o].items[k], Len(h))
  <2>1. CASE o \in 1 .. Len(h)
    <3>1. /\ DOMAIN g[o] = ObjectFields /\ g[o].items = h[o].items
          /\ g[o].rc = h[o].rc + Cardinality(HeldBy(h, {p}, o))
      BY <1>3, <1>7, <2>1 DEF Changed
    <3>2. h[o].rc \in Int /\ Cardinality(HeldBy(h, {p}, o)) \in Nat
      BY <1>2, <2>1
    <3>3. g[o].rc \in Int
      BY <3>1, <3>2
    <3> QED
      BY <1>2, <2>1, <3>1, <3>3
  <2>2. CASE o = q
    BY <1>2, <1>5, <1>7, <2>2
  <2> QED
    BY <1>1, <1>7, <2>1, <2>2
<1>9. IsHeap(g)
  BY <1>1, <1>7, <1>8 DEF IsHeap, ObjectFields, IsItem
<1> QED
  BY <1>3, <1>5, <1>7, <1>9 DEF g, Copied

(* A copy is made only where something is left behind in any case.         *)
LEMMA CopyFits ==
  ASSUME NEW h, NEW S, GoodHeap(h, S), NEW p \in 1 .. Len(h), NEW site, ~Clean
  PROVE  LET g == CopyOf(h, site, p) IN
           /\ GoodHeap(g, S \union {Len(h) + 1})
           /\ Len(g) = Len(h) + 1 /\ g[Len(h) + 1].site = site
           /\ SitesKept(h, g)
<1> DEFINE g == CopyOf(h, site, p)
           q == Len(h) + 1
           T == S \union {q}
<1>1. IsHeap(h) /\ Len(h) \in Nat /\ Len(heap) \in Nat /\ Len(heap) <= Len(h) /\ S \subseteq 1 .. Len(h)
  BY FitsLength DEF GoodHeap
<1>2. /\ IsHeap(g) /\ Len(g) = q
      /\ \A o \in 1 .. Len(h) :
           Changed(h[o], g[o], h[o].rc + Cardinality(HeldBy(h, {p}, o)), h[o].items)
      /\ g[q].site = site /\ g[q].rc = 1 /\ g[q].items = h[p].items
  <2>1. Copied(h, g, p, site)
    BY <1>1, CopyObjects
  <2> HIDE DEF g
  <2> QED
    BY <2>1 DEF Copied
<1> HIDE DEF g
<1>3. \A o \in 1 .. Len(h) :
        /\ g[o].items = h[o].items /\ g[o].site = h[o].site /\ g[o].lit = h[o].lit
        /\ g[o].rc = h[o].rc + Cardinality(HeldBy(h, {p}, o))
  BY <1>2 DEF Changed
<1>4. ASSUME NEW o
      PROVE  Cardinality(Refs(g, o)) = Cardinality(Refs(h, o)) + Cardinality(HeldBy(h, {p}, o))
  <2> DEFINE K == Held(h, p, o)
  <2>1. HeldBy(h, {p}, o) = {p} \X K
    BY DEF HeldBy
  <2>2. Refs(g, o) = Refs(h, o) \union ({q} \X K)
    <3>1. \A r \in 1 .. Len(h) : Held(g, r, o) = Held(h, r, o)
      BY <1>3 DEF Held
    <3>2. Held(g, q, o) = K
      BY <1>2 DEF Held
    <3>3. 1 .. Len(g) = 1 .. Len(h) \union {q}
      BY <1>1, <1>2
    <3> HIDE DEF K
    <3> QED
      BY <3>1, <3>2, <3>3 DEF Refs, HeldBy
  <2>3. Refs(h, o) \intersect ({q} \X K) = {}
    BY <1>1 DEF Refs, HeldBy
  <2>4. IsFiniteSet(K)
    <3> DEFINE len == Len(h[p].items)
    <3>1. K \in SUBSET (1 .. len) /\ len \in Nat
      BY <1>1, SequenceDomain DEF Held, IsHeap
    <3> HIDE DEF len, K
    <3>2. IsFiniteSet(1 .. len)
      BY <3>1, FS_Interval
    <3> QED
      BY <3>1, <3>2, FS_Subset
  <2> HIDE DEF K
  <2>5. \A x : IsFiniteSet({x} \X K) /\ Cardinality({x} \X K) = Cardinality(K)
    <3>1. Cardinality(K) \in Nat
      BY <2>4, FS_CardinalityType
    <3>2. ASSUME NEW x
          PROVE  IsFiniteSet({x} \X K) /\ Cardinality({x} \X K) = 1 * Cardinality(K)
      <4>1. IsFiniteSet({x}) /\ Cardinality({x}) = 1
        BY FS_Singleton
      <4> QED
        BY <2>4, <4>1, FS_Product
    <3>3. 1 * Cardinality(K) = Cardinality(K)
      BY <3>1
    <3> QED
      BY <3>2, <3>3
  <2>6. IsFiniteSet(Refs(h, o)) /\ Cardinality(Refs(h, o)) \in Nat
    BY <1>1, RefsFinite
  <2>7. Cardinality(Refs(h, o) \union ({q} \X K)) =
          Cardinality(Refs(h, o)) + Cardinality({q} \X K) - Cardinality(Refs(h, o) \intersect ({q} \X K))
    BY <2>5, <2>6, FS_Union
  <2>8. Cardinality(Refs(h, o) \intersect ({q} \X K)) = 0
    BY <2>3, FS_EmptySet
  <2>9. Cardinality(K) \in Nat
    BY <2>4, FS_CardinalityType
  <2>10. Cardinality({q} \X K) = Cardinality(K) /\ Cardinality({p} \X K) = Cardinality(K)
    BY <2>5
  <2>11. Cardinality(Refs(g, o)) = Cardinality(Refs(h, o)) + Cardinality(K)
    BY <2>2, <2>6, <2>7, <2>8, <2>9, <2>10
  <2> QED
    BY <2>1, <2>10, <2>11
<1>5. ASSUME NEW o \in 1 .. Len(h)
      PROVE  Spare(g, T, o) = Spare(h, S, o)
  <2>1. h[o].rc \in Int /\ Cardinality(Refs(h, o)) \in Nat /\ Cardinality(HeldBy(h, {p}, o)) \in Nat
    BY <1>1, RefsFinite, HeldFinite DEF IsHeap
  <2>2. g[o].rc - Cardinality(Refs(g, o)) = h[o].rc - Cardinality(Refs(h, o))
    <3>1. /\ g[o].rc = h[o].rc + Cardinality(HeldBy(h, {p}, o))
          /\ Cardinality(Refs(g, o)) = Cardinality(Refs(h, o)) + Cardinality(HeldBy(h, {p}, o))
      BY <1>3, <1>4
    <3> QED
      BY <2>1, <3>1
  <2>3. o \in T <=> o \in S
    BY <1>1
  <2> QED
    BY <2>2, <2>3 DEF Spare
<1>6. Spare(g, T, q) = 0
  <2>1. \A r \in 1 .. Len(h) : \A k \in DOMAIN h[r].items : h[r].items[k].ref # q
    <3>1. \A r \in 1 .. Len(h) : \A k \in DOMAIN h[r].items : h[r].items[k].ref \in 0 .. Len(h)
      BY <1>1, SequenceDomain DEF IsHeap
    <3> QED
      BY <1>1, <3>1
  <2>2. Refs(h, q) = {} /\ HeldBy(h, {p}, q) = {}
    BY <2>1 DEF Refs, HeldBy, Held
  <2>3. Cardinality(Refs(g, q)) = 0
    <3>1. Cardinality(Refs(h, q)) = 0 /\ Cardinality(HeldBy(h, {p}, q)) = 0
      BY <2>2, FS_EmptySet
    <3> QED
      BY <1>4, <3>1
  <2>4. q \in T
    OBVIOUS
  <2> QED
    BY <1>2, <2>3, <2>4 DEF Spare
<1>7. Balanced(g, T, KnownLeaks)
  <2>1. \A o \in 1 .. Len(g) : o > Len(h) => Spare(g, T, o) = 0
    BY <1>1, <1>2, <1>6
  <2>2. T \subseteq 1 .. Len(g)
    <3>1. 1 .. Len(g) = 1 .. Len(h) \union {q}
      BY <1>1, <1>2
    <3> QED
      BY <1>1, <3>1
  <2>3. Balanced(h, S, KnownLeaks) /\ Len(h) \in Nat /\ Len(g) \in Nat /\ Len(h) <= Len(g)
    BY <1>1, <1>2 DEF GoodHeap
  <2>4. \A o \in 1 .. Len(h) : g[o].site = h[o].site /\ Spare(g, T, o) = Spare(h, S, o)
    BY <1>3, <1>5
  <2> HIDE DEF T
  <2> QED
    BY <2>1, <2>2, <2>3, <2>4, BalanceKept
<1>8. Preserved(g)
  BY <1>1, <1>2, <1>3 DEF GoodHeap, Preserved
<1> QED
  BY <1>2, <1>3, <1>7, <1>8 DEF GoodHeap, SitesKept, g

-----------------------------------------------------------------------------
(* Who owns what.                                                          *)

LEMMA EmptyOrNot ==
  ASSUME NEW s, IsSequence(s)
  PROVE  s = <<>> <=> Len(s) = 0
BY DEF IsSequence

LEMMA LocalsAre ==
  ASSUME NEW fr
  PROVE  Locals(fr) = {fr.obj, fr.arr, fr.sub, fr.subarr, fr.tmp} \ {0}
BY DEF Locals, Variables

LEMMA StackFacts ==
  ASSUME StackOK
  PROVE  /\ Len(stack) \in Nat /\ DOMAIN stack = 1 .. Len(stack)
         /\ stack = <<>> <=> Len(stack) = 0
         /\ stack # <<>> => Len(stack) \in 1 .. Len(stack) /\ Len(stack) - 1 \in Nat
BY SequenceDomain, EmptyOrNot DEF StackOK

LEMMA OwnedSplit ==
  ASSUME IInv
  PROVE  /\ Owned = Rest \union Hand /\ Rest \intersect Hand = {} /\ 0 \notin Owned
         /\ plist # 0 => plist \in Rest
         /\ records # 0 => records \in Rest
<1>1. /\ Len(stack) \in Nat /\ (stack = <<>> <=> Len(stack) = 0)
      /\ stack # <<>> => Len(stack) \in 1 .. Len(stack) /\ Len(stack) - 1 \in Nat
  BY StackFacts DEF IInv
<1>2. OwnersDistinct
  BY DEF IInv
<1>3. CASE stack = <<>>
  <2>1. LocalsFrom(stack) = {} /\ LocalsBelow = {}
    BY <1>1, <1>3 DEF LocalsFrom, LocalsBelow
  <2> QED
    BY <1>2, <1>3, <2>1 DEF Owned, Rest, Hand, Nonzero, Given, OwnersDistinct
<1>4. CASE stack # <<>>
  <2>1. LocalsFrom(stack) = LocalsBelow \union Locals(Top)
    <3>1. 1 .. Len(stack) = (1 .. Len(stack) - 1) \union {Len(stack)}
      BY <1>1, <1>4
    <3> QED
      BY <3>1 DEF LocalsFrom, LocalsBelow, Top
  <2>2. LocalsBelow \intersect Locals(Top) = {}
    <3>1. \A k \in 1 .. Len(stack) - 1 :
            k \in 1 .. Len(stack) /\ Len(stack) \in 1 .. Len(stack) /\ k # Len(stack)
      BY <1>1, <1>4
    <3>2. \A k \in 1 .. Len(stack) - 1 : Locals(stack[k]) \intersect Locals(Top) = {}
      BY <1>2, <3>1 DEF OwnersDistinct, Top
    <3> QED
      BY <3>2 DEF LocalsBelow
  <2>3. 0 \notin LocalsFrom(stack)
    BY DEF LocalsFrom, Locals
  <2> QED
    BY <1>2, <1>4, <2>1, <2>2, <2>3 DEF Owned, Rest, Hand, Nonzero, Given, OwnersDistinct
<1> QED
  BY <1>3, <1>4

LEMMA ProtectedApart ==
  ASSUME IInv
  PROVE  /\ Protected \subseteq 1 .. Len(heap)
         /\ \A o \in Owned : o # plist => o \notin Protected
<1>1. CASE plist = 0
  BY <1>1 DEF Protected
<1>2. CASE plist # 0
  <2>1. plist \in 1 .. Len(heap)
    <3>1. Owned \subseteq 1 .. Len(heap)
      BY DEF IInv, HeapOK, Balanced
    <3> QED
      BY <1>2, <3>1 DEF Owned, Nonzero
  <2>2. /\ DOMAIN heap[plist].items = 1 .. Len(heap[plist].items)
        /\ \A k \in 1 .. Len(heap[plist].items) : heap[plist].items[k].ref \in 0 .. Len(heap)
    BY <2>1, SequenceDomain DEF IInv, HeapOK, IsHeap
  <2>3. Len(heap) \in Nat
    BY SequenceDomain DEF IInv, HeapOK, IsHeap
  <2>4. Protected \subseteq 1 .. Len(heap)
    BY <1>2, <2>1, <2>2, <2>3 DEF Protected, Nonzero
  <2>5. \A o \in Owned : o # plist => o \notin Protected
    BY <1>2, <2>2 DEF Protected, Nonzero, IInv, PlistApart
  <2> QED
    BY <2>4, <2>5
<1> QED
  BY <1>1, <1>2

LEMMA StartFits ==
  ASSUME IInv, Leaks = KnownLeaks
  PROVE  GoodHeap(heap, Owned)
<1>1. Len(heap) \in Nat
  BY SequenceDomain DEF IInv, HeapOK, IsHeap
<1>2. Preserved(heap)
  BY <1>1, ProtectedApart DEF Preserved
<1> QED
  BY <1>2 DEF GoodHeap, IInv, HeapOK, Clean

LEMMA CountsAreNatural ==
  ASSUME NEW h, IsHeap(h), NEW S, NEW L, Balanced(h, S, L)
  PROVE  \A o \in 1 .. Len(h) : h[o].rc \in Nat
<1> SUFFICES ASSUME NEW o \in 1 .. Len(h)
             PROVE  h[o].rc \in Nat
  OBVIOUS
<1>1. h[o].rc \in Int /\ Cardinality(Refs(h, o)) \in Nat
  BY RefsFinite DEF IsHeap
<1>2. Spare(h, S, o) >= 0
  BY DEF Balanced
<1> QED
  BY <1>1, <1>2 DEF Spare

(* The record's list while the record is in hand.                          *)
LEMMA ListKept ==
  ASSUME IInv, Preserved(heap'), IsHeap(heap'), plist' = plist, Rec' = Rec,
         Owned' \subseteq Owned \union (Len(heap) + 1 .. Len(heap'))
  PROVE  /\ PlistUntouched' /\ PlistApart'
         /\ plist # 0 => heap'[plist].site = heap[plist].site
<1>1. ASSUME plist # 0
      PROVE  /\ plist \in 1 .. Len(heap) /\ DOMAIN heap[plist].items = 1 .. Len(heap[plist].items)
             /\ heap'[plist].items = heap[plist].items /\ heap'[plist].lit = heap[plist].lit
             /\ \A k \in 1 .. Len(heap[plist].items) :
                  LET r == heap[plist].items[k].ref
                  IN  r = 0 \/ (/\ r \in 1 .. Len(heap) /\ r \notin Owned
                                /\ heap'[r].items = heap[r].items /\ heap'[r].lit = heap[r].lit)
  <2>1. plist \in Protected /\ Protected \subseteq 1 .. Len(heap)
    BY <1>1 DEF Protected, Preserved
  <2>2. DOMAIN heap[plist].items = 1 .. Len(heap[plist].items)
    BY <2>1, SequenceDomain DEF IInv, HeapOK, IsHeap
  <2>3. \A k \in 1 .. Len(heap[plist].items) :
          heap[plist].items[k].ref = 0 \/ heap[plist].items[k].ref \in Protected
    BY <1>1 DEF Protected, Nonzero
  <2>4. \A k \in 1 .. Len(heap[plist].items) : heap[plist].items[k].ref \notin Owned
    BY <1>1, <2>2 DEF IInv, PlistApart
  <2> QED
    BY <2>1, <2>2, <2>3, <2>4 DEF Preserved
<1>2. PlistUntouched'
  <2> SUFFICES ASSUME plist # 0
               PROVE  PlistUntouched'
    BY DEF PlistUntouched
  <2> DEFINE items == heap[plist].items
             shown == ShownPlist(Rec.plist)
  <2>1. /\ heap[plist].lit = shown.lit /\ Len(items) = Len(shown.items)
        /\ \A k \in 1 .. Len(items) :
             /\ items[k].key = shown.items[k][1]
             /\ shown.items[k][2] = IF items[k].ref = 0 THEN Leaf(items[k].lit)
                                    ELSE Leaf(heap[items[k].ref].lit)
             /\ items[k].ref # 0 => heap[items[k].ref].items = <<>>
    BY DEF IInv, PlistUntouched
  <2>2. /\ heap'[plist].lit = heap[plist].lit /\ heap'[plist].items = items
        /\ \A k \in 1 .. Len(items) :
             items[k].ref # 0 => /\ heap'[items[k].ref].items = heap[items[k].ref].items
                                 /\ heap'[items[k].ref].lit = heap[items[k].ref].lit
    BY <1>1
  <2>3. PlistUntouched' <=>
          /\ heap'[plist].lit = shown.lit /\ Len(heap'[plist].items) = Len(shown.items)
          /\ \A k \in 1 .. Len(heap'[plist].items) :
               /\ heap'[plist].items[k].key = shown.items[k][1]
               /\ shown.items[k][2] = IF heap'[plist].items[k].ref = 0
                                      THEN Leaf(heap'[plist].items[k].lit)
                                      ELSE Leaf(heap'[heap'[plist].items[k].ref].lit)
               /\ heap'[plist].items[k].ref # 0 => heap'[heap'[plist].items[k].ref].items = <<>>
    BY DEF PlistUntouched
  <2> HIDE DEF items, shown
  <2> QED
    BY <2>1, <2>2, <2>3
<1>3. PlistApart'
  <2>1. Len(heap) \in Nat /\ Len(heap') \in Nat /\ Owned \subseteq 1 .. Len(heap)
    BY SequenceDomain DEF IInv, HeapOK, IsHeap, Balanced
  <2>2. 0 \notin Owned'
    BY <2>1
  <2>3. ASSUME plist # 0, NEW k \in 1 .. Len(heap[plist].items)
        PROVE  heap[plist].items[k].ref \notin Owned'
    BY <1>1, <2>1, <2>2, <2>3, SMTT(30)
  <2> QED
    BY <1>1, <2>3 DEF PlistApart
<1>4. plist # 0 => heap'[plist].site = heap[plist].site
  BY <1>1 DEF Preserved
<1> QED
  BY <1>2, <1>3, <1>4

(* What remains of the invariant when the functions have made their step.  *)
LEMMA StackStep ==
  ASSUME IInv, UNCHANGED caller, HeapOK', Preserved(heap'),
         Owned' \subseteq Owned \union (Len(heap) + 1 .. Len(heap')),
         OwnersDistinct', StackOK', ReturnOK',
         step = "convert" <=> stack' # <<>> \/ ret' # <<>>, stop' \in {"no", "crash", "overrun", "overflow"}
  PROVE  IInv'
<1>1. /\ mode' = mode /\ recs' = recs /\ n' = n /\ step' = step /\ plist' = plist
      /\ records' = records /\ printed' = printed
  BY DEF caller
<1>2. Rec' = Rec
  BY <1>1 DEF Rec
<1>3. /\ IsHeap(heap') /\ Len(heap') \in Nat /\ Len(heap) \in Nat /\ Len(heap) <= Len(heap')
      /\ Owned' \subseteq 1 .. Len(heap')
  <2>1. IsHeap(heap) /\ IsHeap(heap')
    BY DEF IInv, HeapOK
  <2>2. IsSequence(heap) /\ IsSequence(heap')
    BY <2>1 DEF IsHeap
  <2>3. Len(heap) \in Nat /\ Len(heap') \in Nat
    BY <2>2, SequenceDomain
  <2> QED
    BY <2>1, <2>3 DEF Preserved, HeapOK, Balanced
<1>4. TypeOK'
  <2>1. \A o \in 1 .. Len(heap') : heap'[o].rc \in Nat
    BY CountsAreNatural DEF HeapOK
  <2>2. \A o \in 1 .. Len(heap') : \A k \in 1 .. Len(heap'[o].items) :
          heap'[o].items[k].ref \in 0 .. Len(heap')
    BY <1>3 DEF IsHeap
  <2>3. \A k \in 1 .. Len(stack') : stack'[k].fn \in {"record", "bookmark", "item", "alias"}
    BY DEF StackOK, FrameOK, In
  <2>4. Len(ret') <= 1
    <3>1. ret' = <<>> \/ ret' = <<Ret'>>
      BY DEF ReturnOK
    <3>2. \A x : Len(<<x>>) = 1
      OBVIOUS
    <3> QED
      BY <3>1, <3>2
  <2>5. {plist, records} \subseteq 0 .. Len(heap')
    BY <1>3 DEF IInv, TypeOK
  <2> QED
    BY <1>1, <2>1, <2>2, <2>3, <2>4, <2>5 DEF IInv, TypeOK
<1>5. CallerOK'
  BY <1>1, <1>2, <1>3 DEF IInv, CallerOK, TypeOK, Preserved
<1>6. PlistUntouched' /\ PlistApart'
  BY <1>1, <1>2, <1>3, ListKept DEF HeapOK
<1> QED
  BY <1>4, <1>5, <1>6 DEF IInv

LEMMA FrameKept ==
  ASSUME NEW fr, FrameOK(heap, fr), NEW g, Preserved(g)
  PROVE  FrameOK(g, fr)
<1>1. ASSUME NEW o, NEW site, IsKind(heap, o, site)
      PROVE  IsKind(g, o, site)
  BY <1>1 DEF IsKind, Preserved
<1>2. ASSUME NEW obj, NEW arr, NEW sub, NEW subarr, Kinds(heap, fr, obj, arr, sub, subarr)
      PROVE  Kinds(g, fr, obj, arr, sub, subarr)
  BY <1>1, <1>2 DEF Kinds
<1> QED
  BY <1>1, <1>2 DEF FrameOK

LEMMA RecordKept ==
  ASSUME UNCHANGED caller
  PROVE  Rec' = Rec /\ (\A fr : RecordOK(fr)' <=> RecordOK(fr)) /\ KnownLeaks' = KnownLeaks
<1>1. recs' = recs /\ n' = n
  BY DEF caller
<1>2. Rec' = Rec
  BY <1>1 DEF Rec
<1> QED
  BY <1>1, <1>2 DEF RecordOK, KnownLeaks

(* The running function goes on with fr, and the heap is what S owns.      *)
FrameStep(fr, S) ==
  /\ GoodHeap(heap', S) /\ Rest \union Locals(fr) \subseteq S
  /\ \A o \in S \ (Rest \union Locals(fr)) : heap'[o].site \in KnownLeaks
  /\ Locals(fr) \subseteq Hand \union (Len(heap) + 1 .. Len(heap'))
  /\ Distinct(fr) /\ FrameOK(heap', fr) /\ RecordOK(fr)
  /\ fr.fn = Top.fn /\ fr.arg = Top.arg /\ (fr.fn = "alias" => fr.arg.parses)

(* A function that is called begins with nothing.                          *)
Callee(fr, callee) ==
  /\ FrameOK(heap', callee) /\ Locals(callee) = {} /\ RecordOK(callee)
  /\ callee.fn # "record" /\ CallOK(fr, callee)

LEMMA FramesStep ==
  ASSUME IInv, stack # <<>>, UNCHANGED <<stop, caller>>, ret' = <<>>,
         NEW fr, NEW S, FrameStep(fr, S),
         IsSequence(stack'), Len(stack') \in {Len(stack), Len(stack) + 1},
         \A k \in 1 .. Len(stack) : stack'[k] = IF k = Len(stack) THEN fr ELSE stack[k],
         Len(stack') = Len(stack) + 1 => Callee(fr, stack'[Len(stack) + 1])
  PROVE  IInv'
<1> DEFINE len == Len(stack)
<1>1. len \in Nat /\ len \in 1 .. len /\ len - 1 \in Nat
  BY StackFacts DEF IInv
<1>2. /\ mode' = mode /\ recs' = recs /\ n' = n /\ step' = step /\ plist' = plist
      /\ records' = records /\ stop' = stop
  BY DEF caller
<1>3. ASSUME Len(stack') = len + 1
      PROVE  /\ Locals(stack'[len + 1]) = {} /\ FrameOK(heap', stack'[len + 1])
             /\ RecordOK(stack'[len + 1]) /\ stack'[len + 1].fn # "record"
             /\ CallOK(fr, stack'[len + 1])
  BY <1>3 DEF Callee
<1>4. \A k \in 1 .. Len(stack') :
        k \in 1 .. len - 1 \/ k = len \/ (k = len + 1 /\ Len(stack') = len + 1)
  BY <1>1
<1>5. /\ Len(stack') \in Nat /\ 1 .. len \subseteq 1 .. Len(stack') /\ 1 .. len - 1 \subseteq 1 .. len
      /\ stack'[len] = fr /\ \A k \in 1 .. len - 1 : stack'[k] = stack[k]
  BY <1>1
<1>6. LocalsFrom(stack') = LocalsBelow \union Locals(fr)
  <2>1. ASSUME NEW x \in LocalsFrom(stack')
        PROVE  x \in LocalsBelow \union Locals(fr)
    BY <1>3, <1>4, <1>5 DEF LocalsFrom, LocalsBelow
  <2>2. ASSUME NEW x \in LocalsBelow \union Locals(fr)
        PROVE  x \in LocalsFrom(stack')
    BY <1>1, <1>5 DEF LocalsFrom, LocalsBelow
  <2> QED
    BY <2>1, <2>2
<1>7. Owned' = Rest \union Locals(fr)
  BY <1>2, <1>6 DEF Owned, Rest, Given, Nonzero
<1>8. Rest \intersect Locals(fr) = {}
  <2>1. Rest \intersect Hand = {} /\ Rest \subseteq 1 .. Len(heap) /\ Len(heap) \in Nat
    BY OwnedSplit, FitsLength DEF IInv, HeapOK, Balanced, FrameStep
  <2> QED
    BY <2>1 DEF FrameStep
<1>9. OwnersDistinct'
  <2>1. OwnersDistinct
    BY DEF IInv
  <2>2. \A k \in 1 .. Len(stack') : Distinct(stack'[k])
    <3>1. ASSUME Len(stack') = len + 1
          PROVE  Distinct(stack'[len + 1])
      BY <1>3, <3>1 DEF Distinct, Locals
    <3>2. Distinct(fr)
      BY DEF FrameStep
    <3>3. \A k \in 1 .. len - 1 : Distinct(stack[k])
      BY <1>5, <2>1 DEF OwnersDistinct
    <3> QED
      BY <1>4, <1>5, <3>1, <3>2, <3>3
  <2>3. ASSUME NEW k \in 1 .. Len(stack'), NEW l \in 1 .. Len(stack'), k # l
        PROVE  Locals(stack'[k]) \intersect Locals(stack'[l]) = {}
    <3>1. CASE k = len + 1 \/ l = len + 1
      BY <1>3, <1>4, <3>1
    <3>2. CASE k \in 1 .. len - 1 /\ l \in 1 .. len - 1
      BY <1>5, <2>1, <2>3, <3>2 DEF OwnersDistinct
    <3>3. \A m \in 1 .. len - 1 : Locals(stack'[m]) \intersect Locals(fr) = {}
      BY <1>5, <1>8 DEF Rest, LocalsBelow
    <3> QED
      BY <1>4, <1>5, <2>3, <3>1, <3>2, <3>3
  <2>4. {plist, records} \intersect LocalsFrom(stack') = {}
    <3>1. {plist, records} \intersect LocalsBelow = {}
      BY <1>5, <2>1, ZenonT(30) DEF OwnersDistinct, LocalsFrom, LocalsBelow
    <3>2. {plist, records} \intersect Locals(fr) = {}
      BY <1>8 DEF Rest, Nonzero, Locals
    <3> QED
      BY <1>6, <3>1, <3>2
  <2> QED
    BY <1>2, <2>1, <2>2, <2>3, <2>4 DEF OwnersDistinct
<1>10. HeapOK'
  <2>1. Owned' \in SUBSET S /\ \A o \in S \ Owned' : heap'[o].site \in KnownLeaks
    BY <1>7 DEF FrameStep
  <2>2. GoodHeap(heap', Owned')
    BY <2>1, DropFits DEF FrameStep
  <2>3. Leaks' = KnownLeaks /\ KnownLeaks' = KnownLeaks
    BY RecordKept DEF Leaks
  <2> QED
    BY <2>2, <2>3 DEF HeapOK, GoodHeap, Clean
<1>11. Preserved(heap')
  BY DEF FrameStep, GoodHeap
<1>12. Owned' \subseteq Owned \union (Len(heap) + 1 .. Len(heap'))
  BY <1>7, OwnedSplit DEF FrameStep
<1>13. StackOK'
  <2>1. \A k \in 1 .. len :
          /\ FrameOK(heap, stack[k]) /\ RecordOK(stack[k]) /\ (stack[k].fn = "record" <=> k = 1)
    BY DEF IInv, StackOK
  <2>2. \A k \in 1 .. Len(stack') :
          FrameOK(heap', stack'[k]) /\ RecordOK(stack'[k]) /\ (stack'[k].fn = "record" <=> k = 1)
    <3>1. ASSUME NEW k \in 1 .. len - 1
          PROVE  FrameOK(heap', stack'[k]) /\ RecordOK(stack'[k]) /\ (stack'[k].fn = "record" <=> k = 1)
      BY <1>5, <1>11, <2>1, FrameKept
    <3>2. FrameOK(heap', fr) /\ RecordOK(fr) /\ (fr.fn = "record" <=> len = 1)
      BY <1>1, <2>1 DEF FrameStep, Top
    <3>3. len + 1 # 1
      BY <1>1
    <3> QED
      BY <1>3, <1>4, <1>5, <3>1, <3>2, <3>3
  <2>3. \A k \in 1 .. Len(stack') - 1 : CallOK(stack'[k], stack'[k + 1])
    <3>1. \A k \in 1 .. len - 1 : CallOK(stack[k], stack[k + 1])
      BY DEF IInv, StackOK
    <3>2. ASSUME NEW k \in 1 .. len - 1, k + 1 # len
          PROVE  CallOK(stack'[k], stack'[k + 1])
      <4>1. k + 1 \in 1 .. len - 1
        BY <1>1, <3>2
      <4> QED
        BY <1>5, <3>1, <4>1
    <3>3. ASSUME NEW k \in 1 .. len - 1, k + 1 = len
          PROVE  CallOK(stack'[k], stack'[k + 1])
      <4>1. CallOK(stack[k], Top) /\ stack'[k] = stack[k] /\ stack'[k + 1] = fr
        BY <1>5, <3>1, <3>3 DEF Top
      <4> QED
        BY <4>1 DEF CallOK, FrameStep
    <3>4. ASSUME NEW k \in 1 .. Len(stack') - 1
          PROVE  k \in 1 .. len - 1 \/ (k = len /\ Len(stack') = len + 1)
      BY <1>1
    <3> QED
      BY <1>3, <1>5, <3>2, <3>3, <3>4
  <2> QED
    BY <2>2, <2>3, RecordKept DEF StackOK
<1>14. ReturnOK'
  BY DEF ReturnOK
<1>15. step = "convert" /\ stack' # <<>>
  <2>1. stack' # <<>>
    BY <1>1, <1>5, EmptyOrNot
  <2> QED
    BY <2>1 DEF IInv, CallerOK
<1> QED
  BY <1>2, <1>9, <1>10, <1>11, <1>12, <1>13, <1>14, <1>15, StackStep DEF IInv, TypeOK

LEMMA GotoStep ==
  ASSUME IInv, stack # <<>>, NEW fr, Goto(fr), NEW S, FrameStep(fr, S)
  PROVE  IInv'
<1>1. IsSequence(stack) /\ Len(stack) \in 1 .. Len(stack)
  BY StackFacts DEF IInv, StackOK
<1>2. stack' = With(stack, Len(stack), fr)
  BY DEF Goto, SetTop, With
<1>3. /\ IsSequence(stack') /\ Len(stack') = Len(stack)
      /\ \A k \in 1 .. Len(stack) : stack'[k] = IF k = Len(stack) THEN fr ELSE stack[k]
  BY <1>1, <1>2, ExceptSequence
<1>4. Len(stack') \in {Len(stack), Len(stack) + 1} /\ ~(Len(stack') = Len(stack) + 1)
  BY <1>1, <1>3
<1>5. UNCHANGED <<stop, caller>> /\ ret' = <<>>
  BY DEF Goto
<1> QED
  BY <1>3, <1>4, <1>5, FramesStep

LEMMA CallStep ==
  ASSUME IInv, stack # <<>>, ret = <<>>, NEW fr, NEW fn, NEW arg, Call(fr, fn, arg),
         NEW S, FrameStep(fr, S), Callee(fr, Frame(fn, arg))
  PROVE  IInv'
<1> DEFINE st == With(stack, Len(stack), fr)
           callee == Frame(fn, arg)
<1>1. IsSequence(stack) /\ Len(stack) \in 1 .. Len(stack)
  BY StackFacts DEF IInv, StackOK
<1>2. stack' = Append(st, callee)
  BY DEF Call, SetTop, With
<1>3. /\ IsSequence(st) /\ Len(st) = Len(stack)
      /\ \A k \in 1 .. Len(stack) : st[k] = IF k = Len(stack) THEN fr ELSE stack[k]
  BY <1>1, ExceptSequence
<1> HIDE DEF st, callee
<1>4. /\ IsSequence(stack') /\ Len(stack') = Len(stack) + 1
      /\ \A k \in 1 .. Len(stack) : stack'[k] = st[k]
      /\ stack'[Len(stack) + 1] = callee
  BY <1>2, <1>3, AppendSequence
<1>5. UNCHANGED <<stop, caller>> /\ ret' = <<>>
  BY DEF Call
<1>6. Callee(fr, stack'[Len(stack) + 1])
  BY <1>4 DEF callee
<1>7. /\ Len(stack') \in {Len(stack), Len(stack) + 1}
      /\ \A k \in 1 .. Len(stack) : stack'[k] = IF k = Len(stack) THEN fr ELSE stack[k]
  BY <1>3, <1>4
<1> QED
  BY <1>4, <1>5, <1>6, <1>7, FramesStep

(* The running function returns o, and the heap is what S owns.            *)
ReturnStep(o, S) ==
  /\ GoodHeap(heap', S) /\ Rest \union Nonzero({o}) \subseteq S
  /\ \A x \in S \ (Rest \union Nonzero({o})) :
       heap'[x].site \in KnownLeaks \union IF o = 0 THEN {"dict"} ELSE {}
  /\ o \in Hand \union (Len(heap) + 1 .. Len(heap')) \union {0}
  /\ o = 0 => Top.fn = "record"
  /\ o # 0 => (heap'[o].site = "dict" /\ Top.fn = "record") \/ <<Top.fn, heap'[o].site>> \in Results
  /\ Top.fn = "alias" => Top.pc # "enter"

LEMMA ReturnStepOK ==
  ASSUME IInv, stack # <<>>, NEW o, Return(o), NEW S, ReturnStep(o, S)
  PROVE  IInv'
<1> DEFINE len == Len(stack)
<1>1. len \in Nat /\ len \in 1 .. len /\ len - 1 \in Nat /\ 1 .. len - 1 \subseteq 1 .. len
  BY StackFacts DEF IInv
<1>2. /\ mode' = mode /\ recs' = recs /\ n' = n /\ step' = step /\ plist' = plist
      /\ records' = records /\ stop' = stop /\ ret' = <<o>>
  BY DEF Return, caller
<1>3. IsSequence(stack) /\ len # 0
  BY <1>1 DEF IInv, StackOK
<1>4. stack' = SubSeq(stack, 1, len - 1)
  BY DEF Return
<1>5. IsSequence(stack') /\ Len(stack') = len - 1 /\ \A k \in 1 .. len - 1 : stack'[k] = stack[k]
  BY <1>3, <1>4, ButLast
<1>6. LocalsFrom(stack') = LocalsBelow
  BY <1>5 DEF LocalsFrom, LocalsBelow
<1>7. ret' # <<>> /\ Ret' = o
  BY <1>2 DEF Ret
<1>8. Owned' = Rest \union Nonzero({o})
  BY <1>2, <1>6, <1>7 DEF Owned, Rest, Given, Nonzero
<1>9. o # 0 => o \notin Rest
  <2>1. Rest \intersect Hand = {} /\ Rest \subseteq 1 .. Len(heap) /\ Len(heap) \in Nat
    BY OwnedSplit, FitsLength DEF IInv, HeapOK, Balanced, ReturnStep
  <2> QED
    BY <2>1 DEF ReturnStep
<1>10. OwnersDistinct'
  <2>1. OwnersDistinct
    BY DEF IInv
  <2>2. \A k \in 1 .. Len(stack') : Distinct(stack'[k])
    BY <1>1, <1>5, <2>1 DEF OwnersDistinct
  <2>3. \A k, l \in 1 .. Len(stack') : k # l => Locals(stack'[k]) \intersect Locals(stack'[l]) = {}
    BY <1>1, <1>5, <2>1 DEF OwnersDistinct
  <2>4. {plist, records} \intersect LocalsBelow = {}
    BY <1>1, <2>1 DEF OwnersDistinct, LocalsFrom, LocalsBelow
  <2>5. o # 0 => o \notin LocalsBelow \union {plist, records}
    BY <1>9 DEF Rest, Nonzero
  <2> QED
    BY <1>2, <1>6, <1>7, <2>1, <2>2, <2>3, <2>4, <2>5 DEF OwnersDistinct
<1>11. HeapOK'
  <2> DEFINE M == KnownLeaks \union IF o = 0 THEN {"dict"} ELSE {}
  <2>1. Owned' \in SUBSET S /\ (\A x \in S \ Owned' : heap'[x].site \in M) /\ KnownLeaks \subseteq M
    BY <1>8 DEF ReturnStep
  <2>2. IsHeap(heap') /\ Balanced(heap', S, KnownLeaks) /\ (Clean => Layered(heap'))
    BY DEF ReturnStep, GoodHeap
  <2>3. Leaks' = M /\ KnownLeaks' = KnownLeaks
    <3>1. KnownLeaks' = KnownLeaks
      BY RecordKept DEF Return
    <3>2. ret' = <<0>> <=> o = 0
      BY <1>2
    <3> QED
      BY <3>1, <3>2 DEF Leaks
  <2> HIDE DEF M
  <2>4. Balanced(heap', Owned', M)
    BY <2>1, <2>2, DropBalanced
  <2> QED
    BY <2>2, <2>3, <2>4 DEF HeapOK, Clean
<1>12. Preserved(heap')
  BY DEF ReturnStep, GoodHeap
<1>13. Owned' \subseteq Owned \union (Len(heap) + 1 .. Len(heap'))
  BY <1>8, OwnedSplit DEF ReturnStep, Nonzero
<1>14. StackOK'
  <2>1. \A k \in 1 .. len :
          /\ FrameOK(heap, stack[k]) /\ RecordOK(stack[k]) /\ (stack[k].fn = "record" <=> k = 1)
    BY DEF IInv, StackOK
  <2>2. \A k \in 1 .. Len(stack') :
          FrameOK(heap', stack'[k]) /\ RecordOK(stack'[k]) /\ (stack'[k].fn = "record" <=> k = 1)
    BY <1>1, <1>5, <1>12, <2>1, FrameKept
  <2>3. \A k \in 1 .. Len(stack') - 1 : CallOK(stack'[k], stack'[k + 1])
    <3>1. \A k \in 1 .. len - 1 : CallOK(stack[k], stack[k + 1])
      BY DEF IInv, StackOK
    <3>2. \A k \in 1 .. Len(stack') - 1 : k \in 1 .. len - 1 /\ k + 1 \in 1 .. len - 1
      BY <1>1, <1>5
    <3> QED
      BY <1>5, <3>1, <3>2
  <2>4. UNCHANGED caller
    BY DEF Return
  <2> QED
    BY <1>5, <2>2, <2>3, <2>4, RecordKept DEF StackOK
<1>15. ReturnOK'
  <2>1. o # 0 => o \in 1 .. Len(heap')
    <3>1. Owned' \subseteq 1 .. Len(heap')
      BY <1>11 DEF HeapOK, Balanced
    <3> QED
      BY <1>8, <3>1 DEF Nonzero
  <2>2. CASE len = 1
    <3>1. stack' = <<>>
      BY <1>5, <2>2, EmptyOrNot
    <3>2. Top.fn = "record"
      BY <1>1, <2>2 DEF IInv, StackOK, Top
    <3>3. o # 0 => heap'[o].site = "dict"
      BY <3>2 DEF ReturnStep, Results
    <3> QED
      BY <1>2, <1>7, <2>1, <3>1, <3>3 DEF ReturnOK
  <2>3. CASE len # 1
    <3> DEFINE k == len - 1
    <3>1. k \in 1 .. len - 1 /\ k + 1 = len
      <4>1. len \in Nat /\ len >= 1 /\ len # 1
        BY <1>1, <2>3
      <4> HIDE DEF len
      <4> QED
        BY <4>1
    <3>2. stack' # <<>> /\ Top' = stack[k]
      BY <1>5, <3>1, EmptyOrNot DEF Top
    <3>3. CallOK(stack[k], Top)
      BY <3>1 DEF IInv, StackOK, Top
    <3>4. Top.fn # "record"
      BY <1>1, <2>3 DEF IInv, StackOK, Top
    <3>5. o # 0 /\ <<Top.fn, heap'[o].site>> \in Results
      BY <3>4 DEF ReturnStep
    <3>6. Waits(stack[k], Top.fn)
      BY <3>3 DEF CallOK
    <3>7. In(stack[k], "record", "alias") => stack[k].arg.alias.parses
      <4>1. In(stack[k], "record", "alias") => Top.fn = "alias"
        BY <3>6 DEF Waits, In
      <4> QED
        BY <3>3, <4>1 DEF CallOK, ReturnStep
    <3>8. \E r \in Results : Waits(stack[k], r[1]) /\ heap'[o].site = r[2]
      BY <3>5, <3>6
    <3> QED
      BY <1>2, <1>7, <2>1, <3>2, <3>5, <3>7, <3>8 DEF ReturnOK
  <2> QED
    BY <2>2, <2>3
<1>16. step = "convert"
  BY DEF IInv, CallerOK
<1> QED
  BY <1>2, <1>7, <1>10, <1>11, <1>12, <1>13, <1>14, <1>15, <1>16, StackStep DEF IInv, TypeOK, Return

-----------------------------------------------------------------------------
(* Where a step begins.                                                    *)

LEMMA ConvertFacts ==
  ASSUME IInv, stack # <<>>
  PROVE  /\ step = "convert" /\ n + 1 \in 1 .. Len(recs)
         /\ FrameOK(heap, Top) /\ RecordOK(Top)
         /\ Leaky(Rec) => ~Clean
         /\ Rec.type = "icvp" /\ Leaky(Rec) => {"copy", "pict"} \subseteq KnownLeaks
         /\ Leaky(Rec) => {"item", "toc", "entries", "arr", "data", "metadataItems", "cnids",
                          "alias_t"} \subseteq KnownLeaks
<1>1. step = "convert" /\ n < Len(recs) /\ n \in 0 .. Len(recs)
  BY DEF IInv, CallerOK, TypeOK
<1>2. n + 1 \in 1 .. Len(recs)
  BY <1>1
<1>3. FrameOK(heap, Top) /\ RecordOK(Top)
  BY StackFacts DEF IInv, StackOK, Top
<1>4. Leaky(Rec) => ~(\A k \in 1 .. Len(recs) : ~Leaky(recs[k]))
  BY <1>2 DEF Rec
<1>5. Rec.type = "icvp" => \E k \in 1 .. Len(recs) : recs[k].type = "icvp"
  BY <1>2 DEF Rec
<1> QED
  BY <1>1, <1>2, <1>3, <1>4, <1>5 DEF KnownLeaks, Clean

LEMMA AtFacts ==
  ASSUME IInv, NEW fn, NEW pc, At(fn, pc)
  PROVE  /\ stack # <<>> /\ ret = <<>> /\ Top.fn = fn /\ Top.pc = pc
         /\ GoodHeap(heap, Rest \union Locals(Top)) /\ Hand = Locals(Top)
         /\ Rest \intersect Locals(Top) = {}
         /\ Rest \subseteq 1 .. Len(heap) /\ Locals(Top) \subseteq 1 .. Len(heap)
         /\ Locals(Top) \intersect Protected = {}
         /\ Len(heap) \in Nat /\ Protected \subseteq 1 .. Len(heap)
<1>1. stack # <<>> /\ ret = <<>> /\ Top.fn = fn /\ Top.pc = pc
  BY DEF At
<1>2. ret # <<0>>
  BY <1>1
<1>3. Hand = Locals(Top)
  BY <1>1 DEF Hand, Given, Nonzero
<1>4. /\ GoodHeap(heap, Owned) /\ Owned = Rest \union Locals(Top) /\ Rest \intersect Locals(Top) = {}
      /\ plist # 0 => plist \in Rest
  BY <1>2, <1>3, StartFits, OwnedSplit DEF Leaks
<1>5. Owned \subseteq 1 .. Len(heap) /\ Len(heap) \in Nat /\ Protected \subseteq 1 .. Len(heap)
  BY <1>4, FitsLength
<1>6. 0 \notin Locals(Top)
  BY DEF Locals
<1>7. Locals(Top) \intersect Protected = {}
  <2>1. \A o \in Locals(Top) : o \in Owned /\ o # plist
    BY <1>4, <1>6
  <2> QED
    BY <2>1, ProtectedApart
<1> QED
  BY <1>1, <1>3, <1>4, <1>5, <1>7

LEMMA BackFacts ==
  ASSUME IInv, NEW fn, NEW pc, Back(fn, pc)
  PROVE  /\ stack # <<>> /\ Top.fn = fn /\ Top.pc = pc
         /\ GoodHeap(heap, Rest \union Locals(Top) \union {Ret}) /\ Hand = Locals(Top) \union {Ret}
         /\ Rest \intersect Locals(Top) = {} /\ Ret \notin Rest \union Locals(Top)
         /\ Rest \subseteq 1 .. Len(heap) /\ Locals(Top) \subseteq 1 .. Len(heap)
         /\ Ret \in 1 .. Len(heap)
         /\ Locals(Top) \intersect Protected = {} /\ Ret \notin Protected
         /\ Len(heap) \in Nat /\ Protected \subseteq 1 .. Len(heap)
         /\ \E r \in Results : Waits(Top, r[1]) /\ heap[Ret].site = r[2]
         /\ In(Top, "record", "alias") => Top.arg.alias.parses
<1>1. stack # <<>> /\ ret # <<>> /\ Top.fn = fn /\ Top.pc = pc
  BY DEF Back
<1>2. /\ ret = <<Ret>> /\ Ret \in 1 .. Len(heap)
      /\ \E r \in Results : Waits(Top, r[1]) /\ heap[Ret].site = r[2]
      /\ In(Top, "record", "alias") => Top.arg.alias.parses
  BY <1>1 DEF IInv, ReturnOK
<1>3. Len(heap) \in Nat
  BY SequenceDomain DEF IInv, HeapOK, IsHeap
<1>4. Ret # 0
  BY <1>2, <1>3
<1>5. ret # <<0>>
  BY <1>2, <1>4 DEF Ret
<1>6. Hand = Locals(Top) \union {Ret}
  BY <1>1, <1>4 DEF Hand, Given, Nonzero
<1>7. /\ GoodHeap(heap, Owned) /\ Owned = Rest \union Hand /\ Rest \intersect Hand = {}
      /\ plist # 0 => plist \in Rest
  BY <1>5, StartFits, OwnedSplit DEF Leaks
<1>8. Owned \subseteq 1 .. Len(heap) /\ Protected \subseteq 1 .. Len(heap)
  BY <1>7, FitsLength
<1>9. Ret \notin Locals(Top)
  <2>1. Locals(Top) \subseteq LocalsFrom(stack)
    BY <1>1, StackFacts DEF LocalsFrom, Top, IInv
  <2> QED
    BY <1>1, <1>4, <2>1 DEF IInv, OwnersDistinct
<1>10. 0 \notin Hand
  BY <1>4, <1>6 DEF Locals
<1>11. Hand \intersect Protected = {}
  <2>1. \A o \in Hand : o \in Owned /\ o # plist
    BY <1>7, <1>10
  <2> QED
    BY <2>1, ProtectedApart
<1>12. Owned = Rest \union Locals(Top) \union {Ret}
  BY <1>6, <1>7
<1> QED
  BY <1>1, <1>2, <1>3, <1>6, <1>7, <1>8, <1>9, <1>11, <1>12

LEMMA EnterFacts ==
  ASSUME IInv, NEW fn, At(fn, "enter")
  PROVE  /\ Locals(Top) = {} /\ GoodHeap(heap, Rest)
         /\ Top.obj = 0 /\ Top.arr = 0 /\ Top.sub = 0 /\ Top.subarr = 0 /\ Top.tmp = 0
<1>1. /\ stack # <<>> /\ Top.fn = fn /\ Top.pc = "enter" /\ GoodHeap(heap, Rest \union Locals(Top))
  BY AtFacts
<1>2. FrameOK(heap, Top)
  BY <1>1, ConvertFacts
<1>3. Top.obj = 0 /\ Top.arr = 0 /\ Top.sub = 0 /\ Top.subarr = 0 /\ Top.tmp = 0
  BY <1>1, <1>2 DEF FrameOK, In, Kinds, IsKind
<1>4. Locals(Top) = {}
  BY <1>3, LocalsAre
<1> QED
  BY <1>1, <1>3, <1>4

LEMMA LevelFacts ==
  /\ DOMAIN Level = {"records", "dict", "struct", "plist", "pbbk", "tocs", "value"}
  /\ Level["records"] = 0 /\ Level["dict"] = 1 /\ Level["struct"] = 2 /\ Level["plist"] = 2
  /\ Level["pbbk"] = 2 /\ Level["tocs"] = 3 /\ Level["value"] = 4
BY DEF Level

(* What only a record that leaves something behind makes.                  *)
LEMMA LeavesSomething ==
  ASSUME NEW h, NEW S, GoodHeap(h, S), NEW o \in 1 .. Len(h),
         h[o].site \in {"copy", "pict", "metadataItems", "meta", "cnids", "item", "arr", "toc", "entries"}
  PROVE  ~Clean
BY LevelFacts DEF GoodHeap, Layered

LEMMA OpenedFits ==
  ASSUME IInv, At("record", "enter")
  PROVE  /\ GoodHeap(Opened, Rest \union {Dict}) /\ Len(Opened) = Len(heap) + 2
         /\ Opened[Dict].site = "dict" /\ Dict \in (1 .. Len(Opened)) \ Protected
         /\ SitesKept(heap, Opened)
<1>1. GoodHeap(heap, Rest) /\ Len(heap) \in Nat /\ Protected \subseteq 1 .. Len(heap)
  BY EnterFacts, AtFacts
<1>2. "dict" \in DOMAIN Level /\ Level["dict"] < 4
  BY LevelFacts
<1>3. /\ GoodHeap(Opened, Rest \union {Dict}) /\ Len(Opened) = Len(heap) + 2
      /\ Opened[Dict].site = "dict" /\ SitesKept(heap, Opened)
  BY <1>1, <1>2, OpenFits DEF Opened, Dict
<1> QED
  BY <1>1, <1>3 DEF Dict

-----------------------------------------------------------------------------
(* The steps of ds_record_copy_dictionary.                                 *)

LeftKnown(h, S, T) == \A x \in S \ T : h[x].site \in KnownLeaks

LEMMA NothingLeft ==
  ASSUME NEW h, NEW S
  PROVE  LeftKnown(h, S, S)
BY DEF LeftKnown

LEMMA RecordReturns ==
  ASSUME IInv, At("record", "enter"), Return(Dict), NEW S, GoodHeap(heap', S),
         Rest \union {Dict} \subseteq S, heap'[Dict].site = "dict",
         LeftKnown(heap', S, Rest \union {Dict})
  PROVE  IInv'
<1>1. stack # <<>> /\ Top.fn = "record" /\ Len(heap) \in Nat
  BY AtFacts
<1>2. Len(heap') \in Nat /\ S \subseteq 1 .. Len(heap')
  BY FitsLength
<1>3. Dict = Len(heap) + 1 /\ Dict # 0 /\ Nonzero({Dict}) = {Dict}
  BY <1>1 DEF Dict, Nonzero
<1>4. Dict \in Len(heap) + 1 .. Len(heap')
  BY <1>1, <1>2, <1>3
<1>5. ReturnStep(Dict, S)
  BY <1>1, <1>3, <1>4 DEF ReturnStep, LeftKnown
<1> QED
  BY <1>1, <1>5, ReturnStepOK

LEMMA RecordScalarKeeps ==
  ASSUME IInv, RecordScalar
  PROVE  IInv'
<1>1. At("record", "enter") /\ Return(Dict)
  BY DEF RecordScalar
<1>2. /\ GoodHeap(Opened, Rest \union {Dict}) /\ Dict \in (1 .. Len(Opened)) \ Protected
      /\ Opened[Dict].site = "dict"
  BY <1>1, OpenedFits
<1>3. Clean => Level[Opened[Dict].site] < 4
  BY <1>2, LevelFacts
<1>4. GoodHeap(heap', Rest \union {Dict}) /\ heap'[Dict].site = "dict"
  <2>1. CASE Top.arg.data_type = "bool"
    <3>1. heap' = Set(Opened, Dict, Constant("data", Top.arg.lit))
      BY <2>1 DEF RecordScalar
    <3>2. GoodHeap(heap', Rest \union {Dict}) /\ SameKinds(Opened, heap')
      BY <1>2, <3>1, SetConstantFits
    <3> QED
      BY <1>2, <3>2 DEF SameKinds
  <2>2. CASE Top.arg.data_type # "bool"
    <3>1. heap' = SetNumber(Opened, Dict, "data", Top.arg.lit)
      BY <2>2 DEF RecordScalar
    <3>2. GoodHeap(heap', Rest \union {Dict}) /\ SitesKept(Opened, heap')
      BY <1>2, <1>3, <3>1, NumberFits
    <3> QED
      BY <1>2, <3>2 DEF SitesKept
  <2> QED
    BY <2>1, <2>2
<1> QED
  BY <1>1, <1>4, NothingLeft, RecordReturns

LEMMA RecordWrongSizeKeeps ==
  ASSUME IInv, RecordWrongSize
  PROVE  IInv'
<1>1. At("record", "enter") /\ Return(Dict) /\ heap' = Opened
  BY DEF RecordWrongSize, BlobOf
<1>2. GoodHeap(Opened, Rest \union {Dict}) /\ Opened[Dict].site = "dict"
  BY <1>1, OpenedFits
<1> QED
  BY <1>1, <1>2, NothingLeft, RecordReturns


LEMMA RecordDateKeeps ==
  ASSUME IInv, RecordDate
  PROVE  IInv'
<1>1. At("record", "enter")
  BY DEF RecordDate
<1>2. /\ GoodHeap(Opened, Rest \union {Dict}) /\ Dict \in (1 .. Len(Opened)) \ Protected
      /\ Opened[Dict].site = "dict"
  BY <1>1, OpenedFits
<1>3. CASE Top.arg.lit = "invalid"
  <2>1. heap' = Opened /\ Return(0)
    BY <1>3 DEF RecordDate
  <2>2. stack # <<>> /\ Top.fn = "record"
    BY <1>1, AtFacts
  <2>3. ReturnStep(0, Rest \union {Dict})
    BY <1>2, <2>1, <2>2 DEF ReturnStep, Nonzero
  <2> QED
    BY <2>1, <2>2, <2>3, ReturnStepOK
<1>4. CASE Top.arg.lit # "invalid"
  <2>1. heap' = SetNumber(Opened, Dict, "data", Top.arg.lit) /\ Return(Dict)
    BY <1>4 DEF RecordDate
  <2>2. Clean => Level[Opened[Dict].site] < 4
    BY <1>2, LevelFacts
  <2>3. GoodHeap(heap', Rest \union {Dict}) /\ SitesKept(Opened, heap')
    BY <1>2, <2>1, <2>2, NumberFits
  <2>4. heap'[Dict].site = "dict"
    BY <1>2, <2>3 DEF SitesKept
  <2> QED
    BY <1>1, <2>1, <2>3, <2>4, NothingLeft, RecordReturns
<1> QED
  BY <1>3, <1>4

LEMMA RecordDataKeeps ==
  ASSUME IInv, RecordData
  PROVE  IInv'
<1>1. At("record", "enter") /\ Return(Dict)
  BY DEF RecordData, BlobOf
<1>2. /\ GoodHeap(Opened, Rest \union {Dict}) /\ Dict \in (1 .. Len(Opened)) \ Protected
      /\ Opened[Dict].site = "dict"
  BY <1>1, OpenedFits
<1>3. Clean => Level[Opened[Dict].site] < 4
  BY <1>2, LevelFacts
<1>4. heap' = SetNumber(Opened, Dict, "data", Top.arg.lit)
  BY DEF RecordData
<1>5. GoodHeap(heap', Rest \union {Dict}) /\ SitesKept(Opened, heap')
  BY <1>2, <1>3, <1>4, NumberFits
<1>6. heap'[Dict].site = "dict"
  BY <1>2, <1>5 DEF SitesKept
<1> QED
  BY <1>1, <1>5, <1>6, NothingLeft, RecordReturns

LEMMA RecordStructKeeps ==
  ASSUME IInv, RecordStruct
  PROVE  IInv'
<1> DEFINE g == NewContainer(Opened, "struct")
           d == Len(g)
           f == IF Top.arg.lit = "DefB" THEN g ELSE SetNumber(g, d, "fields", Top.arg.lit)
           S == Rest \union {Dict}
           T == S \union {d}
<1>1. At("record", "enter") /\ Return(Dict) /\ heap' = CFRelease(Set(f, Dict, Item("data", d)), d)
  BY DEF RecordStruct, BlobOf
<1>2. GoodHeap(Opened, S) /\ Dict \in (1 .. Len(Opened)) \ Protected /\ Opened[Dict].site = "dict"
  BY <1>1, OpenedFits
<1>3. Len(Opened) \in Nat /\ S \subseteq 1 .. Len(Opened) /\ Protected \subseteq 1 .. Len(Opened)
  BY <1>2, FitsLength
<1>4. GoodHeap(g, T) /\ d = Len(Opened) + 1 /\ g[d].site = "struct" /\ SitesKept(Opened, g)
  <2>1. "struct" \in DOMAIN Level
    BY LevelFacts
  <2> DEFINE c == Len(Opened) + 1
  <2> HIDE DEF S
  <2>2. GoodHeap(g, S \union {c}) /\ Len(g) = c /\ g[c].site = "struct" /\ SitesKept(Opened, g)
    BY <1>2, <2>1, NewFits DEF NewContainer
  <2> QED
    BY <2>2
<1> HIDE DEF g
<1>5. Dict \in (1 .. Len(g)) \ Protected /\ d \in (1 .. Len(g)) \ Protected
      /\ g[Dict].site = "dict"
  BY <1>2, <1>3, <1>4 DEF SitesKept
<1>6. GoodHeap(f, T) /\ SitesKept(g, f) /\ Len(f) >= d
  <2>1. CASE Top.arg.lit = "DefB"
    BY <1>3, <1>4, <2>1 DEF SitesKept
  <2>2. CASE Top.arg.lit # "DefB"
    <3>1. Clean => Level[g[d].site] < 4
      BY <1>4, LevelFacts
    <3>2. f = SetNumber(g, d, "fields", Top.arg.lit)
      BY <2>2
    <3> HIDE DEF f, T
    <3>3. GoodHeap(f, T) /\ SitesKept(g, f) /\ Len(f) = d + 1
      BY <1>4, <1>5, <3>1, <3>2, NumberFits
    <3> QED
      BY <1>3, <1>4, <3>3
  <2> QED
    BY <2>1, <2>2
<1> HIDE DEF f
<1>7. /\ f[Dict].site = "dict" /\ f[d].site = "struct" /\ Len(f) \in Nat
      /\ Dict \in (1 .. Len(f)) \ Protected
  BY <1>4, <1>5, <1>6, FitsLength DEF SitesKept
<1>8. Below(f, Dict, d)
  BY <1>7, LevelFacts DEF Below
<1>9. d \in T /\ T \ {d} = S
  BY <1>3, <1>4
<1> HIDE DEF T, d
<1>10. GoodHeap(heap', T \ {d}) /\ SameKinds(f, heap')
  BY <1>1, <1>6, <1>7, <1>8, <1>9, MoveFits
<1>11. GoodHeap(heap', S) /\ heap'[Dict].site = "dict"
  BY <1>7, <1>9, <1>10 DEF SameKinds
<1> QED
  BY <1>1, <1>11, NothingLeft, RecordReturns

(* The record's list, which is its own. *)
LEMMA ListFacts ==
  ASSUME IInv, stack # <<>>, plist # 0
  PROVE  plist \in Rest /\ heap[plist].site = "plist" /\ Rec.plist # "none"
BY OwnedSplit DEF IInv, CallerOK

LEMMA RecordPlistKeeps ==
  ASSUME IInv, RecordPlist
  PROVE  IInv'
<1> DEFINE S == Rest \union {Dict}
<1>1. At("record", "enter") /\ Return(Dict) /\ heap' = Set(Opened, Dict, Item("data", plist))
  BY DEF RecordPlist, BlobOf
<1>2. /\ GoodHeap(Opened, S) /\ Dict \in (1 .. Len(Opened)) \ Protected
      /\ Opened[Dict].site = "dict" /\ SitesKept(heap, Opened)
  BY <1>1, OpenedFits
<1>3. plist \in S /\ heap[plist].site = "plist" /\ Rest \subseteq 1 .. Len(heap)
  BY <1>1, AtFacts, ListFacts DEF RecordPlist
<1>4. plist \in Rest
  BY <1>1, AtFacts, ListFacts DEF RecordPlist
<1>5. Opened[plist].site = "plist"
  BY <1>2, <1>3, <1>4 DEF SitesKept
<1>6. Below(Opened, Dict, plist)
  BY <1>2, <1>5, LevelFacts DEF Below
<1> HIDE DEF S
<1>7. GoodHeap(heap', S) /\ SameKinds(Opened, heap')
  BY <1>1, <1>2, <1>3, <1>6, SetItemFits
<1>8. heap'[Dict].site = "dict"
  BY <1>2, <1>7 DEF SameKinds
<1> QED
  BY <1>1, <1>7, <1>8, NothingLeft, RecordReturns DEF S

LEMMA IcvpPlainKeeps ==
  ASSUME IInv, IcvpPlain
  PROVE  IInv'
<1> DEFINE c == Len(Opened) + 1
           g == CopyOf(Opened, "copy", plist)
           S == Rest \union {Dict}
           T == S \union {c}
<1>1. /\ At("record", "enter") /\ Return(Dict) /\ heap' = Set(g, Dict, Item("data", c))
      /\ Top.arg.data_type = "blob" /\ Top.arg.type = "icvp" /\ plist # 0
  BY DEF IcvpPlain, BlobOf
<1>2. /\ GoodHeap(Opened, S) /\ Dict \in (1 .. Len(Opened)) \ Protected
      /\ Opened[Dict].site = "dict" /\ Len(Opened) = Len(heap) + 2
  BY <1>1, OpenedFits
<1>3. /\ stack # <<>> /\ Top.fn = "record" /\ plist \in Rest /\ Rec.plist # "none"
      /\ Rest \subseteq 1 .. Len(heap) /\ Len(heap) \in Nat /\ Protected \subseteq 1 .. Len(heap)
  BY <1>1, AtFacts, ListFacts
<1>4. Leaky(Rec) /\ Rec.type = "icvp"
  BY <1>1, <1>3, ConvertFacts DEF RecordOK, Leaky
<1>5. ~Clean /\ "copy" \in KnownLeaks
  BY <1>3, <1>4, ConvertFacts
<1>6. plist \in 1 .. Len(Opened)
  BY <1>2, <1>3
<1>7. GoodHeap(g, T) /\ Len(g) = c /\ g[c].site = "copy" /\ SitesKept(Opened, g)
  <2> HIDE DEF S
  <2> QED
    BY <1>2, <1>5, <1>6, CopyFits
<1> HIDE DEF g
<1>8. /\ g[Dict].site = "dict" /\ Dict \in (1 .. Len(g)) \ Protected /\ c \in T
      /\ Below(g, Dict, c) /\ c \in 1 .. Len(g)
  BY <1>2, <1>3, <1>5, <1>7 DEF Below, SitesKept
<1> HIDE DEF T, c
<1>9. GoodHeap(heap', T) /\ SameKinds(g, heap')
  BY <1>1, <1>7, <1>8, SetItemFits
<1>10. heap'[Dict].site = "dict" /\ heap'[c].site = "copy"
  BY <1>7, <1>8, <1>9 DEF SameKinds
<1>11. LeftKnown(heap', T, S) /\ S \subseteq T
  BY <1>5, <1>10 DEF LeftKnown, T
<1> QED
  BY <1>1, <1>9, <1>10, <1>11, RecordReturns


LEMMA NewFrame ==
  ASSUME NEW fn \in {"record", "bookmark", "item", "alias"}, NEW arg, NEW h
  PROVE  LET fr == Frame(fn, arg) IN
           /\ fr.fn = fn /\ fr.pc = "enter" /\ fr.arg = arg
           /\ FrameOK(h, fr) /\ Locals(fr) = {}
<1> DEFINE fr == Frame(fn, arg)
<1>1. /\ fr.fn = fn /\ fr.pc = "enter" /\ fr.arg = arg /\ fr.i = 0
      /\ fr.obj = 0 /\ fr.arr = 0 /\ fr.sub = 0 /\ fr.subarr = 0 /\ fr.tmp = 0
      /\ DOMAIN fr = {"fn", "pc", "arg", "i", "j"} \union Variables
  BY DEF Frame, Variables
<1> HIDE DEF fr
<1>2. Locals(fr) = {}
  BY <1>1, LocalsAre
<1>3. FrameOK(h, fr)
  BY <1>1 DEF FrameOK, Kinds, IsKind, In
<1> QED
  BY <1>1, <1>2, <1>3 DEF fr

(* A frame of which the variables are named.                               *)
FrameIs(fr, fn, pc, arg) ==
  /\ DOMAIN fr = {"fn", "pc", "arg", "i", "j"} \union Variables /\ fr.i \in Nat
  /\ fr.fn = fn /\ fr.pc = pc /\ fr.arg = arg

VariablesAre(fr, obj, arr, sub, subarr, tmp) ==
  fr.obj = obj /\ fr.arr = arr /\ fr.sub = sub /\ fr.subarr = subarr /\ fr.tmp = tmp

LEMMA DistinctIf ==
  ASSUME NEW fr, NEW obj, NEW arr, NEW sub, NEW subarr, NEW tmp,
         VariablesAre(fr, obj, arr, sub, subarr, tmp),
         obj # 0 => obj \notin {arr, sub, subarr, tmp},
         arr # 0 => arr \notin {sub, subarr, tmp},
         sub # 0 => sub \notin {subarr, tmp},
         subarr # 0 => subarr # tmp
  PROVE  Distinct(fr) /\ Locals(fr) = {obj, arr, sub, subarr, tmp} \ {0}
BY LocalsAre DEF Distinct, Variables, VariablesAre

LEMMA RecordBookmarkKeeps ==
  ASSUME IInv, RecordBookmark
  PROVE  IInv'
<1> DEFINE fr == [Top EXCEPT !.obj = Dict, !.pc = "bookmark"]
           S == Rest \union {Dict}
<1>1. /\ At("record", "enter") /\ Call(fr, "bookmark", Top.arg.mark) /\ heap' = Opened
      /\ Top.arg.data_type = "blob" /\ Top.arg.type = "pBBk" /\ Top.arg.size <= BookmarkSize
  BY DEF RecordBookmark, BlobOf
<1>2. GoodHeap(Opened, S) /\ Dict \in 1 .. Len(Opened) /\ Opened[Dict].site = "dict"
  BY <1>1, OpenedFits
<1>3. /\ stack # <<>> /\ ret = <<>> /\ Top.fn = "record" /\ Top.pc = "enter"
      /\ FrameOK(heap, Top) /\ RecordOK(Top) /\ Len(heap) \in Nat
      /\ VariablesAre(Top, 0, 0, 0, 0, 0)
  BY <1>1, AtFacts, ConvertFacts, EnterFacts DEF VariablesAre
<1>4. Top.arg = Rec
  BY <1>3 DEF RecordOK
<1>5. FrameIs(fr, "record", "bookmark", Rec) /\ VariablesAre(fr, Dict, 0, 0, 0, 0)
  BY <1>3, <1>4 DEF FrameIs, FrameOK, VariablesAre, Variables
<1>6. Dict # 0 /\ Dict \in Len(heap) + 1 .. Len(Opened)
  BY <1>2, <1>3 DEF Dict
<1> HIDE DEF fr
<1>7. Distinct(fr) /\ Locals(fr) = {Dict}
  BY <1>5, <1>6, DistinctIf
<1>8. FrameOK(heap', fr)
  BY <1>1, <1>2, <1>5 DEF FrameOK, FrameIs, VariablesAre, Kinds, IsKind, In
<1>9. RecordOK(fr)
  BY <1>5 DEF RecordOK, FrameIs, In
<1>10. FrameStep(fr, S)
  BY <1>1, <1>2, <1>3, <1>4, <1>5, <1>6, <1>7, <1>8, <1>9 DEF FrameStep, FrameIs
<1> DEFINE callee == Frame("bookmark", Top.arg.mark)
<1>11. /\ callee.fn = "bookmark" /\ callee.pc = "enter" /\ callee.arg = Rec.mark
       /\ FrameOK(heap', callee) /\ Locals(callee) = {}
  BY <1>4, NewFrame
<1> HIDE DEF callee
<1>12. RecordOK(callee) /\ CallOK(fr, callee)
  BY <1>1, <1>4, <1>5, <1>11 DEF RecordOK, CallOK, Waits, In, FrameIs, UsesBookmark
<1>13. Callee(fr, callee)
  BY <1>11, <1>12 DEF Callee
<1> QED
  BY <1>1, <1>3, <1>10, <1>13, CallStep DEF callee


LEMMA Returns ==
  ASSUME IInv, stack # <<>>, NEW o \in Hand \union (Len(heap) + 1 .. Len(heap')), o # 0,
         Return(o), NEW S, GoodHeap(heap', S), Rest \union {o} \subseteq S,
         LeftKnown(heap', S, Rest \union {o}),
         <<Top.fn, heap'[o].site>> \in Results \union {<<"record", "dict">>},
         Top.fn = "alias" => Top.pc # "enter"
  PROVE  IInv'
<1>1. Nonzero({o}) = {o}
  BY DEF Nonzero
<1>2. (heap'[o].site = "dict" /\ Top.fn = "record") \/ <<Top.fn, heap'[o].site>> \in Results
  OBVIOUS
<1>3. ReturnStep(o, S)
  BY <1>1, <1>2 DEF ReturnStep, LeftKnown
<1> QED
  BY <1>3, ReturnStepOK

LEMMA RecordBookmarkDoneKeeps ==
  ASSUME IInv, RecordBookmarkDone
  PROVE  IInv'
<1> DEFINE d == Top.obj
           S == Rest \union {d}
           T == S \union {Ret}
<1>1. /\ Back("record", "bookmark") /\ heap' = CFRelease(Set(heap, d, Item("data", Ret)), Ret)
      /\ Return(d)
  BY DEF RecordBookmarkDone
<1>2. /\ stack # <<>> /\ Top.fn = "record" /\ Top.pc = "bookmark"
      /\ Hand = Locals(Top) \union {Ret} /\ Ret \notin Rest \union Locals(Top)
      /\ Locals(Top) \intersect Protected = {} /\ Len(heap) \in Nat
      /\ GoodHeap(heap, Rest \union Locals(Top) \union {Ret})
  BY <1>1, BackFacts
<1>3. \E r \in Results : Waits(Top, r[1]) /\ heap[Ret].site = r[2]
  BY <1>1, BackFacts
<1>4. heap[Ret].site = "pbbk"
  BY <1>2, <1>3 DEF Results, Waits, In
<1>5. FrameOK(heap, Top)
  BY <1>2, ConvertFacts
<1>6. /\ d \in 1 .. Len(heap) /\ heap[d].site = "dict"
      /\ Top.arr = 0 /\ Top.sub = 0 /\ Top.subarr = 0 /\ Top.tmp = 0
  BY <1>2, <1>5 DEF FrameOK, Kinds, IsKind, In
<1>7. Locals(Top) = {d} /\ d # 0
  BY <1>2, <1>6, LocalsAre
<1>8. d \in (1 .. Len(heap)) \ Protected /\ Ret \in T /\ T \ {Ret} = S /\ GoodHeap(heap, T)
  BY <1>2, <1>6, <1>7
<1>9. Below(heap, d, Ret)
  BY <1>4, <1>6, LevelFacts DEF Below
<1> HIDE DEF T, S, d
<1>10. GoodHeap(heap', T \ {Ret}) /\ SameKinds(heap, heap')
  BY <1>1, <1>8, <1>9, MoveFits
<1>11. GoodHeap(heap', S) /\ heap'[d].site = "dict"
  BY <1>6, <1>8, <1>10 DEF SameKinds
<1>12. d \in Hand
  BY <1>2, <1>7
<1> QED
  BY <1>1, <1>2, <1>7, <1>11, <1>12, NothingLeft, Returns DEF S

(* The alias_t of a blob.                                                  *)
LEMMA AliasFits ==
  ASSUME NEW h, NEW S, GoodHeap(h, S), ~Clean, NEW a
  PROVE  LET g == AliasOf(h, a)
             t == NewAlias(h, a)
         IN  /\ GoodHeap(g, S \union ({t} \ {0})) /\ SitesKept(h, g)
             /\ Len(g) \in Nat /\ Len(g) >= Len(h)
             /\ t \in {0, Len(h) + 1} /\ (t # 0 => t \in 1 .. Len(g))
             /\ IsKind(g, t, IF a.parses THEN "alias_t" ELSE "none")
             /\ "alias_t" \in KnownLeaks => GoodHeap(g, S)
<1> DEFINE g == AliasOf(h, a)
           t == NewAlias(h, a)
           c == Len(h) + 1
           T == S \union {c}
<1>1. Len(h) \in Nat /\ S \subseteq 1 .. Len(h)
  BY FitsLength
<1>2. CASE a.parses
  <2>1. t = c /\ g = NewContainer(h, "alias_t")
    BY <1>2 DEF NewAlias, AliasOf
  <2>2. GoodHeap(g, T) /\ Len(g) = c /\ g[c].site = "alias_t" /\ SitesKept(h, g)
    BY <2>1, NewFits DEF NewContainer
  <2>3. S \union ({t} \ {0}) = T
    BY <1>1, <2>1
  <2> HIDE DEF g, t
  <2>4. ASSUME "alias_t" \in KnownLeaks
        PROVE  GoodHeap(g, S)
    <3>1. S \in SUBSET T /\ \A o \in T \ S : g[o].site \in KnownLeaks
      BY <2>2, <2>4
    <3> HIDE DEF T
    <3> QED
      BY <2>2, <3>1, DropFits
  <2>5. /\ IsKind(g, t, "alias_t") /\ t \in 1 .. Len(g)
        /\ Len(g) \in Nat /\ Len(g) >= Len(h) /\ t \in {0, Len(h) + 1}
    BY <1>1, <2>1, <2>2 DEF IsKind
  <2>6. GoodHeap(g, S \union ({t} \ {0})) /\ SitesKept(h, g)
    BY <2>2, <2>3
  <2> QED
    BY <1>2, <2>4, <2>5, <2>6 DEF g, t
<1>3. CASE ~a.parses
  <2>1. t = 0 /\ g = h
    BY <1>3 DEF NewAlias, AliasOf
  <2>2. GoodHeap(g, S) /\ S \union ({t} \ {0}) = S
    BY <2>1
  <2> HIDE DEF g, t
  <2>3. /\ IsKind(g, t, "none") /\ t \in {0, Len(h) + 1} /\ t = 0 /\ SitesKept(h, g)
        /\ Len(g) \in Nat /\ Len(g) >= Len(h)
    BY <1>1, <2>1 DEF IsKind, SitesKept
  <2> QED
    BY <1>3, <2>2, <2>3 DEF g, t
<1> QED
  BY <1>2, <1>3

LEMMA RecordAliasKeeps ==
  ASSUME IInv, RecordAlias
  PROVE  IInv'
<1> DEFINE t == NewAlias(Opened, Top.arg.alias)
           fr == [Top EXCEPT !.obj = Dict, !.tmp = t, !.pc = "alias"]
           S == Rest \union {Dict}
           T == S \union ({t} \ {0})
<1>1. /\ At("record", "enter") /\ Call(fr, "alias", Top.arg.alias)
      /\ heap' = AliasOf(Opened, Top.arg.alias)
      /\ Top.arg.data_type = "blob" /\ Top.arg.type = "pict"
  BY DEF RecordAlias, BlobOf
<1>2. /\ GoodHeap(Opened, S) /\ Dict \in 1 .. Len(Opened) /\ Opened[Dict].site = "dict"
      /\ Len(Opened) = Len(heap) + 2
  BY <1>1, OpenedFits
<1>3. /\ stack # <<>> /\ ret = <<>> /\ Top.fn = "record" /\ Top.pc = "enter"
      /\ FrameOK(heap, Top) /\ RecordOK(Top) /\ Len(heap) \in Nat
      /\ VariablesAre(Top, 0, 0, 0, 0, 0)
  BY <1>1, AtFacts, ConvertFacts, EnterFacts DEF VariablesAre
<1>4. Top.arg = Rec
  BY <1>3 DEF RecordOK
<1>5. FrameIs(fr, "record", "alias", Rec) /\ VariablesAre(fr, Dict, 0, 0, 0, t)
  BY <1>3, <1>4 DEF FrameIs, FrameOK, VariablesAre, Variables
<1>6. Leaky(Rec)
  BY <1>1, <1>4 DEF Leaky, UsesAlias
<1>7. ~Clean
  BY <1>3, <1>6, ConvertFacts
<1>8. /\ GoodHeap(heap', T) /\ SitesKept(Opened, heap') /\ Len(heap') >= Len(Opened)
      /\ IsKind(heap', t, IF Rec.alias.parses THEN "alias_t" ELSE "none")
      /\ t \in {0, Len(Opened) + 1} /\ (t # 0 => t \in Len(heap) + 1 .. Len(heap'))
  <2> HIDE DEF S
  <2>1. /\ GoodHeap(heap', T) /\ SitesKept(Opened, heap') /\ Len(heap') >= Len(Opened)
        /\ IsKind(heap', t, IF Rec.alias.parses THEN "alias_t" ELSE "none")
        /\ t \in {0, Len(Opened) + 1} /\ (t # 0 => t \in 1 .. Len(heap')) /\ Len(heap') \in Nat
    BY <1>1, <1>2, <1>4, <1>7, AliasFits
  <2> QED
    BY <1>2, <1>3, <2>1
<1>9. Dict # 0 /\ Dict \in Len(heap) + 1 .. Len(heap') /\ Dict # t /\ heap'[Dict].site = "dict"
      /\ Dict \in 1 .. Len(heap')
  BY <1>2, <1>3, <1>8 DEF Dict, SitesKept
<1> HIDE DEF fr, t
<1>10. Distinct(fr) /\ Locals(fr) = {Dict} \union ({t} \ {0})
  BY <1>5, <1>9, DistinctIf
<1>11. FrameOK(heap', fr)
  BY <1>5, <1>8, <1>9 DEF FrameOK, FrameIs, VariablesAre, Kinds, IsKind, In
<1>12. RecordOK(fr)
  BY <1>5 DEF RecordOK, FrameIs, In
<1>13. FrameStep(fr, T)
  BY <1>3, <1>4, <1>5, <1>8, <1>9, <1>10, <1>11, <1>12 DEF FrameStep, FrameIs
<1> DEFINE callee == Frame("alias", Top.arg.alias)
<1>14. /\ callee.fn = "alias" /\ callee.pc = "enter" /\ callee.arg = Rec.alias
       /\ FrameOK(heap', callee) /\ Locals(callee) = {}
  BY <1>4, NewFrame
<1> HIDE DEF callee, T
<1>15. RecordOK(callee) /\ CallOK(fr, callee)
  BY <1>5, <1>6, <1>14 DEF RecordOK, CallOK, Waits, In, FrameIs
<1>16. Callee(fr, callee)
  BY <1>14, <1>15 DEF Callee
<1> QED
  BY <1>1, <1>3, <1>13, <1>16, CallStep DEF callee

LEMMA RecordAliasDoneKeeps ==
  ASSUME IInv, RecordAliasDone
  PROVE  IInv'
<1> DEFINE d == Top.obj
           t == Top.tmp
           g == CFRelease(Set(heap, d, Item("data", Ret)), Ret)
           S == Rest \union {d}
           T == S \union {t}
           W == T \union {Ret}
<1>1. Back("record", "alias") /\ heap' = CFRelease(g, t) /\ Return(d)
  BY DEF RecordAliasDone
<1>2. /\ stack # <<>> /\ Top.fn = "record" /\ Top.pc = "alias"
      /\ Hand = Locals(Top) \union {Ret} /\ Ret \notin Rest \union Locals(Top)
      /\ Rest \intersect Locals(Top) = {}
      /\ Locals(Top) \intersect Protected = {} /\ Len(heap) \in Nat
      /\ GoodHeap(heap, Rest \union Locals(Top) \union {Ret})
  BY <1>1, BackFacts
<1>3. /\ \E r \in Results : Waits(Top, r[1]) /\ heap[Ret].site = r[2]
      /\ Top.arg.alias.parses
  BY <1>1, <1>2, BackFacts DEF In
<1>4. heap[Ret].site = "pict"
  BY <1>2, <1>3 DEF Results, Waits, In
<1>5. FrameOK(heap, Top) /\ RecordOK(Top)
  BY <1>2, ConvertFacts
<1>6. /\ d \in 1 .. Len(heap) /\ heap[d].site = "dict" /\ t \in 1 .. Len(heap)
      /\ heap[t].site = "alias_t" /\ Top.arr = 0 /\ Top.sub = 0 /\ Top.subarr = 0
  BY <1>2, <1>3, <1>5 DEF FrameOK, Kinds, IsKind, In
<1>7. Locals(Top) = {d, t} /\ d # 0 /\ t # 0 /\ d # t
  BY <1>2, <1>6, LocalsAre
<1>8. /\ d \in (1 .. Len(heap)) \ Protected /\ GoodHeap(heap, W)
      /\ Ret \in W /\ W \ {Ret} = T /\ t \in T /\ T \ {t} = S
  BY <1>2, <1>6, <1>7
<1>9. ~Clean
  BY <1>2, <1>4, LeavesSomething, BackFacts, <1>1
<1>10. Below(heap, d, Ret)
  BY <1>9 DEF Below
<1> HIDE DEF S, T, W, d, t, g
<1>11. GoodHeap(g, T) /\ SameKinds(heap, g)
  <2>1. GoodHeap(g, W \ {Ret}) /\ SameKinds(heap, g)
    BY <1>8, <1>10, MoveFits DEF g
  <2> QED
    BY <1>8, <2>1
<1>12. GoodHeap(heap', S) /\ SameKinds(g, heap')
  <2>1. GoodHeap(heap', T \ {t}) /\ SameKinds(g, heap')
    BY <1>1, <1>8, <1>11, ReleaseFits
  <2> QED
    BY <1>8, <2>1
<1>13. heap'[d].site = "dict" /\ d \in Hand
  BY <1>2, <1>6, <1>7, <1>11, <1>12 DEF SameKinds
<1> QED
  BY <1>1, <1>2, <1>7, <1>12, <1>13, NothingLeft, Returns DEF S

LEMMA IcvpAliasKeeps ==
  ASSUME IInv, IcvpAlias
  PROVE  IInv'
<1> DEFINE c == Len(Opened) + 1
           g == CopyOf(Opened, "copy", plist)
           fr == [Top EXCEPT !.obj = Dict, !.sub = c, !.pc = "icvp"]
           S == Rest \union {Dict}
           T == S \union {c}
<1>1. /\ At("record", "enter") /\ Call(fr, "alias", Top.arg.alias)
      /\ heap' = AliasOf(g, Top.arg.alias) /\ plist # 0
      /\ Top.arg.data_type = "blob" /\ Top.arg.type = "icvp"
  BY DEF IcvpAlias, BlobOf
<1>2. /\ GoodHeap(Opened, S) /\ Dict \in 1 .. Len(Opened) /\ Opened[Dict].site = "dict"
      /\ Len(Opened) = Len(heap) + 2
  BY <1>1, OpenedFits
<1>3. /\ stack # <<>> /\ ret = <<>> /\ Top.fn = "record" /\ Top.pc = "enter"
      /\ FrameOK(heap, Top) /\ RecordOK(Top) /\ Len(heap) \in Nat
      /\ VariablesAre(Top, 0, 0, 0, 0, 0) /\ Rest \subseteq 1 .. Len(heap)
      /\ plist \in Rest /\ Rec.plist # "none"
  BY <1>1, AtFacts, ConvertFacts, EnterFacts, ListFacts DEF VariablesAre
<1>4. Top.arg = Rec
  BY <1>3 DEF RecordOK
<1>5. FrameIs(fr, "record", "icvp", Rec) /\ VariablesAre(fr, Dict, 0, c, 0, 0)
  BY <1>3, <1>4 DEF FrameIs, FrameOK, VariablesAre, Variables
<1>6. Leaky(Rec) /\ Rec.type = "icvp"
  BY <1>1, <1>3, <1>4 DEF Leaky
<1>7. ~Clean /\ {"copy", "pict", "alias_t"} \subseteq KnownLeaks
  BY <1>3, <1>6, ConvertFacts
<1>8. GoodHeap(g, T) /\ Len(g) = c /\ g[c].site = "copy" /\ SitesKept(Opened, g)
  <2>1. plist \in 1 .. Len(Opened)
    BY <1>2, <1>3
  <2>2. GoodHeap(Opened, S) /\ ~Clean
    BY <1>2, <1>7
  <2> HIDE DEF S
  <2> QED
    BY <2>1, <2>2, CopyFits
<1> HIDE DEF g, T
<1>9. GoodHeap(heap', T) /\ SitesKept(g, heap') /\ Len(heap') \in Nat /\ Len(heap') >= c
  BY <1>1, <1>7, <1>8, AliasFits
<1>10. /\ Dict # 0 /\ Dict # c /\ c # 0 /\ Dict \in Len(heap) + 1 .. Len(heap')
       /\ c \in Len(heap) + 1 .. Len(heap') /\ Dict \in 1 .. Len(heap') /\ c \in 1 .. Len(heap')
  BY <1>2, <1>3, <1>9 DEF Dict
<1>11. heap'[Dict].site = "dict" /\ heap'[c].site = "copy"
  BY <1>2, <1>3, <1>8, <1>9 DEF SitesKept, Dict
<1> HIDE DEF fr, c
<1>12. Distinct(fr) /\ Locals(fr) = {Dict, c}
  BY <1>5, <1>10, DistinctIf
<1>13. FrameOK(heap', fr)
  BY <1>5, <1>10, <1>11 DEF FrameOK, FrameIs, VariablesAre, Kinds, IsKind, In
<1>14. RecordOK(fr)
  BY <1>5, <1>6 DEF RecordOK, FrameIs, In
<1>15. FrameStep(fr, T)
  BY <1>3, <1>4, <1>5, <1>9, <1>10, <1>12, <1>13, <1>14 DEF FrameStep, FrameIs, T
<1> DEFINE callee == Frame("alias", Top.arg.alias)
<1>16. /\ callee.fn = "alias" /\ callee.pc = "enter"
       /\ FrameOK(heap', callee) /\ Locals(callee) = {}
  BY NewFrame
<1> HIDE DEF callee
<1>17. RecordOK(callee) /\ CallOK(fr, callee)
  BY <1>5, <1>6, <1>16 DEF RecordOK, CallOK, Waits, In, FrameIs
<1>18. Callee(fr, callee)
  BY <1>16, <1>17 DEF Callee
<1> QED
  BY <1>1, <1>3, <1>15, <1>18, CallStep DEF callee

LEMMA IcvpAliasDoneKeeps ==
  ASSUME IInv, IcvpAliasDone
  PROVE  IInv'
<1> DEFINE d == Top.obj
           c == Top.sub
           g == Set(heap, c, Item("backgroundImageAlias", Ret))
           S == Rest \union {d}
           W == S \union {c} \union {Ret}
<1>1. Back("record", "icvp") /\ heap' = Set(g, d, Item("data", c)) /\ Return(d)
  BY DEF IcvpAliasDone
<1>2. /\ stack # <<>> /\ Top.fn = "record" /\ Top.pc = "icvp"
      /\ Hand = Locals(Top) \union {Ret} /\ Ret \notin Rest \union Locals(Top)
      /\ Rest \intersect Locals(Top) = {}
      /\ Locals(Top) \intersect Protected = {} /\ Len(heap) \in Nat
      /\ GoodHeap(heap, Rest \union Locals(Top) \union {Ret}) /\ Ret \in 1 .. Len(heap)
  BY <1>1, BackFacts
<1>3. \E r \in Results : Waits(Top, r[1]) /\ heap[Ret].site = r[2]
  BY <1>1, <1>2, BackFacts
<1>4. heap[Ret].site = "pict"
  BY <1>2, <1>3 DEF Results, Waits, In
<1>5. FrameOK(heap, Top) /\ RecordOK(Top)
  BY <1>2, ConvertFacts
<1>6. /\ d \in 1 .. Len(heap) /\ heap[d].site = "dict" /\ c \in 1 .. Len(heap)
      /\ heap[c].site = "copy" /\ Top.arr = 0 /\ Top.tmp = 0 /\ Top.subarr = 0
  BY <1>2, <1>3, <1>5 DEF FrameOK, Kinds, IsKind, In
<1>7. Locals(Top) = {d, c} /\ d # 0 /\ c # 0
  BY <1>2, <1>6, LocalsAre
<1>8. /\ d \in (1 .. Len(heap)) \ Protected /\ c \in (1 .. Len(heap)) \ Protected
      /\ GoodHeap(heap, W) /\ Ret \in W /\ c \in W
  BY <1>2, <1>6, <1>7
<1>9. ~Clean /\ {"copy", "pict"} \subseteq KnownLeaks
  BY <1>2, <1>5, ConvertFacts DEF RecordOK, In
<1> HIDE DEF W, S, d, c, g
<1>10. GoodHeap(g, W) /\ SameKinds(heap, g)
  BY <1>8, <1>9, SetItemFits DEF g, Below
<1>11. GoodHeap(heap', W) /\ SameKinds(g, heap')
  <2>1. d \in (1 .. Len(g)) \ Protected /\ Below(g, d, c)
    BY <1>8, <1>9, <1>10 DEF SameKinds, Below
  <2> QED
    BY <1>1, <1>8, <1>10, <2>1, SetItemFits
<1>12. /\ heap'[d].site = "dict" /\ heap'[c].site = "copy" /\ heap'[Ret].site = "pict"
       /\ d \in Hand
  BY <1>2, <1>4, <1>6, <1>7, <1>10, <1>11 DEF SameKinds
<1>13. LeftKnown(heap', W, S) /\ S \subseteq W
  BY <1>9, <1>12 DEF LeftKnown, W, S
<1> QED
  BY <1>1, <1>2, <1>7, <1>11, <1>12, <1>13, Returns DEF S


-----------------------------------------------------------------------------
(* The steps of the bookmark's functions.                                  *)

(* A dictionary with its fields and the array that will be in it.          *)
LEMMA PairFits ==
  ASSUME NEW h, NEW S, GoodHeap(h, S), NEW site, NEW key, NEW lit, NEW array,
         Clean => site \in DOMAIN Level /\ Level[site] < 4 /\ array \in DOMAIN Level
  PROVE  LET g == NewContainer(SetNumber(NewContainer(h, site), Len(h) + 1, key, lit), array)
             d == Len(h) + 1
             a == Len(h) + 3
         IN  /\ GoodHeap(g, S \union {d, a}) /\ Len(g) = a /\ SitesKept(h, g)
             /\ g[d].site = site /\ g[a].site = array
<1> DEFINE f == SetNumber(NewContainer(h, site), Len(h) + 1, key, lit)
           g == NewContainer(f, array)
           d == Len(h) + 1
           a == Len(h) + 3
           T == S \union {d}
<1>1. Len(h) \in Nat
  BY FitsLength
<1>2. GoodHeap(f, T) /\ Len(f) = Len(h) + 2 /\ f[d].site = site /\ SitesKept(h, f)
  BY OpenFits
<1> HIDE DEF f
<1>3. Len(f) + 1 = a
  BY <1>1, <1>2
<1>4. GoodHeap(g, T \union {Len(f) + 1}) /\ Len(g) = Len(f) + 1 /\ g[Len(f) + 1].site = array
      /\ SitesKept(f, g)
  <2> HIDE DEF T, d, a
  <2> QED
    BY <1>2, NewFits, ZenonT(30) DEF NewContainer
<1> HIDE DEF g
<1>5. T \union {Len(f) + 1} = S \union {d, a}
  BY <1>3
<1>6. GoodHeap(g, S \union {d, a}) /\ Len(g) = a /\ g[a].site = array
  BY <1>3, <1>4, <1>5
<1>7. SitesKept(h, g) /\ g[d].site = site
  BY <1>1, <1>2, <1>4 DEF SitesKept
<1> QED
  BY <1>6, <1>7 DEF f, g

LEMMA BookmarkEnterKeeps ==
  ASSUME IInv, BookmarkEnter
  PROVE  IInv'
<1> DEFINE d == Len(heap) + 1
           a == Len(heap) + 3
           fr == [Top EXCEPT !.obj = d, !.arr = Len(heap'), !.pc = "tocs"]
           S == Rest \union {d, a}
<1>1. /\ At("bookmark", "enter") /\ Goto(fr)
      /\ heap' = NewContainer(SetNumber(NewContainer(heap, "pbbk"), d, "fields", "header"), "tocs")
  BY DEF BookmarkEnter
<1>2. /\ stack # <<>> /\ Top.fn = "bookmark" /\ FrameOK(heap, Top) /\ RecordOK(Top)
      /\ Len(heap) \in Nat /\ VariablesAre(Top, 0, 0, 0, 0, 0) /\ GoodHeap(heap, Rest)
  BY <1>1, AtFacts, ConvertFacts, EnterFacts DEF VariablesAre
<1>3. "pbbk" \in DOMAIN Level /\ Level["pbbk"] < 4 /\ "tocs" \in DOMAIN Level
  BY LevelFacts
<1>4. /\ GoodHeap(heap', S) /\ Len(heap') = a /\ heap'[d].site = "pbbk" /\ heap'[a].site = "tocs"
  BY <1>1, <1>2, <1>3, PairFits
<1>5. FrameIs(fr, "bookmark", "tocs", Top.arg) /\ VariablesAre(fr, d, a, 0, 0, 0)
  BY <1>2, <1>4 DEF FrameIs, FrameOK, VariablesAre, Variables
<1>6. d # 0 /\ a # 0 /\ d # a /\ d \in d .. a /\ a \in d .. a /\ d \in 1 .. a /\ a \in 1 .. a
  BY <1>2
<1> HIDE DEF fr, d, a
<1>7. Distinct(fr) /\ Locals(fr) = {d, a}
  BY <1>5, <1>6, DistinctIf
<1>8. FrameOK(heap', fr) /\ RecordOK(fr)
  BY <1>2, <1>4, <1>5, <1>6 DEF FrameOK, RecordOK, FrameIs, VariablesAre, Kinds, IsKind, In
<1>9. FrameStep(fr, S)
  BY <1>2, <1>4, <1>5, <1>6, <1>7, <1>8 DEF FrameStep, FrameIs, d
<1> QED
  BY <1>1, <1>2, <1>9, GotoStep

LEMMA BookmarkTocKeeps ==
  ASSUME IInv, BookmarkToc
  PROVE  IInv'
<1> DEFINE d == Len(heap) + 1
           a == Len(heap) + 3
           fr == [Top EXCEPT !.sub = d, !.subarr = Len(heap'), !.j = 0, !.pc = "entries"]
           L == Locals(Top)
           T == Rest \union L
           S == T \union {d, a}
<1>1. /\ At("bookmark", "tocs") /\ Goto(fr) /\ Top.i < Len(TablesOf(Top.arg))
      /\ heap' = NewContainer(SetNumber(NewContainer(heap, "toc"), d, "fields", "toc"), "entries")
  BY DEF BookmarkToc
<1>2. /\ stack # <<>> /\ Top.fn = "bookmark" /\ Top.pc = "tocs" /\ FrameOK(heap, Top)
      /\ RecordOK(Top) /\ Hand = L /\ L \subseteq 1 .. Len(heap)
      /\ Len(heap) \in Nat /\ GoodHeap(heap, Rest \union L)
  BY <1>1, AtFacts, ConvertFacts
<1>3. /\ Top.obj \in 1 .. Len(heap) /\ heap[Top.obj].site = "pbbk" /\ Top.arr \in 1 .. Len(heap)
      /\ heap[Top.arr].site = "tocs" /\ Top.sub = 0 /\ Top.subarr = 0 /\ Top.tmp = 0
      /\ Top.i \in Nat
  BY <1>2 DEF FrameOK, Kinds, IsKind, In
<1>4. Leaky(Rec)
  <2>1. Top.arg = Rec.mark /\ UsesBookmark(Rec)
    BY <1>2 DEF RecordOK
  <2>2. Top.arg.toc_offset # 0
    <3>1. CASE Top.arg.toc_offset = 0
      <4>1. Len(TablesOf(Top.arg)) = 0
        BY <3>1 DEF TablesOf
      <4> QED
        BY <1>1, <1>3, <4>1
    <3> QED
      BY <3>1
  <2> QED
    BY <2>1, <2>2 DEF Leaky
<1>5. ~Clean
  BY <1>2, <1>4, ConvertFacts
<1>6. /\ GoodHeap(heap', S) /\ Len(heap') = a /\ heap'[d].site = "toc" /\ heap'[a].site = "entries"
      /\ SitesKept(heap, heap')
  <2>1. GoodHeap(heap, T)
    BY <1>2
  <2>2. Clean => "toc" \in DOMAIN Level /\ Level["toc"] < 4 /\ "entries" \in DOMAIN Level
    BY <1>5
  <2>3. heap' = NewContainer(SetNumber(NewContainer(heap, "toc"), d, "fields", "toc"), "entries")
    BY <1>1
  <2> HIDE DEF T
  <2>4. GoodHeap(heap', S) /\ Len(heap') = a /\ heap'[d].site = "toc" /\ heap'[a].site = "entries"
    BY <2>1, <2>2, <2>3, PairFits
  <2>5. SitesKept(heap, heap')
    BY <2>1, <2>2, <2>3, PairFits
  <2> QED
    BY <2>4, <2>5
<1>7. /\ FrameIs(fr, "bookmark", "entries", Top.arg)
      /\ VariablesAre(fr, Top.obj, Top.arr, d, a, 0)
  BY <1>2, <1>3, <1>6 DEF FrameIs, FrameOK, VariablesAre, Variables
<1>8. /\ d # 0 /\ a # 0 /\ d # a /\ d \in d .. a /\ a \in d .. a /\ d \in 1 .. a /\ a \in 1 .. a
      /\ \A o \in 1 .. Len(heap) : o # 0 /\ o # d /\ o # a /\ o \in 1 .. a
  BY <1>2
<1>9. L = {Top.obj, Top.arr} /\ Top.obj # Top.arr
  <2>1. Top.obj # Top.arr
    BY <1>3
  <2> QED
    BY <1>3, <1>8, <2>1, LocalsAre
<1>10. heap'[Top.obj].site = "pbbk" /\ heap'[Top.arr].site = "tocs"
  BY <1>3, <1>6 DEF SitesKept
<1> HIDE DEF fr, d, a, L
<1>11. Distinct(fr) /\ Locals(fr) = L \union {d, a}
  <2>1. Top.obj \notin {Top.arr, d, a, 0} /\ Top.arr \notin {d, a, 0} /\ d \notin {a, 0} /\ a # 0
    BY <1>3, <1>8, <1>9
  <2>2. Distinct(fr) /\ Locals(fr) = {Top.obj, Top.arr, d, a, 0} \ {0}
    BY <1>7, <2>1, DistinctIf
  <2> QED
    BY <1>9, <2>1, <2>2
<1>12. FrameOK(heap', fr) /\ RecordOK(fr)
  BY <1>2, <1>3, <1>4, <1>6, <1>7, <1>8, <1>10 DEF FrameOK, RecordOK, FrameIs, VariablesAre, Kinds, IsKind, In
<1>13. FrameStep(fr, S)
  BY <1>2, <1>6, <1>7, <1>8, <1>11, <1>12 DEF FrameStep, FrameIs, d
<1> QED
  BY <1>1, <1>2, <1>13, GotoStep


LEMMA SameVariables ==
  ASSUME NEW fr, NEW old, VariablesAre(fr, old.obj, old.arr, old.sub, old.subarr, old.tmp)
  PROVE  Locals(fr) = Locals(old) /\ (Distinct(fr) <=> Distinct(old))
BY LocalsAre DEF Distinct, Variables, VariablesAre

LEMMA TopDistinct ==
  ASSUME IInv, stack # <<>>
  PROVE  Distinct(Top)
BY StackFacts DEF IInv, OwnersDistinct, Top

LEMMA BookmarkEntryKeeps ==
  ASSUME IInv, BookmarkEntry
  PROVE  IInv'
<1> DEFINE fr == [Top EXCEPT !.pc = "entry"]
           L == Locals(Top)
           S == Rest \union L
<1>1. /\ At("bookmark", "entries") /\ heap' = heap
      /\ \E arg : Call(fr, "item", arg)
  BY DEF BookmarkEntry
<1>2. PICK arg : Call(fr, "item", arg)
  BY <1>1
<1>3. /\ stack # <<>> /\ ret = <<>> /\ Top.fn = "bookmark" /\ Top.pc = "entries"
      /\ FrameOK(heap, Top) /\ RecordOK(Top) /\ Hand = L /\ Distinct(Top)
      /\ GoodHeap(heap, S)
  BY <1>1, AtFacts, ConvertFacts, TopDistinct
<1>4. /\ FrameIs(fr, "bookmark", "entry", Top.arg)
      /\ VariablesAre(fr, Top.obj, Top.arr, Top.sub, Top.subarr, Top.tmp)
  BY <1>3 DEF FrameIs, FrameOK, VariablesAre, Variables
<1> HIDE DEF fr
<1>5. Locals(fr) = L /\ Distinct(fr)
  BY <1>3, <1>4, SameVariables
<1>6. FrameOK(heap', fr)
  BY <1>1, <1>3, <1>4 DEF FrameOK, FrameIs, VariablesAre, Kinds, IsKind, In
<1>7. RecordOK(fr) /\ Leaky(Rec)
  BY <1>3, <1>4 DEF RecordOK, FrameIs, In
<1> HIDE DEF L
<1>8. FrameStep(fr, S)
  BY <1>1, <1>3, <1>4, <1>5, <1>6, <1>7 DEF FrameStep, FrameIs
<1> DEFINE callee == Frame("item", arg)
<1>9. /\ callee.fn = "item" /\ callee.pc = "enter"
      /\ FrameOK(heap', callee) /\ Locals(callee) = {}
  BY NewFrame
<1> HIDE DEF callee
<1>10. RecordOK(callee) /\ CallOK(fr, callee)
  BY <1>4, <1>7, <1>9 DEF RecordOK, CallOK, Waits, In, FrameIs
<1>11. Callee(fr, callee)
  BY <1>9, <1>10 DEF Callee
<1> QED
  BY <1>2, <1>3, <1>8, <1>11, CallStep DEF callee

LEMMA BookmarkEntryDoneKeeps ==
  ASSUME IInv, BookmarkEntryDone
  PROVE  IInv'
<1> DEFINE e == TablesOf(Top.arg)[Top.i + 1].entries[Top.j + 1]
           g == SetNumber(heap, Ret, "key", e.key)
           a == Top.subarr
           fr == [Top EXCEPT !.j = @ + 1, !.pc = "entries"]
           L == Locals(Top)
           S == Rest \union L \union {Ret}
<1>1. Back("bookmark", "entry") /\ heap' = Add(g, a, Item(NoText, Ret)) /\ Goto(fr)
  BY DEF BookmarkEntryDone, Element
<1>2. /\ stack # <<>> /\ Top.fn = "bookmark" /\ Top.pc = "entry"
      /\ Hand = L \union {Ret} /\ Ret \notin Rest \union L /\ Ret \in 1 .. Len(heap)
      /\ Ret \notin Protected /\ L \intersect Protected = {} /\ Len(heap) \in Nat
      /\ GoodHeap(heap, S) /\ FrameOK(heap, Top) /\ RecordOK(Top) /\ Distinct(Top)
      /\ L \subseteq 1 .. Len(heap)
  BY <1>1, BackFacts, ConvertFacts, TopDistinct
<1>3. \E r \in Results : Waits(Top, r[1]) /\ heap[Ret].site = r[2]
  BY <1>1, BackFacts
<1>4. heap[Ret].site = "item"
  BY <1>2, <1>3 DEF Results, Waits, In
<1>5. ~Clean /\ "item" \in KnownLeaks
  BY <1>2, ConvertFacts DEF RecordOK
<1>6. /\ FrameIs(fr, "bookmark", "entries", Top.arg)
      /\ VariablesAre(fr, Top.obj, Top.arr, Top.sub, Top.subarr, Top.tmp)
  BY <1>2 DEF FrameIs, FrameOK, VariablesAre, Variables
<1> HIDE DEF fr
<1>7. Locals(fr) = L /\ Distinct(fr)
  BY <1>2, <1>6, SameVariables
<1>8. /\ Top.obj \in 1 .. Len(heap) /\ heap[Top.obj].site = "pbbk"
      /\ Top.arr \in 1 .. Len(heap) /\ heap[Top.arr].site = "tocs"
      /\ Top.sub \in 1 .. Len(heap) /\ heap[Top.sub].site = "toc"
      /\ a \in 1 .. Len(heap) /\ heap[a].site = "entries" /\ Top.tmp = 0
  BY <1>2 DEF FrameOK, Kinds, IsKind, In
<1>9. a \in L
  BY <1>2, <1>8, LocalsAre
<1> HIDE DEF L, S
<1>10. GoodHeap(g, S) /\ SitesKept(heap, g) /\ Len(g) = Len(heap) + 1
  <2>1. Ret \in (1 .. Len(heap)) \ Protected /\ (Clean => Level[heap[Ret].site] < 4)
    BY <1>2, <1>5
  <2> HIDE DEF e
  <2> QED
    BY <1>2, <2>1, NumberFits
<1> HIDE DEF g
<1>11. GoodHeap(heap', S) /\ SameKinds(g, heap')
  <2>1. a \in (1 .. Len(g)) \ Protected /\ Ret \in S /\ Below(g, a, Ret)
    BY <1>2, <1>5, <1>8, <1>9, <1>10 DEF Below, S
  <2> QED
    BY <1>1, <1>10, <2>1, AddItemFits
<1>12. SitesKept(heap, heap') /\ Len(heap') = Len(heap) + 1
  BY <1>2, <1>10, <1>11 DEF SitesKept, SameKinds
<1>13. heap'[Ret].site = "item"
  BY <1>2, <1>4, <1>12 DEF SitesKept
<1>14. Preserved(heap')
  BY <1>11 DEF GoodHeap
<1>15. FrameOK(heap', fr)
  <2>1. FrameOK(heap', Top)
    BY <1>2, <1>14, FrameKept
  <2> QED
    BY <1>2, <1>6, <2>1 DEF FrameOK, FrameIs, VariablesAre, Kinds, IsKind, In
<1>16. RecordOK(fr)
  BY <1>2, <1>6 DEF RecordOK, FrameIs, In
<1>17. FrameStep(fr, S)
  BY <1>2, <1>5, <1>6, <1>7, <1>11, <1>13, <1>15, <1>16 DEF FrameStep, FrameIs, S
<1> QED
  BY <1>1, <1>2, <1>17, GotoStep


LEMMA BookmarkTocDoneKeeps ==
  ASSUME IInv, BookmarkTocDone
  PROVE  IInv'
<1> DEFINE a == Top.arr
           d == Top.sub
           b == Top.subarr
           g == Set(heap, d, Item("entries", b))
           fr == [Top EXCEPT !.i = @ + 1, !.sub = 0, !.subarr = 0, !.pc = "tocs"]
           L == Locals(Top)
           S == Rest \union L
<1>1. At("bookmark", "entries") /\ heap' = Add(g, a, Item(NoText, d)) /\ Goto(fr)
  BY DEF BookmarkTocDone, Element
<1>2. /\ stack # <<>> /\ Top.fn = "bookmark" /\ Top.pc = "entries"
      /\ Hand = L /\ L \intersect Protected = {} /\ Len(heap) \in Nat
      /\ GoodHeap(heap, S) /\ FrameOK(heap, Top) /\ RecordOK(Top) /\ Distinct(Top)
      /\ L \subseteq 1 .. Len(heap) /\ Rest \intersect L = {}
  BY <1>1, AtFacts, ConvertFacts, TopDistinct
<1>3. ~Clean /\ {"toc", "entries"} \subseteq KnownLeaks
  BY <1>2, ConvertFacts DEF RecordOK
<1>4. /\ Top.obj \in 1 .. Len(heap) /\ heap[Top.obj].site = "pbbk"
      /\ a \in 1 .. Len(heap) /\ heap[a].site = "tocs"
      /\ d \in 1 .. Len(heap) /\ heap[d].site = "toc"
      /\ b \in 1 .. Len(heap) /\ heap[b].site = "entries" /\ Top.tmp = 0 /\ Top.i \in Nat
  BY <1>2 DEF FrameOK, Kinds, IsKind, In
<1>5. /\ FrameIs(fr, "bookmark", "tocs", Top.arg)
      /\ VariablesAre(fr, Top.obj, a, 0, 0, 0)
  BY <1>2, <1>4 DEF FrameIs, FrameOK, VariablesAre, Variables
<1>6. L = {Top.obj, a, d, b} /\ Top.obj # 0 /\ a # 0
  BY <1>2, <1>4, LocalsAre
<1>7. Top.obj # a
  BY <1>4
<1> HIDE DEF fr, L, S, a, b, d, g
<1>8. Distinct(fr) /\ Locals(fr) = {Top.obj, a}
  BY <1>5, <1>6, <1>7, DistinctIf
<1>9. GoodHeap(g, S) /\ SameKinds(heap, g)
  <2>1. d \in (1 .. Len(heap)) \ Protected /\ b \in S /\ Below(heap, d, b)
    BY <1>2, <1>3, <1>4, <1>6 DEF Below, S
  <2> QED
    BY <1>2, <2>1, SetItemFits DEF g
<1>10. GoodHeap(heap', S) /\ SameKinds(g, heap')
  <2>1. a \in (1 .. Len(g)) \ Protected /\ d \in S /\ Below(g, a, d)
    BY <1>2, <1>3, <1>4, <1>6, <1>9 DEF Below, S, SameKinds
  <2> QED
    BY <1>1, <1>9, <2>1, AddItemFits
<1>11. SameKinds(heap, heap')
  BY <1>9, <1>10 DEF SameKinds
<1>12. FrameOK(heap', fr)
  BY <1>4, <1>5, <1>11 DEF SameKinds, FrameOK, FrameIs, VariablesAre, Kinds, IsKind, In
<1>13. RecordOK(fr)
  BY <1>2, <1>5 DEF RecordOK, FrameIs, In
<1>14. heap'[d].site = "toc" /\ heap'[b].site = "entries"
  BY <1>4, <1>11 DEF SameKinds
<1>15. FrameStep(fr, S)
  BY <1>2, <1>3, <1>5, <1>6, <1>8, <1>10, <1>12, <1>13, <1>14 DEF FrameStep, FrameIs, S
<1> QED
  BY <1>1, <1>2, <1>15, GotoStep

LEMMA BookmarkDoneKeeps ==
  ASSUME IInv, BookmarkDone
  PROVE  IInv'
<1> DEFINE d == Top.obj
           a == Top.arr
           S == Rest \union {d}
           T == S \union {a}
<1>1. /\ At("bookmark", "tocs") /\ heap' = CFRelease(Set(heap, d, Item("tocs", a)), a)
      /\ Return(d)
  BY DEF BookmarkDone
<1>2. /\ stack # <<>> /\ Top.fn = "bookmark" /\ Top.pc = "tocs" /\ Len(heap) \in Nat
      /\ Hand = Locals(Top) /\ Locals(Top) \intersect Protected = {}
      /\ Rest \intersect Locals(Top) = {}
      /\ GoodHeap(heap, Rest \union Locals(Top)) /\ FrameOK(heap, Top)
  BY <1>1, AtFacts, ConvertFacts
<1>3. /\ d \in 1 .. Len(heap) /\ heap[d].site = "pbbk" /\ a \in 1 .. Len(heap)
      /\ heap[a].site = "tocs" /\ Top.sub = 0 /\ Top.subarr = 0 /\ Top.tmp = 0
  BY <1>2 DEF FrameOK, Kinds, IsKind, In
<1>4. Locals(Top) = {d, a} /\ d # 0 /\ d # a
  BY <1>2, <1>3, LocalsAre
<1>5. d \in (1 .. Len(heap)) \ Protected /\ a \in T /\ T \ {a} = S /\ GoodHeap(heap, T)
  BY <1>2, <1>3, <1>4
<1>6. Below(heap, d, a)
  BY <1>3, LevelFacts DEF Below
<1>7. d \in Hand
  BY <1>2, <1>4
<1> HIDE DEF S, T, d, a
<1>8. GoodHeap(heap', T \ {a}) /\ SameKinds(heap, heap')
  BY <1>1, <1>5, <1>6, MoveFits
<1>9. GoodHeap(heap', S) /\ heap'[d].site = "pbbk"
  BY <1>3, <1>5, <1>8 DEF SameKinds
<1>10. <<Top.fn, heap'[d].site>> \in Results
  BY <1>2, <1>9 DEF Results
<1> QED
  BY <1>1, <1>2, <1>4, <1>7, <1>9, <1>10, NothingLeft, Returns DEF S

-----------------------------------------------------------------------------
(* The steps for an item.                                                  *)

LEMMA ItemFacts ==
  ASSUME IInv, At("item", "enter")
  PROVE  /\ stack # <<>> /\ Top.fn = "item" /\ Top.pc = "enter" /\ FrameOK(heap, Top)
         /\ RecordOK(Top) /\ Leaky(Rec) /\ ~Clean
         /\ {"item", "arr", "data"} \subseteq KnownLeaks
         /\ GoodHeap(heap, Rest) /\ Len(heap) \in Nat /\ VariablesAre(Top, 0, 0, 0, 0, 0)
         /\ Rest \subseteq 1 .. Len(heap) /\ Protected \subseteq 1 .. Len(heap)
<1>1. /\ stack # <<>> /\ Top.fn = "item" /\ Top.pc = "enter" /\ FrameOK(heap, Top)
      /\ RecordOK(Top) /\ GoodHeap(heap, Rest) /\ Len(heap) \in Nat
      /\ VariablesAre(Top, 0, 0, 0, 0, 0)
      /\ Rest \subseteq 1 .. Len(heap) /\ Protected \subseteq 1 .. Len(heap)
  BY AtFacts, ConvertFacts, EnterFacts DEF VariablesAre
<1>2. Leaky(Rec)
  BY <1>1 DEF RecordOK
<1> QED
  BY <1>1, <1>2, ConvertFacts

(* The dictionary of an item, with the name of its type.                   *)
LEMMA NamedItemFits ==
  ASSUME IInv, At("item", "enter"), NEW type
  PROVE  LET d == Len(heap) + 1
             g == Set(NewContainer(heap, "item"), d, Constant("data.type", type))
         IN  /\ GoodHeap(g, Rest \union {d}) /\ Len(g) = d /\ SitesKept(heap, g)
             /\ g[d].site = "item" /\ d \in (1 .. d) \ Protected
<1> DEFINE d == Len(heap) + 1
           f == NewContainer(heap, "item")
           S == Rest \union {d}
           g == Set(f, d, Constant("data.type", type))
<1>1. /\ GoodHeap(heap, Rest) /\ ~Clean /\ Len(heap) \in Nat
      /\ Protected \subseteq 1 .. Len(heap)
  BY ItemFacts
<1>2. GoodHeap(f, S) /\ Len(f) = d /\ f[d].site = "item" /\ SitesKept(heap, f)
  BY <1>1, NewFits DEF NewContainer
<1>3. d \in (1 .. d) \ Protected
  BY <1>1
<1> HIDE DEF f, S
<1>4. GoodHeap(g, S) /\ SameKinds(f, g)
  <2>1. d \in (1 .. Len(f)) \ Protected
    BY <1>2, <1>3
  <2> QED
    BY <1>2, <2>1, SetConstantFits
<1> HIDE DEF g
<1>5. Len(g) = d /\ SitesKept(heap, g) /\ g[d].site = "item"
  BY <1>1, <1>2, <1>3, <1>4 DEF SameKinds, SitesKept
<1> QED
  BY <1>3, <1>4, <1>5 DEF S, f, g

LEMMA ItemReturns ==
  ASSUME IInv, At("item", "enter"), Return(Len(heap) + 1), NEW S, GoodHeap(heap', S),
         Rest \union {Len(heap) + 1} \subseteq S, heap'[Len(heap) + 1].site = "item",
         LeftKnown(heap', S, Rest \union {Len(heap) + 1})
  PROVE  IInv'
<1> DEFINE d == Len(heap) + 1
<1>1. stack # <<>> /\ Top.fn = "item" /\ Len(heap) \in Nat
  BY ItemFacts
<1>2. Len(heap') \in Nat /\ S \subseteq 1 .. Len(heap')
  BY FitsLength
<1>3. d # 0 /\ d \in d .. Len(heap')
  BY <1>1, <1>2
<1>4. <<Top.fn, heap'[d].site>> \in Results
  BY <1>1 DEF Results
<1>5. d \in Hand \union (d .. Len(heap'))
  BY <1>3
<1> QED
  BY <1>1, <1>3, <1>4, <1>5, Returns


LEMMA ItemScalarKeeps ==
  ASSUME IInv, ItemScalar
  PROVE  IInv'
<1> DEFINE d == Len(heap) + 1
           g == Set(NewContainer(heap, "item"), d, Constant("data.type", Top.arg.type))
           S == Rest \union {d}
<1>1. At("item", "enter") /\ Return(d)
  BY DEF ItemScalar
<1>2. GoodHeap(g, S) /\ Len(g) = d /\ g[d].site = "item" /\ d \in (1 .. d) \ Protected
  BY <1>1, NamedItemFits
<1>3. ~Clean /\ d \in 1 .. Len(g)
  BY <1>1, <1>2, ItemFacts
<1> HIDE DEF S
<1>4. GoodHeap(heap', S) /\ heap'[d].site = "item"
  <2>1. CASE Top.arg.type = "true"
    <3>1. heap' = Set(g, d, Constant("data.value", "true"))
      BY <2>1 DEF ItemScalar
    <3> HIDE DEF d, g
    <3>2. GoodHeap(heap', S) /\ SameKinds(g, heap')
      BY <1>2, <3>1, SetConstantFits
    <3> QED
      BY <1>2, <1>3, <3>2 DEF SameKinds
  <2>2. CASE Top.arg.type # "true"
    <3>1. heap' = SetNumber(g, d, "data.value", Top.arg.lit)
      BY <2>2 DEF ItemScalar
    <3> HIDE DEF d, g
    <3>2. GoodHeap(heap', S) /\ SitesKept(g, heap')
      BY <1>2, <1>3, <3>1, NumberFits
    <3> QED
      BY <1>2, <1>3, <3>2 DEF SitesKept
  <2> QED
    BY <2>1, <2>2
<1> QED
  BY <1>1, <1>4, NothingLeft, ItemReturns DEF S

LEMMA ItemDataKeeps ==
  ASSUME IInv, ItemData
  PROVE  IInv'
<1> DEFINE d == Len(heap) + 1
           g == Set(NewContainer(heap, "item"), d, Constant("data.type", Top.arg.type))
           f == IF Top.arg.type = "array" THEN SetNumber(g, d, "data.type", "number") ELSE g
           c == Len(f) + 1
           e == New(f, "data", Top.arg.lit)
           S == Rest \union {d}
           T == S \union {c}
<1>1. /\ At("item", "enter") /\ Return(d) /\ heap' = Set(e, d, Item("data.value", c))
  BY DEF ItemData
<1>2. GoodHeap(g, S) /\ Len(g) = d /\ g[d].site = "item" /\ d \in (1 .. d) \ Protected
  BY <1>1, NamedItemFits
<1>3. ~Clean /\ d \in 1 .. Len(g) /\ "data" \in KnownLeaks
  BY <1>1, <1>2, ItemFacts
<1> HIDE DEF S
<1>4. GoodHeap(f, S) /\ f[d].site = "item" /\ Len(f) >= d
  <2>1. CASE Top.arg.type = "array"
    <3>1. f = SetNumber(g, d, "data.type", "number")
      BY <2>1
    <3> HIDE DEF f, g
    <3>2. GoodHeap(f, S) /\ SitesKept(g, f) /\ Len(f) = Len(g) + 1
      <4> HIDE DEF d
      <4> QED
        BY <1>2, <1>3, <3>1, NumberFits
    <3> QED
      BY <1>2, <1>3, <3>2 DEF SitesKept
  <2>2. CASE Top.arg.type # "array"
    BY <1>2, <2>2
  <2> QED
    BY <2>1, <2>2
<1> HIDE DEF f, g
<1>5. Len(f) \in Nat /\ S \subseteq 1 .. Len(f)
  BY <1>4, FitsLength
<1>6. GoodHeap(e, T) /\ Len(e) = c /\ e[c].site = "data" /\ SitesKept(f, e)
  BY <1>3, <1>4, NewFits
<1>7. /\ d \in (1 .. c) \ Protected /\ e[d].site = "item" /\ c \in 1 .. c /\ c \in T
  BY <1>2, <1>4, <1>5, <1>6 DEF SitesKept
<1> HIDE DEF T, c, e, d
<1>8. GoodHeap(heap', T) /\ SameKinds(e, heap')
  BY <1>1, <1>3, <1>6, <1>7, SetItemFits DEF Below
<1>9. heap'[d].site = "item" /\ heap'[c].site = "data"
  BY <1>6, <1>7, <1>8 DEF SameKinds
<1>10. LeftKnown(heap', T, S) /\ S \subseteq T
  BY <1>3, <1>9 DEF LeftKnown, T
<1> QED
  BY <1>1, <1>8, <1>9, <1>10, ItemReturns DEF S, d

LEMMA ItemArrayKeeps ==
  ASSUME IInv, ItemArray
  PROVE  IInv'
<1> DEFINE d == Len(heap) + 1
           g == Set(NewContainer(heap, "item"), d, Constant("data.type", "array"))
           a == Len(heap) + 2
           fr == [Top EXCEPT !.obj = d, !.arr = Len(heap'), !.pc = "array"]
           T == Rest \union {d}
           S == Rest \union {d, a}
<1>1. At("item", "enter") /\ Goto(fr) /\ heap' = NewContainer(g, "arr")
  BY DEF ItemArray
<1>2. GoodHeap(g, T) /\ Len(g) = d /\ g[d].site = "item"
  BY <1>1, NamedItemFits
<1>3. /\ stack # <<>> /\ Top.fn = "item" /\ FrameOK(heap, Top) /\ RecordOK(Top)
      /\ ~Clean /\ VariablesAre(Top, 0, 0, 0, 0, 0) /\ Len(heap) \in Nat
  BY <1>1, ItemFacts
<1> HIDE DEF g
<1>4. GoodHeap(heap', S) /\ Len(heap') = a /\ heap'[d].site = "item" /\ heap'[a].site = "arr"
  <2> DEFINE c == Len(g) + 1
  <2> HIDE DEF T
  <2>1. GoodHeap(heap', T \union {c}) /\ Len(heap') = c /\ heap'[c].site = "arr" /\ SitesKept(g, heap')
    BY <1>1, <1>2, <1>3, NewFits, ZenonT(30) DEF NewContainer
  <2>2. c = a /\ T \union {c} = S /\ d \in 1 .. Len(g)
    BY <1>2, <1>3 DEF T
  <2> HIDE DEF c, d, a, S
  <2> QED
    BY <1>2, <2>1, <2>2 DEF SitesKept
<1>5. FrameIs(fr, "item", "array", Top.arg) /\ VariablesAre(fr, d, a, 0, 0, 0)
  BY <1>3, <1>4 DEF FrameIs, FrameOK, VariablesAre, Variables
<1>6. d # 0 /\ a # 0 /\ d # a /\ d \in d .. a /\ a \in d .. a /\ d \in 1 .. a /\ a \in 1 .. a
  BY <1>3
<1> HIDE DEF fr, d, a
<1>7. Distinct(fr) /\ Locals(fr) = {d, a}
  BY <1>5, <1>6, DistinctIf
<1>8. FrameOK(heap', fr) /\ RecordOK(fr)
  BY <1>3, <1>4, <1>5, <1>6 DEF FrameOK, RecordOK, FrameIs, VariablesAre, Kinds, IsKind, In
<1>9. FrameStep(fr, S)
  BY <1>3, <1>4, <1>5, <1>6, <1>7, <1>8 DEF FrameStep, FrameIs, d
<1> QED
  BY <1>1, <1>3, <1>9, GotoStep

LEMMA ItemElementKeeps ==
  ASSUME IInv, ItemElement
  PROVE  IInv'
<1> DEFINE fr == [Top EXCEPT !.pc = "element"]
           arg == Rec.mark.items[Top.arg.elems[Top.i + 1]]
           L == Locals(Top)
           S == Rest \union L
<1>1. At("item", "array") /\ heap' = heap /\ Call(fr, "item", arg)
  BY DEF ItemElement
<1>2. /\ stack # <<>> /\ ret = <<>> /\ Top.fn = "item" /\ Top.pc = "array"
      /\ FrameOK(heap, Top) /\ RecordOK(Top) /\ Hand = L /\ Distinct(Top)
      /\ GoodHeap(heap, S)
  BY <1>1, AtFacts, ConvertFacts, TopDistinct
<1>3. /\ FrameIs(fr, "item", "element", Top.arg)
      /\ VariablesAre(fr, Top.obj, Top.arr, Top.sub, Top.subarr, Top.tmp)
  BY <1>2 DEF FrameIs, FrameOK, VariablesAre, Variables
<1> HIDE DEF fr
<1>4. Locals(fr) = L /\ Distinct(fr)
  BY <1>2, <1>3, SameVariables
<1>5. FrameOK(heap', fr)
  BY <1>1, <1>2, <1>3 DEF FrameOK, FrameIs, VariablesAre, Kinds, IsKind, In
<1>6. RecordOK(fr) /\ Leaky(Rec)
  BY <1>2, <1>3 DEF RecordOK, FrameIs, In
<1> HIDE DEF L
<1>7. FrameStep(fr, S)
  BY <1>1, <1>2, <1>3, <1>4, <1>5, <1>6 DEF FrameStep, FrameIs
<1> DEFINE callee == Frame("item", arg)
<1>8. /\ callee.fn = "item" /\ callee.pc = "enter"
      /\ FrameOK(heap', callee) /\ Locals(callee) = {}
  BY NewFrame
<1> HIDE DEF callee
<1>9. RecordOK(callee) /\ CallOK(fr, callee)
  BY <1>3, <1>6, <1>8 DEF RecordOK, CallOK, Waits, In, FrameIs
<1>10. Callee(fr, callee)
  BY <1>8, <1>9 DEF Callee
<1> QED
  BY <1>1, <1>2, <1>7, <1>10, CallStep DEF callee

LEMMA ItemElementDoneKeeps ==
  ASSUME IInv, ItemElementDone
  PROVE  IInv'
<1> DEFINE a == Top.arr
           fr == [Top EXCEPT !.i = @ + 1, !.pc = "array"]
           L == Locals(Top)
           S == Rest \union L \union {Ret}
<1>1. Back("item", "element") /\ heap' = Add(heap, a, Item(NoText, Ret)) /\ Goto(fr)
  BY DEF ItemElementDone, Element
<1>2. /\ stack # <<>> /\ Top.fn = "item" /\ Top.pc = "element"
      /\ Hand = L \union {Ret} /\ Ret \in 1 .. Len(heap)
      /\ L \intersect Protected = {} /\ Len(heap) \in Nat
      /\ GoodHeap(heap, S) /\ FrameOK(heap, Top) /\ RecordOK(Top) /\ Distinct(Top)
  BY <1>1, BackFacts, ConvertFacts, TopDistinct
<1>3. \E r \in Results : Waits(Top, r[1]) /\ heap[Ret].site = r[2]
  BY <1>1, BackFacts
<1>4. heap[Ret].site = "item"
  BY <1>2, <1>3 DEF Results, Waits, In
<1>5. ~Clean /\ "item" \in KnownLeaks
  BY <1>2, ConvertFacts DEF RecordOK
<1>6. /\ FrameIs(fr, "item", "array", Top.arg)
      /\ VariablesAre(fr, Top.obj, a, Top.sub, Top.subarr, Top.tmp)
  BY <1>2 DEF FrameIs, FrameOK, VariablesAre, Variables
<1> HIDE DEF fr
<1>7. Locals(fr) = L /\ Distinct(fr)
  BY <1>2, <1>6, SameVariables
<1>8. a \in 1 .. Len(heap) /\ a # 0
  BY <1>2 DEF FrameOK, Kinds, IsKind, In
<1>9. a \in L
  BY <1>8, LocalsAre
<1> HIDE DEF L, S
<1>10. GoodHeap(heap', S) /\ SameKinds(heap, heap')
  <2>1. a \in (1 .. Len(heap)) \ Protected /\ Ret \in S /\ Below(heap, a, Ret)
    BY <1>2, <1>5, <1>8, <1>9 DEF Below, S
  <2> QED
    BY <1>1, <1>2, <2>1, AddItemFits
<1>11. heap'[Ret].site = "item" /\ Preserved(heap')
  BY <1>2, <1>4, <1>10 DEF SameKinds, GoodHeap
<1>12. FrameOK(heap', fr)
  <2>1. FrameOK(heap', Top)
    BY <1>2, <1>11, FrameKept
  <2> QED
    BY <1>2, <1>6, <2>1 DEF FrameOK, FrameIs, VariablesAre, Kinds, IsKind, In
<1>13. RecordOK(fr)
  BY <1>2, <1>6 DEF RecordOK, FrameIs, In
<1>14. FrameStep(fr, S)
  BY <1>2, <1>5, <1>6, <1>7, <1>10, <1>11, <1>12, <1>13 DEF FrameStep, FrameIs, S
<1> QED
  BY <1>1, <1>2, <1>14, GotoStep

LEMMA ItemArrayDoneKeeps ==
  ASSUME IInv, ItemArrayDone
  PROVE  IInv'
<1> DEFINE d == Top.obj
           a == Top.arr
           S == Rest \union {d}
           T == S \union {a}
<1>1. At("item", "array") /\ heap' = Set(heap, d, Item("data.value", a)) /\ Return(d)
  BY DEF ItemArrayDone
<1>2. /\ stack # <<>> /\ Top.fn = "item" /\ Top.pc = "array" /\ Len(heap) \in Nat
      /\ Hand = Locals(Top) /\ Locals(Top) \intersect Protected = {}
      /\ GoodHeap(heap, Rest \union Locals(Top)) /\ FrameOK(heap, Top) /\ RecordOK(Top)
  BY <1>1, AtFacts, ConvertFacts
<1>3. ~Clean /\ "arr" \in KnownLeaks
  BY <1>2, ConvertFacts DEF RecordOK
<1>4. /\ d \in 1 .. Len(heap) /\ heap[d].site = "item" /\ a \in 1 .. Len(heap)
      /\ heap[a].site = "arr" /\ Top.sub = 0 /\ Top.subarr = 0 /\ Top.tmp = 0
  BY <1>2 DEF FrameOK, Kinds, IsKind, In
<1>5. Locals(Top) = {d, a} /\ d # 0
  BY <1>2, <1>4, LocalsAre
<1>6. d \in (1 .. Len(heap)) \ Protected /\ a \in T /\ GoodHeap(heap, T) /\ d \in Hand
  BY <1>2, <1>4, <1>5
<1> HIDE DEF S, T, d, a
<1>7. GoodHeap(heap', T) /\ SameKinds(heap, heap')
  BY <1>1, <1>3, <1>6, SetItemFits DEF Below
<1>8. heap'[d].site = "item" /\ heap'[a].site = "arr"
  BY <1>4, <1>7 DEF SameKinds
<1>9. LeftKnown(heap', T, S) /\ S \subseteq T
  BY <1>3, <1>8 DEF LeftKnown, T
<1>10. <<Top.fn, heap'[d].site>> \in Results
  BY <1>2, <1>8 DEF Results
<1> QED
  BY <1>1, <1>2, <1>5, <1>6, <1>7, <1>9, <1>10, Returns DEF S


-----------------------------------------------------------------------------
(* The steps for an alias.                                                 *)

LEMMA AliasParses ==
  ASSUME IInv, stack # <<>>, Top.fn = "alias", Top.pc # "enter"
  PROVE  Top.arg.parses
<1> DEFINE len == Len(stack)
<1>1. len \in Nat /\ len \in 1 .. len /\ Top = stack[len]
  BY StackFacts DEF IInv, Top
<1>2. len # 1
  BY <1>1 DEF IInv, StackOK
<1>3. len - 1 \in 1 .. len - 1 /\ (len - 1) + 1 = len
  <2> HIDE DEF len
  <2> QED
    BY <1>1, <1>2
<1>4. CallOK(stack[len - 1], stack[len])
  BY <1>3 DEF IInv, StackOK
<1> QED
  BY <1>1, <1>4 DEF CallOK

LEMMA AliasEnterKeeps ==
  ASSUME IInv, AliasEnter
  PROVE  IInv'
<1> DEFINE d == Len(heap) + 1
           a == Len(heap) + 3
           fr == [Top EXCEPT !.obj = d, !.arr = Len(heap'), !.pc = "metadata"]
           S == Rest \union {d, a}
<1>1. /\ At("alias", "enter") /\ Goto(fr) /\ Top.arg.parses
      /\ heap' = NewContainer(SetNumber(NewContainer(heap, "pict"), d, "fields", Top.arg.lit),
                              "metadataItems")
  BY DEF AliasEnter
<1>2. /\ stack # <<>> /\ Top.fn = "alias" /\ FrameOK(heap, Top) /\ RecordOK(Top)
      /\ Len(heap) \in Nat /\ VariablesAre(Top, 0, 0, 0, 0, 0) /\ GoodHeap(heap, Rest)
  BY <1>1, AtFacts, ConvertFacts, EnterFacts DEF VariablesAre
<1>3. ~Clean
  BY <1>2, ConvertFacts DEF RecordOK
<1>4. /\ GoodHeap(heap', S) /\ Len(heap') = a /\ heap'[d].site = "pict"
      /\ heap'[a].site = "metadataItems"
  BY <1>1, <1>2, <1>3, PairFits
<1>5. FrameIs(fr, "alias", "metadata", Top.arg) /\ VariablesAre(fr, d, a, 0, 0, 0)
  BY <1>2, <1>4 DEF FrameIs, FrameOK, VariablesAre, Variables
<1>6. d # 0 /\ a # 0 /\ d # a /\ d \in d .. a /\ a \in d .. a /\ d \in 1 .. a /\ a \in 1 .. a
  BY <1>2
<1> HIDE DEF fr, d, a
<1>7. Distinct(fr) /\ Locals(fr) = {d, a}
  BY <1>5, <1>6, DistinctIf
<1>8. FrameOK(heap', fr) /\ RecordOK(fr)
  BY <1>2, <1>4, <1>5, <1>6 DEF FrameOK, RecordOK, FrameIs, VariablesAre, Kinds, IsKind, In
<1>9. FrameStep(fr, S)
  BY <1>1, <1>2, <1>4, <1>5, <1>6, <1>7, <1>8 DEF FrameStep, FrameIs, d
<1> QED
  BY <1>1, <1>2, <1>9, GotoStep

(* While the entries are gone through.                                     *)
LEMMA MetaFacts ==
  ASSUME IInv, stack # <<>>, Top.fn = "alias", Top.pc \in {"metadata", "nested", "cnids"},
         Locals(Top) \intersect Protected = {}
  PROVE  /\ FrameOK(heap, Top) /\ RecordOK(Top) /\ Top.arg.parses /\ Leaky(Rec) /\ ~Clean
         /\ {"metadataItems", "cnids", "alias_t"} \subseteq KnownLeaks
         /\ Top.obj \in (1 .. Len(heap)) \ Protected /\ heap[Top.obj].site = "pict"
         /\ Top.arr \in (1 .. Len(heap)) \ Protected /\ heap[Top.arr].site = "metadataItems"
         /\ Top.obj # 0 /\ Top.arr # 0 /\ Top.obj # Top.arr /\ Top.tmp = 0
         /\ {Top.obj, Top.arr} \subseteq Locals(Top)
<1>1. FrameOK(heap, Top) /\ RecordOK(Top) /\ Top.arg.parses
  BY ConvertFacts, AliasParses
<1>2. Leaky(Rec)
  BY <1>1 DEF RecordOK
<1>3. ~Clean /\ {"metadataItems", "cnids", "alias_t"} \subseteq KnownLeaks
  BY <1>2, ConvertFacts
<1>4. /\ Top.obj \in 1 .. Len(heap) /\ heap[Top.obj].site = "pict"
      /\ Top.arr \in 1 .. Len(heap) /\ heap[Top.arr].site = "metadataItems" /\ Top.tmp = 0
  BY <1>1 DEF FrameOK, Kinds, IsKind, In
<1>5. Top.obj # 0 /\ Top.arr # 0 /\ Top.obj # Top.arr
  BY <1>4
<1>6. {Top.obj, Top.arr} \subseteq Locals(Top)
  BY <1>5, LocalsAre
<1> QED
  BY <1>1, <1>2, <1>3, <1>4, <1>5, <1>6

LEMMA NextMetaStep ==
  ASSUME IInv, stack # <<>>, Top.fn = "alias", Top.pc \in {"metadata", "nested", "cnids"},
         Locals(Top) \intersect Protected = {}, Locals(Top) \subseteq Hand,
         NextMeta, GoodHeap(heap', Rest \union {Top.obj, Top.arr})
  PROVE  IInv'
<1> DEFINE d == Top.obj
           a == Top.arr
           fr == [Top EXCEPT !.i = @ + 1, !.sub = 0, !.subarr = 0, !.pc = "metadata"]
           S == Rest \union {d, a}
<1>1. /\ FrameOK(heap, Top) /\ RecordOK(Top) /\ Top.arg.parses
      /\ d \in 1 .. Len(heap) /\ heap[d].site = "pict" /\ d \in Locals(Top)
      /\ a \in 1 .. Len(heap) /\ heap[a].site = "metadataItems" /\ a \in Locals(Top)
      /\ d # 0 /\ a # 0 /\ d # a /\ Top.tmp = 0
  BY MetaFacts
<1>2. FrameIs(fr, "alias", "metadata", Top.arg) /\ VariablesAre(fr, d, a, 0, 0, 0)
  BY <1>1 DEF FrameIs, FrameOK, VariablesAre, Variables
<1>3. Goto(fr)
  BY DEF NextMeta
<1> HIDE DEF fr, d, a
<1>4. Distinct(fr) /\ Locals(fr) = {d, a}
  BY <1>1, <1>2, DistinctIf
<1>5. GoodHeap(heap', S)
  BY DEF d, a
<1>6. /\ d \in 1 .. Len(heap') /\ heap'[d].site = "pict"
      /\ a \in 1 .. Len(heap') /\ heap'[a].site = "metadataItems"
  BY <1>1, <1>5, FitsLength DEF GoodHeap, Preserved
<1>7. FrameOK(heap', fr) /\ RecordOK(fr)
  BY <1>1, <1>2, <1>6 DEF FrameOK, RecordOK, FrameIs, VariablesAre, Kinds, IsKind, In
<1>8. FrameStep(fr, S)
  BY <1>1, <1>2, <1>4, <1>5, <1>7 DEF FrameStep, FrameIs
<1> QED
  BY <1>3, <1>8, GotoStep


(* The dictionary of an entry, and its end.                                *)
LEMMA NewMetaFits ==
  ASSUME NEW h, NEW S, GoodHeap(h, S), ~Clean
  PROVE  LET g == NewMeta(h)
             d == Len(h) + 1
         IN  /\ GoodHeap(g, S \union {d}) /\ Len(g) = Len(h) + 2 /\ g[d].site = "meta"
             /\ SitesKept(h, g) /\ d \in (1 .. Len(g)) \ Protected
<1>1. /\ Len(h) \in Nat /\ Len(heap) \in Nat /\ Len(heap) <= Len(h)
      /\ Protected \subseteq 1 .. Len(heap)
  BY FitsLength
<1> DEFINE lit == Meta.tag
           g == SetNumber(NewContainer(h, "meta"), Len(h) + 1, "tag", lit)
           d == Len(h) + 1
<1> HIDE DEF lit
<1>2. /\ GoodHeap(g, S \union {d}) /\ Len(g) = Len(h) + 2 /\ g[d].site = "meta"
      /\ SitesKept(h, g)
  BY OpenFits
<1>3. NewMeta(h) = g
  BY DEF NewMeta, lit
<1> HIDE DEF g
<1> QED
  BY <1>1, <1>2, <1>3

LEMMA CloseMetaFits ==
  ASSUME NEW h, NEW S, GoodHeap(h, S), ~Clean, NEW d \in S,
         Top.arr \in (1 .. Len(h)) \ Protected
  PROVE  LET g == CloseMeta(h, d) IN GoodHeap(g, S \ {d}) /\ SameKinds(h, g)
<1>1. Below(h, Top.arr, d)
  BY DEF Below
<1>2. CloseMeta(h, d) = CFRelease(Add(h, Top.arr, Item(NoText, d)), d)
  BY DEF CloseMeta, Element
<1> QED
  BY <1>1, <1>2, MoveFits, SMTT(30)

LEMMA MetadataFacts ==
  ASSUME IInv, At("alias", "metadata")
  PROVE  /\ stack # <<>> /\ ret = <<>> /\ Top.fn = "alias" /\ Top.pc = "metadata"
         /\ Locals(Top) = {Top.obj, Top.arr} /\ Locals(Top) \intersect Protected = {}
         /\ Hand = Locals(Top) /\ Top.sub = 0 /\ Top.subarr = 0
         /\ GoodHeap(heap, Rest \union {Top.obj, Top.arr})
         /\ Len(heap) \in Nat /\ Rest \union {Top.obj, Top.arr} \subseteq 1 .. Len(heap)
<1>1. /\ stack # <<>> /\ ret = <<>> /\ Top.fn = "alias" /\ Top.pc = "metadata"
      /\ Locals(Top) \intersect Protected = {} /\ Hand = Locals(Top)
      /\ GoodHeap(heap, Rest \union Locals(Top)) /\ Len(heap) \in Nat
      /\ Rest \subseteq 1 .. Len(heap) /\ Locals(Top) \subseteq 1 .. Len(heap)
  BY AtFacts
<1>2. FrameOK(heap, Top) /\ Top.obj # 0 /\ Top.arr # 0 /\ Top.tmp = 0
  BY <1>1, MetaFacts
<1>3. Top.sub = 0 /\ Top.subarr = 0
  BY <1>1, <1>2 DEF FrameOK, Kinds, IsKind, In
<1>4. Locals(Top) = {Top.obj, Top.arr}
  BY <1>2, <1>3, LocalsAre
<1> QED
  BY <1>1, <1>3, <1>4

LEMMA AliasValueKeeps ==
  ASSUME IInv, AliasValue
  PROVE  IInv'
<1> DEFINE d == Len(heap) + 1
           g == NewMeta(heap)
           S == Rest \union {Top.obj, Top.arr}
           T == S \union {d}
<1>1. At("alias", "metadata") /\ NextMeta
  BY DEF AliasValue, AtMeta
<1>2. PICK v : heap' = CloseMeta(SetNumber(g, d, "value", v), d)
  BY DEF AliasValue
<1>3. /\ stack # <<>> /\ Top.fn = "alias" /\ Top.pc = "metadata"
      /\ Locals(Top) \intersect Protected = {} /\ Locals(Top) \subseteq Hand
      /\ GoodHeap(heap, S) /\ Len(heap) \in Nat /\ S \subseteq 1 .. Len(heap)
  BY <1>1, MetadataFacts
<1>4. ~Clean /\ Top.arr \in (1 .. Len(heap)) \ Protected
  BY <1>3, MetaFacts
<1>5. GoodHeap(g, T) /\ Len(g) = Len(heap) + 2 /\ d \in (1 .. Len(g)) \ Protected
  <2> HIDE DEF S
  <2> QED
    BY <1>3, <1>4, NewMetaFits
<1>6. T \ {d} = S /\ d \in T
  BY <1>3, SMTT(30)
<1> DEFINE f == SetNumber(g, d, "value", v)
<1> HIDE DEF g, T, d
<1>7. GoodHeap(f, T) /\ Len(f) = Len(g) + 1
  BY <1>4, <1>5, NumberFits
<1>8. Top.arr \in (1 .. Len(f)) \ Protected
  BY <1>3, <1>4, <1>5, <1>7
<1> HIDE DEF f
<1>9. heap' = CloseMeta(f, d)
  BY <1>2 DEF f
<1>10. GoodHeap(heap', S)
  <2>1. GoodHeap(heap', T \ {d})
    BY <1>4, <1>6, <1>7, <1>8, <1>9, CloseMetaFits
  <2> QED
    BY <1>6, <2>1
<1> QED
  BY <1>1, <1>3, <1>10, NextMetaStep


LEMMA AliasCnidsKeeps ==
  ASSUME IInv, AliasCnids
  PROVE  IInv'
<1> DEFINE d == Len(heap) + 1
           b == Len(heap) + 3
           g == NewMeta(heap)
           fr == [Top EXCEPT !.sub = d, !.subarr = Len(heap'), !.j = 0, !.pc = "cnids"]
           L == Rest \union {Top.obj, Top.arr}
           T == L \union {d}
           S == T \union {b}
<1>1. At("alias", "metadata") /\ Goto(fr) /\ heap' = NewContainer(g, "cnids")
  BY DEF AliasCnids, AtMeta
<1>2. /\ stack # <<>> /\ Top.fn = "alias" /\ Top.pc = "metadata"
      /\ Locals(Top) = {Top.obj, Top.arr} /\ Hand = Locals(Top)
      /\ GoodHeap(heap, L) /\ Len(heap) \in Nat /\ L \subseteq 1 .. Len(heap)
      /\ Locals(Top) \intersect Protected = {}
  BY <1>1, MetadataFacts
<1>3. /\ FrameOK(heap, Top) /\ RecordOK(Top) /\ Top.arg.parses /\ ~Clean
      /\ Top.obj \in 1 .. Len(heap) /\ heap[Top.obj].site = "pict"
      /\ Top.arr \in 1 .. Len(heap) /\ heap[Top.arr].site = "metadataItems"
      /\ Top.obj # 0 /\ Top.arr # 0 /\ Top.obj # Top.arr /\ Top.tmp = 0
  BY <1>2, MetaFacts
<1>4. GoodHeap(g, T) /\ Len(g) = Len(heap) + 2 /\ g[d].site = "meta" /\ SitesKept(heap, g)
  <2> HIDE DEF L
  <2> QED
    BY <1>2, <1>3, NewMetaFits
<1> HIDE DEF g
<1>5. /\ GoodHeap(heap', S) /\ Len(heap') = b /\ heap'[b].site = "cnids" /\ SitesKept(g, heap')
  <2> DEFINE c == Len(g) + 1
  <2> HIDE DEF T
  <2>1. heap' = New(g, "cnids", NoText) /\ GoodHeap(g, T) /\ ~Clean
    BY <1>1, <1>3, <1>4 DEF NewContainer
  <2>2. GoodHeap(heap', T \union {c}) /\ Len(heap') = c /\ heap'[c].site = "cnids"
    BY <2>1, NewFits
  <2>3. SitesKept(g, heap')
    BY <2>1, NewFits
  <2>4. c = b
    BY <1>2, <1>4
  <2> QED
    BY <2>2, <2>3, <2>4
<1>6. /\ d # 0 /\ b # 0 /\ d # b /\ d \in d .. b /\ b \in d .. b /\ d \in 1 .. b /\ b \in 1 .. b
      /\ \A o \in 1 .. Len(heap) : o # d /\ o # b /\ o \in 1 .. b
  BY <1>2
<1>7. heap'[d].site = "meta" /\ heap'[Top.obj].site = "pict" /\ heap'[Top.arr].site = "metadataItems"
  BY <1>2, <1>3, <1>4, <1>5 DEF SitesKept
<1>8. FrameIs(fr, "alias", "cnids", Top.arg) /\ VariablesAre(fr, Top.obj, Top.arr, d, b, 0)
  BY <1>2, <1>3, <1>5 DEF FrameIs, FrameOK, VariablesAre, Variables
<1> HIDE DEF fr, d, b
<1>9. Distinct(fr) /\ Locals(fr) = {Top.obj, Top.arr, d, b}
  BY <1>3, <1>6, <1>8, DistinctIf
<1>10. FrameOK(heap', fr) /\ RecordOK(fr)
  BY <1>3, <1>5, <1>6, <1>7, <1>8 DEF FrameOK, RecordOK, FrameIs, VariablesAre, Kinds, IsKind, In
<1>11. FrameStep(fr, S)
  BY <1>2, <1>3, <1>5, <1>6, <1>8, <1>9, <1>10 DEF FrameStep, FrameIs, d
<1> QED
  BY <1>1, <1>2, <1>11, GotoStep

LEMMA CnidsFacts ==
  ASSUME IInv, At("alias", "cnids")
  PROVE  /\ stack # <<>> /\ ret = <<>> /\ Top.fn = "alias" /\ Top.pc = "cnids"
         /\ FrameOK(heap, Top) /\ RecordOK(Top) /\ Top.arg.parses /\ ~Clean
         /\ Locals(Top) = {Top.obj, Top.arr, Top.sub, Top.subarr}
         /\ Locals(Top) \intersect Protected = {} /\ Hand = Locals(Top)
         /\ Top.sub \in (1 .. Len(heap)) \ Protected /\ heap[Top.sub].site = "meta"
         /\ Top.subarr \in (1 .. Len(heap)) \ Protected /\ heap[Top.subarr].site = "cnids"
         /\ Top.sub \notin Rest \union {Top.obj, Top.arr} /\ Top.sub # Top.subarr
         /\ GoodHeap(heap, Rest \union Locals(Top)) /\ Len(heap) \in Nat
<1>1. /\ stack # <<>> /\ ret = <<>> /\ Top.fn = "alias" /\ Top.pc = "cnids"
      /\ Locals(Top) \intersect Protected = {} /\ Hand = Locals(Top)
      /\ Rest \intersect Locals(Top) = {}
      /\ GoodHeap(heap, Rest \union Locals(Top)) /\ Len(heap) \in Nat
  BY AtFacts
<1>2. /\ FrameOK(heap, Top) /\ RecordOK(Top) /\ Top.arg.parses /\ ~Clean
      /\ Top.obj # 0 /\ Top.arr # 0 /\ Top.tmp = 0
      /\ heap[Top.obj].site = "pict" /\ heap[Top.arr].site = "metadataItems"
  BY <1>1, MetaFacts
<1>3. /\ Top.sub \in 1 .. Len(heap) /\ heap[Top.sub].site = "meta"
      /\ Top.subarr \in 1 .. Len(heap) /\ heap[Top.subarr].site = "cnids"
  BY <1>1, <1>2 DEF FrameOK, Kinds, IsKind, In
<1>4. Locals(Top) = {Top.obj, Top.arr, Top.sub, Top.subarr}
  BY <1>1, <1>2, <1>3, LocalsAre
<1>5. Top.sub \notin {Top.obj, Top.arr} /\ Top.sub # Top.subarr
  BY <1>2, <1>3
<1> QED
  BY <1>1, <1>2, <1>3, <1>4, <1>5

LEMMA AliasCnidKeeps ==
  ASSUME IInv, AliasCnid
  PROVE  IInv'
<1> DEFINE c == Len(heap) + 1
           g == New(heap, "value", Meta.lit)
           b == Top.subarr
           fr == [Top EXCEPT !.j = @ + 1]
           L == Locals(Top)
           S == Rest \union L
           T == S \union {c}
<1>1. At("alias", "cnids") /\ heap' = CFRelease(Add(g, b, Item(NoText, c)), c) /\ Goto(fr)
  BY DEF AliasCnid, Element
<1>2. /\ stack # <<>> /\ Top.fn = "alias" /\ Top.pc = "cnids" /\ Hand = L
      /\ FrameOK(heap, Top) /\ RecordOK(Top) /\ Top.arg.parses /\ ~Clean
      /\ b \in (1 .. Len(heap)) \ Protected /\ GoodHeap(heap, S) /\ Distinct(Top)
      /\ Len(heap) \in Nat
  BY <1>1, CnidsFacts, TopDistinct
<1>3. S \subseteq 1 .. Len(heap)
  BY <1>2, FitsLength
<1>4. /\ FrameIs(fr, "alias", "cnids", Top.arg)
      /\ VariablesAre(fr, Top.obj, Top.arr, Top.sub, Top.subarr, Top.tmp)
  BY <1>2 DEF FrameIs, FrameOK, VariablesAre, Variables
<1> HIDE DEF fr
<1>5. Locals(fr) = L /\ Distinct(fr)
  BY <1>2, <1>4, SameVariables
<1> HIDE DEF L, S
<1>6. GoodHeap(g, T) /\ Len(g) = c
  BY <1>2, NewFits
<1>7. b \in (1 .. Len(g)) \ Protected /\ Below(g, b, c) /\ c \in T /\ T \ {c} = S
  BY <1>2, <1>3, <1>6 DEF Below
<1> HIDE DEF g, T, c, b
<1>8. GoodHeap(heap', S)
  <2>1. GoodHeap(heap', T \ {c})
    BY <1>1, <1>6, <1>7, MoveFits
  <2> QED
    BY <1>7, <2>1
<1>9. Preserved(heap')
  BY <1>8 DEF GoodHeap
<1>10. FrameOK(heap', fr)
  <2>1. FrameOK(heap', Top)
    BY <1>2, <1>9, FrameKept
  <2> QED
    BY <1>2, <1>4, <2>1 DEF FrameOK, FrameIs, VariablesAre, Kinds, IsKind, In
<1>11. RecordOK(fr)
  BY <1>2, <1>4 DEF RecordOK, FrameIs, In
<1>12. FrameStep(fr, S)
  BY <1>2, <1>4, <1>5, <1>8, <1>10, <1>11 DEF FrameStep, FrameIs, S
<1> QED
  BY <1>1, <1>2, <1>12, GotoStep

LEMMA AliasCnidsDoneKeeps ==
  ASSUME IInv, AliasCnidsDone
  PROVE  IInv'
<1> DEFINE d == Top.sub
           b == Top.subarr
           g == Set(heap, d, Item("value", b))
           S == Rest \union {Top.obj, Top.arr}
           L == Rest \union {Top.obj, Top.arr, d, b}
<1>1. At("alias", "cnids") /\ heap' = CloseMeta(g, d) /\ NextMeta
  BY DEF AliasCnidsDone
<1>2. /\ stack # <<>> /\ Top.fn = "alias" /\ Top.pc = "cnids" /\ ~Clean
      /\ Locals(Top) = {Top.obj, Top.arr, d, b}
      /\ Locals(Top) \intersect Protected = {} /\ Hand = Locals(Top)
      /\ d \in (1 .. Len(heap)) \ Protected /\ b \in 1 .. Len(heap) /\ heap[b].site = "cnids"
      /\ d \notin S /\ d # b
      /\ GoodHeap(heap, Rest \union Locals(Top))
  BY <1>1, CnidsFacts
<1>3. Top.arr \in (1 .. Len(heap)) \ Protected /\ "cnids" \in KnownLeaks
  BY <1>2, MetaFacts
<1>4. GoodHeap(heap, L) /\ d \in L /\ b \in L /\ L \ {d} = S \union {b}
  BY <1>2
<1> HIDE DEF L, S, d, b, g
<1>5. GoodHeap(g, L) /\ SameKinds(heap, g)
  BY <1>2, <1>4, SetItemFits DEF Below, g
<1>6. Top.arr \in (1 .. Len(g)) \ Protected
  BY <1>3, <1>5 DEF SameKinds
<1>7. GoodHeap(heap', L \ {d}) /\ SameKinds(g, heap')
  BY <1>1, <1>2, <1>4, <1>5, <1>6, CloseMetaFits
<1>8. heap'[b].site = "cnids"
  BY <1>2, <1>5, <1>7 DEF SameKinds
<1>9. GoodHeap(heap', S)
  <2> DEFINE T == S \union {b}
  <2>1. S \in SUBSET T /\ \A o \in T \ S : heap'[o].site \in KnownLeaks
    BY <1>3, <1>8
  <2>2. GoodHeap(heap', T)
    BY <1>4, <1>7
  <2> HIDE DEF T
  <2> QED
    BY <2>1, <2>2, DropFits
<1> QED
  BY <1>1, <1>2, <1>9, NextMetaStep DEF S


LEMMA AliasNestedKeeps ==
  ASSUME IInv, AliasNested
  PROVE  IInv'
<1> DEFINE d == Len(heap) + 1
           g == NewMeta(heap)
           arg == Meta.alias
           fr == [Top EXCEPT !.sub = d, !.pc = "nested"]
           L == Rest \union {Top.obj, Top.arr}
           T == L \union {d}
<1>1. At("alias", "metadata") /\ Call(fr, "alias", arg) /\ heap' = AliasOf(g, arg)
  BY DEF AliasNested, AtMeta
<1>2. /\ stack # <<>> /\ ret = <<>> /\ Top.fn = "alias" /\ Top.pc = "metadata"
      /\ Locals(Top) = {Top.obj, Top.arr} /\ Hand = Locals(Top) /\ Top.subarr = 0
      /\ GoodHeap(heap, L) /\ Len(heap) \in Nat /\ L \subseteq 1 .. Len(heap)
      /\ Locals(Top) \intersect Protected = {}
  BY <1>1, MetadataFacts
<1>3. /\ FrameOK(heap, Top) /\ RecordOK(Top) /\ Top.arg.parses /\ Leaky(Rec) /\ ~Clean
      /\ "alias_t" \in KnownLeaks
      /\ Top.obj \in 1 .. Len(heap) /\ heap[Top.obj].site = "pict"
      /\ Top.arr \in 1 .. Len(heap) /\ heap[Top.arr].site = "metadataItems"
      /\ Top.obj # 0 /\ Top.arr # 0 /\ Top.obj # Top.arr /\ Top.tmp = 0
  BY <1>2, MetaFacts
<1>4. GoodHeap(g, T) /\ Len(g) = Len(heap) + 2 /\ g[d].site = "meta" /\ SitesKept(heap, g)
  <2> HIDE DEF L
  <2> QED
    BY <1>2, <1>3, NewMetaFits
<1> HIDE DEF g, T, arg
<1>5. GoodHeap(heap', T) /\ SitesKept(g, heap') /\ Len(heap') \in Nat /\ Len(heap') >= Len(g)
  BY <1>1, <1>3, <1>4, AliasFits
<1>6. /\ d # 0 /\ d \in d .. Len(heap') /\ d \in 1 .. Len(heap')
      /\ \A o \in 1 .. Len(heap) : o # d /\ o \in 1 .. Len(heap')
  BY <1>2, <1>4, <1>5
<1>7. heap'[d].site = "meta" /\ heap'[Top.obj].site = "pict" /\ heap'[Top.arr].site = "metadataItems"
  BY <1>2, <1>3, <1>4, <1>5, SMTT(30) DEF SitesKept
<1>8. FrameIs(fr, "alias", "nested", Top.arg) /\ VariablesAre(fr, Top.obj, Top.arr, d, 0, 0)
  BY <1>2, <1>3 DEF FrameIs, FrameOK, VariablesAre, Variables
<1> HIDE DEF fr, d
<1>9. Distinct(fr) /\ Locals(fr) = {Top.obj, Top.arr, d}
  BY <1>3, <1>6, <1>8, DistinctIf
<1>10. FrameOK(heap', fr) /\ RecordOK(fr)
  BY <1>3, <1>5, <1>6, <1>7, <1>8 DEF FrameOK, RecordOK, FrameIs, VariablesAre, Kinds, IsKind, In
<1>11. FrameStep(fr, T)
  BY <1>2, <1>3, <1>5, <1>6, <1>8, <1>9, <1>10 DEF FrameStep, FrameIs, T, d
<1> DEFINE callee == Frame("alias", arg)
<1>12. /\ callee.fn = "alias" /\ callee.pc = "enter"
       /\ FrameOK(heap', callee) /\ Locals(callee) = {}
  BY NewFrame
<1> HIDE DEF callee
<1>13. RecordOK(callee) /\ CallOK(fr, callee)
  BY <1>3, <1>8, <1>12 DEF RecordOK, CallOK, Waits, In, FrameIs
<1>14. Callee(fr, callee)
  BY <1>12, <1>13 DEF Callee
<1> QED
  BY <1>1, <1>2, <1>11, <1>14, CallStep DEF callee

LEMMA AliasNestedDoneKeeps ==
  ASSUME IInv, AliasNestedDone
  PROVE  IInv'
<1> DEFINE d == Top.sub
           g == CFRelease(Set(heap, d, Item("value", Ret)), Ret)
           S == Rest \union {Top.obj, Top.arr}
           T == S \union {d}
           L == T \union {Ret}
<1>1. Back("alias", "nested") /\ heap' = CloseMeta(g, d) /\ NextMeta
  BY DEF AliasNestedDone
<1>2. /\ stack # <<>> /\ Top.fn = "alias" /\ Top.pc = "nested"
      /\ Hand = Locals(Top) \union {Ret} /\ Ret \notin Rest \union Locals(Top)
      /\ Rest \intersect Locals(Top) = {}
      /\ Locals(Top) \intersect Protected = {}
      /\ GoodHeap(heap, Rest \union Locals(Top) \union {Ret})
  BY <1>1, BackFacts
<1>3. /\ FrameOK(heap, Top) /\ ~Clean /\ Top.obj # 0 /\ Top.arr # 0 /\ Top.tmp = 0
      /\ heap[Top.obj].site = "pict" /\ heap[Top.arr].site = "metadataItems"
      /\ Top.arr \in (1 .. Len(heap)) \ Protected
  BY <1>2, MetaFacts
<1>4. d \in 1 .. Len(heap) /\ heap[d].site = "meta" /\ Top.subarr = 0
  BY <1>2, <1>3 DEF FrameOK, Kinds, IsKind, In
<1>5. d # 0
  BY <1>4
<1>6. Locals(Top) = {Top.obj, Top.arr, d}
  BY <1>3, <1>4, <1>5, LocalsAre
<1>7. /\ d \in (1 .. Len(heap)) \ Protected /\ d \notin S /\ T \ {d} = S /\ d \in T
      /\ GoodHeap(heap, L) /\ Ret \in L /\ L \ {Ret} = T
  BY <1>2, <1>3, <1>4, <1>6
<1> HIDE DEF S, T, L, d, g
<1>8. GoodHeap(g, T) /\ SameKinds(heap, g)
  <2>1. GoodHeap(g, L \ {Ret}) /\ SameKinds(heap, g)
    BY <1>3, <1>7, MoveFits DEF Below, g
  <2> QED
    BY <1>7, <2>1
<1>9. Top.arr \in (1 .. Len(g)) \ Protected
  BY <1>3, <1>8 DEF SameKinds
<1>10. GoodHeap(heap', S)
  <2>1. GoodHeap(heap', T \ {d})
    BY <1>1, <1>3, <1>7, <1>8, <1>9, CloseMetaFits
  <2> QED
    BY <1>7, <2>1
<1>11. Locals(Top) \subseteq Hand
  BY <1>2
<1> QED
  BY <1>1, <1>2, <1>10, <1>11, NextMetaStep DEF S

LEMMA AliasDoneKeeps ==
  ASSUME IInv, AliasDone
  PROVE  IInv'
<1> DEFINE d == Top.obj
           a == Top.arr
           S == Rest \union {d}
           T == Rest \union {d, a}
<1>1. At("alias", "metadata") /\ heap' = Set(heap, d, Item("metadata", a)) /\ Return(d)
  BY DEF AliasDone
<1>2. /\ stack # <<>> /\ Top.fn = "alias" /\ Top.pc = "metadata"
      /\ Hand = {d, a} /\ Locals(Top) \intersect Protected = {} /\ GoodHeap(heap, T)
  BY <1>1, MetadataFacts
<1>3. /\ ~Clean /\ "metadataItems" \in KnownLeaks /\ d # 0
      /\ d \in (1 .. Len(heap)) \ Protected /\ heap[d].site = "pict"
      /\ a \in 1 .. Len(heap) /\ heap[a].site = "metadataItems"
  BY <1>2, MetaFacts
<1>4. a \in T
  OBVIOUS
<1> HIDE DEF S, T, d, a
<1>5. GoodHeap(heap', T) /\ SameKinds(heap, heap')
  BY <1>1, <1>2, <1>3, <1>4, SetItemFits DEF Below
<1>6. heap'[d].site = "pict" /\ heap'[a].site = "metadataItems"
  BY <1>3, <1>5 DEF SameKinds
<1>7. LeftKnown(heap', T, S) /\ S \subseteq T
  BY <1>3, <1>6 DEF LeftKnown, T, S
<1>8. <<Top.fn, heap'[d].site>> \in Results /\ d \in Hand
  BY <1>2, <1>6 DEF Results
<1> QED
  BY <1>1, <1>2, <1>3, <1>5, <1>7, <1>8, Returns DEF S


-----------------------------------------------------------------------------
(* The steps that no function makes.                                       *)

LEMMA QuietStep ==
  ASSUME IInv, UNCHANGED <<stack, ret, caller>>, HeapOK', Preserved(heap'),
         stop' \in {"no", "crash", "overrun", "overflow"}
  PROVE  IInv'
<1>1. stack' = stack /\ ret' = ret /\ UNCHANGED caller /\ step' = step
      /\ plist' = plist /\ records' = records
  BY DEF caller
<1>2. Owned' = Owned
  BY <1>1 DEF Owned, LocalsFrom, Given, Ret
<1>3. OwnersDistinct'
  BY <1>1 DEF IInv, OwnersDistinct, LocalsFrom, Ret
<1>4. StackOK'
  <2>1. \A k \in 1 .. Len(stack) : FrameOK(heap', stack[k])
    BY FrameKept DEF IInv, StackOK
  <2>2. \A fr : RecordOK(fr)' <=> RecordOK(fr)
    BY <1>1, RecordKept
  <2> QED
    BY <1>1, <2>1, <2>2 DEF IInv, StackOK
<1>5. ReturnOK'
  <2>1. Ret' = Ret /\ Top' = Top
    BY <1>1 DEF Ret, Top
  <2>2. Len(heap) \in Nat /\ Len(heap') \in Nat
    BY SequenceDomain DEF IInv, HeapOK, IsHeap
  <2>3. \A o \in 1 .. Len(heap) : o \in 1 .. Len(heap') /\ heap'[o].site = heap[o].site
    BY <2>2 DEF Preserved
  <2> QED
    BY <1>1, <2>1, <2>3 DEF IInv, ReturnOK
<1>6. step = "convert" <=> stack' # <<>> \/ ret' # <<>>
  BY <1>1 DEF IInv, CallerOK
<1> QED
  BY <1>1, <1>2, <1>3, <1>4, <1>5, <1>6, StackStep

LEMMA StopKeeps ==
  ASSUME IInv, UNCHANGED <<heap, stack, ret, caller>>,
         stop' \in {"no", "crash", "overrun", "overflow"}
  PROVE  IInv'
<1>1. UNCHANGED <<heap, stack, ret, caller>>
  OBVIOUS
<1>2. recs' = recs /\ plist' = plist /\ records' = records
  BY <1>1 DEF caller
<1>3. Owned' = Owned
  BY <1>1, <1>2 DEF Owned, LocalsFrom, Given, Ret
<1>4. Leaks' = Leaks /\ KnownLeaks' = KnownLeaks
  BY <1>1, <1>2 DEF Leaks, KnownLeaks
<1>5. HeapOK'
  BY <1>1, <1>3, <1>4 DEF IInv, HeapOK
<1>6. Preserved(heap')
  <2>1. Len(heap) \in Nat
    BY SequenceDomain DEF IInv, HeapOK, IsHeap
  <2> QED
    BY <1>1, <2>1, ProtectedApart DEF Preserved
<1> QED
  BY <1>1, <1>5, <1>6, QuietStep

(* A freed container releases what it holds, which takes as much from the  *)
(* counts as from the references.                                          *)
LEMMA ReleaseItemsObjects ==
  ASSUME NEW h, IsHeap(h), NEW p \in 1 .. Len(h)
  PROVE  LET g == ReleaseItems(h, p)
         IN  /\ IsHeap(g) /\ Len(g) = Len(h)
             /\ \A o \in 1 .. Len(h) :
                  Changed(h[o], g[o], h[o].rc - Cardinality(HeldBy(h, {p}, o)),
                          IF o = p THEN <<>> ELSE h[o].items)
<1> DEFINE new(o) == [h[o] EXCEPT !.rc = @ - Cardinality(HeldBy(h, {p}, o)),
                                  !.items = IF o = p THEN <<>> ELSE @]
           f == [o \in 1 .. Len(h) |-> new(o)]
<1>1. Len(h) \in Nat /\ IsSequence(h)
  BY SequenceDomain DEF IsHeap
<1>2. ASSUME NEW o \in 1 .. Len(h)
      PROVE  /\ DOMAIN h[o] = ObjectFields /\ h[o].rc \in Int /\ IsSequence(h[o].items)
             /\ \A k \in 1 .. Len(h[o].items) : IsItem(h[o].items[k], Len(h))
             /\ Cardinality(HeldBy(h, {p}, o)) \in Nat
  BY HeldFinite DEF IsHeap, IsItem, ObjectFields
<1>3. ASSUME NEW o \in 1 .. Len(h)
      PROVE  Changed(h[o], new(o), h[o].rc - Cardinality(HeldBy(h, {p}, o)),
                     IF o = p THEN <<>> ELSE h[o].items)
  BY <1>2 DEF Changed, ObjectFields
<1>4. IsSequence(f) /\ Len(f) = Len(h) /\ \A o \in 1 .. Len(h) : f[o] = new(o)
  BY <1>1, MapSequence
<1>5. ReleaseItems(h, p) = f
  BY DEF ReleaseItems
<1> HIDE DEF f, new
<1>6. ASSUME NEW o \in 1 .. Len(f)
      PROVE  /\ DOMAIN f[o] = ObjectFields
             /\ f[o].rc \in Int /\ IsSequence(f[o].items)
             /\ \A k \in 1 .. Len(f[o].items) : IsItem(f[o].items[k], Len(f))
  <2>1. /\ DOMAIN f[o] = ObjectFields /\ f[o].rc = h[o].rc - Cardinality(HeldBy(h, {p}, o))
        /\ f[o].items = IF o = p THEN <<>> ELSE h[o].items
    BY <1>3, <1>4 DEF Changed
  <2>2. f[o].rc \in Int
    <3>1. h[o].rc \in Int /\ Cardinality(HeldBy(h, {p}, o)) \in Nat
      BY <1>2, <1>4
    <3> QED
      BY <2>1, <3>1
  <2>3. IsSequence(f[o].items) /\ \A k \in 1 .. Len(f[o].items) : IsItem(f[o].items[k], Len(f))
    <3>1. CASE o = p
      BY <2>1, <3>1, ShortSequences
    <3>2. CASE o # p
      BY <1>2, <1>4, <2>1, <3>2
    <3> QED
      BY <3>1, <3>2
  <2> QED
    BY <2>1, <2>2, <2>3
<1>7. IsHeap(f)
  BY <1>4, <1>6 DEF IsHeap, ObjectFields, IsItem
<1> QED
  BY <1>3, <1>4, <1>5, <1>7


LEMMA FreeItemsKeeps ==
  ASSUME IInv, FreeItems
  PROVE  IInv'
<1>1. PICK p \in Freed(heap) : heap' = ReleaseItems(heap, p)
  BY DEF FreeItems
<1>2. UNCHANGED <<stop, stack, ret, caller>> /\ stop = "no"
  BY DEF FreeItems
<1>3. p \in 1 .. Len(heap) /\ heap[p].rc <= 0
  BY DEF Freed
<1>4. IsHeap(heap) /\ Balanced(heap, Owned, Leaks) /\ Len(heap) \in Nat
  BY SequenceDomain DEF IInv, HeapOK, IsHeap
<1>5. /\ IsHeap(heap') /\ Len(heap') = Len(heap)
      /\ \A o \in 1 .. Len(heap) :
           Changed(heap[o], heap'[o], heap[o].rc - Cardinality(HeldBy(heap, {p}, o)),
                   IF o = p THEN <<>> ELSE heap[o].items)
  BY <1>1, <1>3, <1>4, ReleaseItemsObjects
<1>6. \A o \in 1 .. Len(heap) :
        /\ heap'[o].site = heap[o].site /\ heap'[o].lit = heap[o].lit
        /\ heap'[o].rc = heap[o].rc - Cardinality(HeldBy(heap, {p}, o))
        /\ heap'[o].items = IF o = p THEN <<>> ELSE heap[o].items
  BY <1>5 DEF Changed
<1>7. ASSUME NEW o \in 1 .. Len(heap)
      PROVE  Spare(heap', Owned, o) = Spare(heap, Owned, o)
  <2>1. Refs(heap', o) = Refs(heap, o) \ HeldBy(heap, {p}, o)
    <3>1. ASSUME NEW x
          PROVE  x \in Refs(heap', o) <=> x \in Refs(heap, o) /\ x \notin HeldBy(heap, {p}, o)
      <4>1. x \in HeldBy(heap, {p}, o) <=>
              \E k \in DOMAIN heap[p].items : x = <<p, k>> /\ heap[p].items[k].ref = o
        BY HeldMember
      <4>2. DOMAIN heap'[p].items = {}
        BY <1>3, <1>6
      <4>3. \A q \in 1 .. Len(heap) : q # p => heap'[q].items = heap[q].items
        BY <1>6
      <4> QED
        BY <1>5, <4>1, <4>2, <4>3, RefsMember
    <3> QED
      BY <3>1
  <2>2. HeldBy(heap, {p}, o) \subseteq Refs(heap, o)
    BY <1>3 DEF Refs, HeldBy
  <2>3. IsFiniteSet(Refs(heap, o)) /\ Cardinality(Refs(heap, o)) \in Nat
    BY <1>4, RefsFinite
  <2>4. IsFiniteSet(HeldBy(heap, {p}, o)) /\ Cardinality(HeldBy(heap, {p}, o)) \in Nat
    BY <1>3, <1>4, HeldFinite
  <2>5. Refs(heap, o) \intersect HeldBy(heap, {p}, o) = HeldBy(heap, {p}, o)
    BY <2>2
  <2>6. Cardinality(Refs(heap', o)) = Cardinality(Refs(heap, o)) - Cardinality(HeldBy(heap, {p}, o))
    BY <2>1, <2>3, <2>5, FS_Difference
  <2>7. heap[o].rc \in Int
    BY <1>4 DEF IsHeap
  <2>8. heap'[o].rc = heap[o].rc - Cardinality(HeldBy(heap, {p}, o))
    BY <1>6
  <2>9. heap'[o].rc - Cardinality(Refs(heap', o)) = heap[o].rc - Cardinality(Refs(heap, o))
    BY <2>3, <2>4, <2>6, <2>7, <2>8
  <2> QED
    BY <2>9 DEF Spare
<1>8. /\ recs' = recs /\ plist' = plist /\ records' = records /\ ret' = ret /\ stack' = stack
  BY <1>2 DEF caller
<1>9. Owned' = Owned /\ Leaks' = Leaks /\ KnownLeaks' = KnownLeaks
  BY <1>8 DEF Owned, LocalsFrom, Given, Ret, Leaks, KnownLeaks
<1>10. Balanced(heap', Owned', Leaks')
  BY <1>4, <1>5, <1>6, <1>7, <1>9 DEF Balanced
<1>11. ASSUME KnownLeaks' = {}
       PROVE  Layered(heap')
  <2>1. Layered(heap)
    BY <1>9, <1>11 DEF IInv, HeapOK
  <2>2. \A o \in 1 .. Len(heap) : DOMAIN heap[o].items = 1 .. Len(heap[o].items)
          /\ \A k \in DOMAIN heap[o].items : heap[o].items[k].ref \in 0 .. Len(heap)
    BY <1>4, SequenceDomain DEF IsHeap
  <2>3. \A o \in 1 .. Len(heap) : \A k \in DOMAIN heap'[o].items :
          k \in DOMAIN heap[o].items /\ heap'[o].items[k] = heap[o].items[k]
    BY <1>6
  <2>4. ASSUME NEW o \in 1 .. Len(heap), NEW k \in DOMAIN heap'[o].items, heap'[o].items[k].ref # 0
        PROVE  Level[heap'[heap'[o].items[k].ref].site] > Level[heap'[o].site]
    <3> DEFINE r == heap[o].items[k].ref
    <3>1. k \in DOMAIN heap[o].items /\ heap'[o].items[k].ref = r
      BY <2>3
    <3>2. r \in 1 .. Len(heap)
      BY <1>4, <2>2, <2>4, <3>1
    <3>3. Level[heap[r].site] > Level[heap[o].site]
      BY <2>1, <2>4, <3>1 DEF Layered
    <3> QED
      BY <1>6, <3>1, <3>2, <3>3
  <2> QED
    BY <1>5, <1>6, <2>1, <2>4 DEF Layered
<1>12. HeapOK'
  BY <1>5, <1>10, <1>11 DEF HeapOK
<1>13. p \notin Protected
  <2>1. ASSUME plist # 0
        PROVE  plist \in 1 .. Len(heap) /\ plist # p
    <3>1. plist \in Owned
      BY <2>1 DEF Owned, Nonzero
    <3>2. plist \in 1 .. Len(heap) /\ heap[plist].rc > 0
      BY <1>4, <3>1, OwnedCount
    <3>3. heap[plist].rc \in Int
      BY <1>4, <3>2 DEF IsHeap
    <3> QED
      BY <1>3, <3>2, <3>3
  <2>2. ASSUME plist # 0, NEW k \in 1 .. Len(heap[plist].items), heap[plist].items[k].ref = p
        PROVE  FALSE
    <3>1. k \in DOMAIN heap[plist].items
      BY <1>4, <2>1, <2>2, SequenceDomain DEF IsHeap
    <3>2. <<plist, k>> \in Refs(heap, p)
      BY <2>1, <2>2, <3>1, RefsMember
    <3>3. IsFiniteSet(Refs(heap, p)) /\ Cardinality(Refs(heap, p)) \in Nat
      BY <1>4, RefsFinite
    <3>4. Cardinality(Refs(heap, p)) # 0
      BY <3>2, <3>3, FS_EmptySet
    <3>5. Spare(heap, Owned, p) >= 0 /\ heap[p].rc \in Int
      BY <1>3, <1>4 DEF Balanced, IsHeap
    <3> QED
      BY <1>3, <3>3, <3>4, <3>5 DEF Spare
  <2> QED
    BY <2>1, <2>2 DEF Protected, Nonzero
<1>14. Preserved(heap')
  BY <1>4, <1>5, <1>6, <1>13, ProtectedApart DEF Preserved
<1> QED
  BY <1>2, <1>12, <1>14, QuietStep


(* The caller's steps, which end the use of the record's list or keep it.  *)
LEMMA CallerStep ==
  ASSUME IInv, stack' = <<>>, ret' = <<>>, UNCHANGED <<mode, recs, stop>>,
         n' \in 0 .. Len(recs), step' \in {"fetch", "free", "done"},
         step' = "free" => n' < Len(recs),
         plist' = 0 \/ (UNCHANGED <<plist, n>> /\ step' = "free" /\ step \in {"convert", "free"}),
         IF step' = "done" THEN records' = 0 ELSE step # "done" /\ records' = records,
         GoodHeap(heap', Nonzero({plist', records'}))
  PROVE  IInv'
<1>1. Owned' = Nonzero({plist', records'}) /\ LocalsFrom(stack') = {}
  BY DEF Owned, LocalsFrom, Given, Nonzero
<1>2. KnownLeaks' = KnownLeaks /\ Leaks' = KnownLeaks
  BY DEF KnownLeaks, Leaks
<1>3. /\ IsHeap(heap') /\ Len(heap') \in Nat /\ Len(heap) \in Nat
      /\ Owned' \subseteq 1 .. Len(heap') /\ Preserved(heap')
  BY <1>1, FitsLength DEF GoodHeap
<1>4. HeapOK'
  BY <1>1, <1>2 DEF GoodHeap, HeapOK, Clean
<1>5. \A o \in 1 .. Len(heap') : heap'[o].rc \in Nat
  BY CountsAreNatural DEF GoodHeap
<1>6. \A o \in 1 .. Len(heap') : \A k \in 1 .. Len(heap'[o].items) :
        heap'[o].items[k].ref \in 0 .. Len(heap')
  BY <1>3 DEF IsHeap
<1>7. {plist', records'} \subseteq 0 .. Len(heap')
  BY <1>1, <1>3 DEF Nonzero
<1>8. TypeOK'
  BY <1>5, <1>6, <1>7 DEF IInv, TypeOK
<1>9. plist' # 0 => plist' # records'
  BY DEF IInv, OwnersDistinct
<1>10. OwnersDistinct'
  BY <1>1, <1>9 DEF OwnersDistinct
<1>11. StackOK' /\ ReturnOK'
  BY ShortSequences DEF StackOK, ReturnOK
<1>12. PlistUntouched' /\ PlistApart' /\ (plist' # 0 => heap'[plist'].site = "plist")
  <2>1. CASE plist' = 0
    BY <2>1 DEF PlistUntouched, PlistApart
  <2>2. CASE plist' # 0
    <3>1. plist' = plist /\ Rec' = Rec
      BY <2>2 DEF Rec
    <3>2. Owned' \subseteq Owned
      BY <1>1, <3>1 DEF Owned, Nonzero
    <3>3. heap[plist].site = "plist"
      BY <2>2, <3>1 DEF IInv, CallerOK
    <3> QED
      BY <1>3, <2>2, <3>1, <3>2, <3>3, ListKept
  <2> QED
    BY <2>1, <2>2
<1>13. CallerOK'
  <2>1. plist' # 0 => step' = "free" /\ Rec'.plist # "none"
    BY DEF IInv, CallerOK, Rec
  <2>2. records' # 0 <=> mode' = "convert" /\ step' # "done"
    BY DEF IInv, CallerOK
  <2>3. records' # 0 => heap'[records'].site = "records"
    <3>1. ASSUME records' # 0
          PROVE  records' = records /\ records \in 1 .. Len(heap)
      <4>1. records' = records
        BY <3>1
      <4>2. records \in Owned
        BY <3>1, <4>1 DEF Owned, Nonzero
      <4> QED
        BY <4>1, <4>2 DEF IInv, HeapOK, Balanced
    <3> QED
      BY <1>3, <3>1 DEF IInv, CallerOK, Preserved
  <2> QED
    BY <1>12, <2>1, <2>2, <2>3 DEF CallerOK
<1> QED
  BY <1>4, <1>8, <1>10, <1>11, <1>12, <1>13 DEF IInv


LEMMA ReturnedFacts ==
  ASSUME IInv, Returned, Ret # 0
  PROVE  /\ step = "convert" /\ n + 1 \in 0 .. Len(recs) /\ n \in 0 .. Len(recs) /\ n < Len(recs)
         /\ Ret \in 1 .. Len(heap) /\ heap[Ret].site = "dict" /\ Ret # plist
         /\ GoodHeap(heap, Nonzero({plist, records}) \union {Ret})
         /\ Ret \notin Nonzero({plist, records})
         /\ records # 0 => /\ records \in (1 .. Len(heap)) \ Protected
                           /\ heap[records].site = "records"
<1>1. stack = <<>> /\ ret # <<>> /\ ret # <<0>> /\ step = "convert"
  BY DEF Returned, Ret
<1>2. n \in 0 .. Len(recs) /\ n < Len(recs)
  BY <1>1 DEF IInv, TypeOK, CallerOK
<1>3. Ret \in 1 .. Len(heap) /\ heap[Ret].site = "dict"
  BY <1>1 DEF IInv, ReturnOK
<1>4. LocalsFrom(stack) = {}
  BY <1>1 DEF LocalsFrom
<1>5. Owned = Nonzero({plist, records}) \union {Ret}
  BY <1>1, <1>4 DEF Owned, Given, Nonzero
<1>6. Ret \notin {plist, records}
  BY <1>1 DEF IInv, OwnersDistinct
<1>7. GoodHeap(heap, Owned)
  BY <1>1, StartFits DEF Leaks
<1>8. ASSUME records # 0
      PROVE  records \in (1 .. Len(heap)) \ Protected /\ heap[records].site = "records"
  <2>1. records \in Owned /\ records # plist
    BY <1>5, <1>8 DEF Nonzero, IInv, OwnersDistinct
  <2>2. records \in 1 .. Len(heap)
    BY <1>7, <2>1, FitsLength
  <2> QED
    BY <1>8, <2>1, <2>2, ProtectedApart DEF IInv, CallerOK
<1> QED
  BY <1>1, <1>2, <1>3, <1>5, <1>6, <1>7, <1>8 DEF Nonzero

LEMMA DumpRecordKeeps ==
  ASSUME IInv, DumpRecord
  PROVE  IInv'
<1> DEFINE S == Nonzero({plist, records})
<1>1. /\ Returned /\ Ret # 0 /\ heap' = CFRelease(heap, Ret) /\ ret' = <<>> /\ step' = "free"
      /\ UNCHANGED <<mode, recs, n, stop, stack, plist, records>> /\ stack = <<>>
      /\ step = "convert"
  BY DEF DumpRecord, Returned
<1>2. /\ n \in 0 .. Len(recs) /\ n < Len(recs) /\ GoodHeap(heap, S \union {Ret}) /\ Ret \notin S
  BY <1>1, ReturnedFacts
<1> DEFINE T == S \union {Ret}
<1>3. T \ {Ret} = S /\ Ret \in T
  BY <1>2
<1> HIDE DEF S, T
<1>4. GoodHeap(heap', T \ {Ret})
  BY <1>1, <1>2, <1>3, ReleaseFits DEF T
<1>5. GoodHeap(heap', Nonzero({plist', records'}))
  BY <1>1, <1>3, <1>4 DEF S
<1> QED
  BY <1>1, <1>2, <1>5, CallerStep

LEMMA CollectRecordKeeps ==
  ASSUME IInv, CollectRecord
  PROVE  IInv'
<1> DEFINE S == Nonzero({plist, records})
           T == S \union {Ret}
<1>1. /\ Returned /\ Ret # 0 /\ mode = "convert" /\ ret' = <<>> /\ step' = "free"
      /\ heap' = CFRelease(Add(heap, records, Item(NoText, Ret)), Ret)
      /\ UNCHANGED <<mode, recs, n, stop, stack, plist, records>> /\ stack = <<>>
      /\ step = "convert"
  BY DEF CollectRecord, Returned, Element
<1>2. records # 0
  BY <1>1 DEF IInv, CallerOK
<1>3. /\ n \in 0 .. Len(recs) /\ n < Len(recs) /\ GoodHeap(heap, T) /\ Ret \notin S
      /\ heap[Ret].site = "dict"
      /\ records \in (1 .. Len(heap)) \ Protected /\ heap[records].site = "records"
  BY <1>1, <1>2, ReturnedFacts
<1>4. T \ {Ret} = S /\ Ret \in T
  BY <1>3
<1>5. Below(heap, records, Ret)
  BY <1>3, LevelFacts DEF Below
<1> HIDE DEF S, T
<1>6. GoodHeap(heap', T \ {Ret})
  BY <1>1, <1>3, <1>4, <1>5, MoveFits
<1>7. GoodHeap(heap', Nonzero({plist', records'}))
  BY <1>1, <1>4, <1>6 DEF S
<1> QED
  BY <1>1, <1>3, <1>7, CallerStep

LEMMA IdleFacts ==
  ASSUME IInv, step # "convert"
  PROVE  stack = <<>> /\ ret = <<>> /\ GoodHeap(heap, Nonzero({plist, records}))
<1>1. stack = <<>> /\ ret = <<>>
  BY DEF IInv, CallerOK
<1>2. Owned = Nonzero({plist, records})
  BY <1>1 DEF Owned, LocalsFrom, Given, Nonzero
<1> QED
  BY <1>1, <1>2, StartFits DEF Leaks

LEMMA FreeRecordKeeps ==
  ASSUME IInv, FreeRecord
  PROVE  IInv'
<1> DEFINE S == Nonzero({plist, records})
           T == Nonzero({0, records})
<1>1. /\ step = "free" /\ plist' = 0 /\ n' = n + 1 /\ step' = "fetch"
      /\ UNCHANGED <<mode, recs, stop, stack, ret, records, printed>>
      /\ heap' = IF plist = 0 THEN heap ELSE CFRelease(heap, plist)
  BY DEF FreeRecord
<1>2. stack = <<>> /\ ret = <<>> /\ GoodHeap(heap, S)
  BY <1>1, IdleFacts
<1>3. n' \in 0 .. Len(recs)
  <2>1. n \in 0 .. Len(recs) /\ n < Len(recs)
    BY <1>1 DEF IInv, TypeOK, CallerOK
  <2> QED
    BY <1>1, <2>1
<1>4. GoodHeap(heap', T)
  <2>1. CASE plist = 0
    BY <1>1, <1>2, <2>1
  <2>2. CASE plist # 0
    <3>1. plist \in S /\ S \ {plist} = T
      BY <2>2 DEF Nonzero, IInv, OwnersDistinct
    <3> HIDE DEF S, T
    <3>2. GoodHeap(heap', S \ {plist})
      BY <1>1, <1>2, <2>2, <3>1, ReleaseFits
    <3> QED
      BY <3>1, <3>2
  <2> QED
    BY <2>1, <2>2
<1>5. GoodHeap(heap', Nonzero({plist', records'}))
  BY <1>1, <1>4
<1> QED
  BY <1>1, <1>2, <1>3, <1>5, CallerStep

LEMMA FinishKeeps ==
  ASSUME IInv, Finish
  PROVE  IInv'
<1> DEFINE S == Nonzero({plist, records})
<1>1. /\ step = "fetch" /\ n = Len(recs) /\ records' = 0 /\ step' = "done"
      /\ UNCHANGED <<mode, recs, n, stop, stack, ret, plist>>
      /\ IF mode = "dump" THEN heap' = heap ELSE heap' = CFRelease(heap, records)
  BY DEF Finish
<1>2. stack = <<>> /\ ret = <<>> /\ GoodHeap(heap, S)
  BY <1>1, IdleFacts
<1>3. plist = 0 /\ (records # 0 <=> mode = "convert") /\ n \in 0 .. Len(recs)
  BY <1>1 DEF IInv, CallerOK, TypeOK
<1>4. GoodHeap(heap', {})
  <2>1. CASE records = 0
    <3>1. S = {} /\ heap' = heap
      BY <1>1, <1>3, <2>1 DEF Nonzero, IInv, TypeOK
    <3> QED
      BY <1>2, <3>1
  <2>2. CASE records # 0
    <3>1. records \in S /\ S \ {records} = {} /\ heap' = CFRelease(heap, records)
      BY <1>1, <1>3, <2>2 DEF Nonzero
    <3> HIDE DEF S
    <3>2. GoodHeap(heap', S \ {records})
      BY <1>2, <3>1, ReleaseFits
    <3> QED
      BY <3>1, <3>2
  <2> QED
    BY <2>1, <2>2
<1>5. Nonzero({plist', records'}) = {}
  BY <1>1, <1>3 DEF Nonzero
<1>6. plist' = 0 /\ n' \in 0 .. Len(recs)
  BY <1>1, <1>3
<1> QED
  BY <1>1, <1>2, <1>4, <1>5, <1>6, CallerStep

(* What is in the list of a record when it has been made.                  *)
LEMMA FirstItem ==
  ASSUME NEW h, IsHeap(h), NEW d \in 1 .. Len(h), h[d].items = <<>>, NEW key, NEW lit
  PROVE  LET g == Set(h, d, Constant(key, lit)) IN
           /\ IsHeap(g) /\ Len(g) = Len(h)
           /\ \A o \in 1 .. Len(h) :
                g[o].lit = h[o].lit
                /\ g[o].items = IF o = d THEN <<Constant(key, lit)>> ELSE h[o].items
<1> DEFINE it == Constant(key, lit)
<1>1. IsItem(it, Len(h)) /\ it.ref = 0
  BY SequenceDomain, ItemIsItem DEF IsHeap
<1>2. Set(h, d, it) = Add(h, d, it)
  BY DEF Set
<1>3. Append(h[d].items, it) = <<it>>
  OBVIOUS
<1> HIDE DEF it
<1>4. /\ IsHeap(Add(h, d, it)) /\ Len(Add(h, d, it)) = Len(h)
      /\ \A o \in 1 .. Len(h) :
           Changed(h[o], Add(h, d, it)[o], h[o].rc + (IF o = it.ref THEN 1 ELSE 0),
                   IF o = d THEN Append(h[d].items, it) ELSE h[o].items)
  BY <1>1, AddObjects
<1> QED
  BY <1>2, <1>3, <1>4 DEF Changed, it

HoldsOne(h, d, first) == h[d].items = <<first>>

HoldsTwo(h, g, d, first, key, lit) ==
  LET r == Len(h) + 1 IN
  /\ Len(g) = r
  /\ \A o \in 1 .. Len(h) :
       g[o].lit = h[o].lit /\ g[o].items = IF o = d THEN <<first, Item(key, r)>> ELSE h[o].items
  /\ g[r].lit = lit /\ g[r].items = <<>>

LEMMA SecondItem ==
  ASSUME NEW h, IsHeap(h), NEW d \in 1 .. Len(h), NEW first, HoldsOne(h, d, first),
         NEW key, first.key # key, NEW lit
  PROVE  HoldsTwo(h, SetNumber(h, d, key, lit), d, first, key, lit)
<1> DEFINE r == Len(h) + 1
           f == New(h, "value", lit)
           it == Item(key, r)
           a == Add(f, d, it)
           g == CFRelease(a, r)
<1>1. /\ IsHeap(f) /\ Len(f) = r /\ \A o \in 1 .. Len(h) : f[o] = h[o]
      /\ f[r] = Object("value", lit)
  BY NewObjects
<1>2. Len(h) \in Nat /\ r \in 1 .. r /\ d \in 1 .. r /\ d # r
  BY SequenceDomain DEF IsHeap
<1>3. f[r].lit = lit /\ f[r].items = <<>> /\ f[r].rc = 1 /\ f[d].items = <<first>>
  BY <1>1 DEF Object, HoldsOne
<1>4. IsItem(it, r) /\ it.ref = r /\ it.key = key
  BY <1>2 DEF Item, IsItem
<1>5. Set(f, d, it) = a
  <2>1. {k \in DOMAIN f[d].items : f[d].items[k].key = it.key} = {}
    BY <1>3, <1>4
  <2> QED
    BY <2>1 DEF Set
<1>6. Append(f[d].items, it) = <<first, it>>
  <2>1. Append(<<first>>, it) = <<first, it>>
    BY AppendToOne
  <2> QED
    BY <1>3, <2>1
<1>7. SetNumber(h, d, key, lit) = g
  BY <1>5 DEF SetNumber
<1> HIDE DEF f, it, r
<1>8. /\ IsHeap(a) /\ Len(a) = r
      /\ \A o \in 1 .. r :
           Changed(f[o], a[o], f[o].rc + (IF o = it.ref THEN 1 ELSE 0),
                   IF o = d THEN Append(f[d].items, it) ELSE f[o].items)
  <2>1. /\ IsHeap(f) /\ d \in 1 .. Len(f) /\ IsItem(it, Len(f))
        /\ it.ref # 0 => f[it.ref].rc > 0
    BY <1>1, <1>2, <1>3, <1>4
  <2>2. /\ IsHeap(a) /\ Len(a) = Len(f)
        /\ \A o \in 1 .. Len(f) :
             Changed(f[o], a[o], f[o].rc + (IF o = it.ref THEN 1 ELSE 0),
                     IF o = d THEN Append(f[d].items, it) ELSE f[o].items)
    BY <2>1, AddObjects
  <2> QED
    BY <1>1, <2>2
<1> HIDE DEF a
<1>9. /\ Len(g) = r
      /\ \A o \in 1 .. r :
           Changed(a[o], g[o], a[o].rc - (IF o = r THEN 1 ELSE 0), a[o].items)
  BY <1>2, <1>8, ReleaseObjects
<1> HIDE DEF g
<1>10. ASSUME NEW o \in 1 .. r
       PROVE  g[o].lit = f[o].lit /\ g[o].items = IF o = d THEN <<first, it>> ELSE f[o].items
  BY <1>6, <1>8, <1>9 DEF Changed
<1>11. \A o \in 1 .. Len(h) :
         g[o].lit = h[o].lit /\ g[o].items = IF o = d THEN <<first, it>> ELSE h[o].items
  BY <1>1, <1>2, <1>10 DEF r
<1>12. g[r].lit = lit /\ g[r].items = <<>>
  BY <1>2, <1>3, <1>10
<1> QED
  BY <1>7, <1>9, <1>11, <1>12 DEF r, it, HoldsTwo

(* What a list holds that has been made of p as the object d.              *)
ListIs(h, d, p) ==
  /\ h[d].lit = p
  /\ h[d].items = IF p = "list" THEN <<>>
                  ELSE IF p = "alias"
                       THEN <<Constant("view", "icons"), Item("backgroundImageAlias", d + 1)>>
                       ELSE <<Constant("view", "icons")>>
  /\ p = "alias" => h[d + 1].lit = "bytes" /\ h[d + 1].items = <<>>

LEMMA PlistContents ==
  ASSUME NEW h, IsHeap(h), NEW p, p # "none"
  PROVE  ListIs(PlistOf(h, p), Len(h) + 1, p)
<1> DEFINE d == Len(h) + 1
           f == New(h, "plist", p)
           g == Set(f, d, Constant("view", "icons"))
           it == Constant("view", "icons")
<1>1. IsHeap(f) /\ Len(f) = d /\ f[d] = Object("plist", p)
  BY NewObjects
<1>2. d \in 1 .. d /\ d \in Nat
  BY SequenceDomain DEF IsHeap
<1>3. f[d].lit = p /\ f[d].items = <<>>
  BY <1>1 DEF Object
<1>4. PlistOf(h, p) = IF p = "list" THEN f
                      ELSE IF p = "alias" THEN SetNumber(g, d, "backgroundImageAlias", "bytes")
                      ELSE g
  BY DEF PlistOf
<1>5. it.key = "view"
  BY DEF Constant
<1> HIDE DEF f, d, it
<1>6. IsHeap(g) /\ Len(g) = d /\ g[d].lit = p /\ g[d].items = <<it>>
  <2>1. d \in 1 .. Len(f)
    BY <1>1, <1>2
  <2>2. /\ IsHeap(g) /\ Len(g) = Len(f)
        /\ \A o \in 1 .. Len(f) :
             g[o].lit = f[o].lit
             /\ g[o].items = IF o = d THEN <<Constant("view", "icons")>> ELSE f[o].items
    BY <1>1, <1>3, <2>1, FirstItem
  <2> QED
    BY <1>1, <1>3, <2>1, <2>2 DEF it
<1> HIDE DEF g
<1> DEFINE e == SetNumber(g, d, "backgroundImageAlias", "bytes")
<1>7. /\ e[d].lit = p /\ e[d].items = <<it, Item("backgroundImageAlias", d + 1)>>
      /\ e[d + 1].lit = "bytes" /\ e[d + 1].items = <<>>
  <2>1. d \in 1 .. Len(g) /\ it.key # "backgroundImageAlias" /\ HoldsOne(g, d, it)
    BY <1>2, <1>5, <1>6 DEF HoldsOne
  <2>2. HoldsTwo(g, e, d, it, "backgroundImageAlias", "bytes")
    BY <1>6, <2>1, SecondItem
  <2> HIDE DEF e
  <2> QED
    BY <1>6, <2>1, <2>2 DEF HoldsTwo
<1> QED
  BY <1>3, <1>4, <1>6, <1>7 DEF ListIs, d, it

LEMMA FetchedList ==
  ASSUME NEW h, NEW S, GoodHeap(h, S), NEW p, p # "none",
         Len(h) + 1 \notin Protected
  PROVE  LET g == PlistOf(h, p)
             d == Len(h) + 1
         IN  /\ GoodHeap(g, S \union {d}) /\ SitesKept(h, g)
             /\ Len(g) >= d /\ g[d].site = "plist"
<1> DEFINE d == Len(h) + 1
           T == S \union {d}
           f == New(h, "plist", p)
           g == Set(f, d, Constant("view", "icons"))
           e == SetNumber(g, d, "backgroundImageAlias", "bytes")
<1>1. PlistOf(h, p) = IF p = "list" THEN f ELSE IF p = "alias" THEN e ELSE g
  BY DEF PlistOf
<1>2. Len(h) \in Nat
  BY FitsLength
<1>3. "plist" \in DOMAIN Level /\ Level["plist"] = 2
  BY DEF Level
<1>4. GoodHeap(f, T) /\ Len(f) = d /\ f[d].site = "plist" /\ SitesKept(h, f)
  BY <1>3, NewFits
<1> HIDE DEF f, T
<1>5. d \in (1 .. Len(f)) \ Protected
  BY <1>2, <1>4
<1>6. GoodHeap(g, T) /\ SameKinds(f, g)
  BY <1>4, <1>5, SetConstantFits
<1> HIDE DEF g
<1>7. Len(g) = d /\ d \in (1 .. Len(g)) \ Protected /\ g[d].site = "plist" /\ SitesKept(h, g)
  BY <1>2, <1>4, <1>5, <1>6 DEF SameKinds, SitesKept
<1>8. GoodHeap(e, T) /\ Len(e) = Len(g) + 1 /\ SitesKept(g, e)
  BY <1>3, <1>6, <1>7, NumberFits
<1> HIDE DEF e
<1>9. Len(e) >= d /\ e[d].site = "plist" /\ SitesKept(h, e)
  BY <1>2, <1>7, <1>8 DEF SitesKept
<1> QED
  BY <1>1, <1>2, <1>4, <1>6, <1>7, <1>8, <1>9 DEF T

(* The list that is cached is what the record says it is.                  *)
LEMMA ListIsShown ==
  ASSUME NEW h, NEW d \in Nat, d # 0, NEW p, ListIs(h, d, p)
  PROVE  LET items == h[d].items
             shown == ShownPlist(p)
         IN  /\ h[d].lit = shown.lit /\ Len(items) = Len(shown.items)
             /\ \A k \in 1 .. Len(items) :
                  /\ items[k].key = shown.items[k][1]
                  /\ shown.items[k][2] = IF items[k].ref = 0 THEN Leaf(items[k].lit)
                                         ELSE Leaf(h[items[k].ref].lit)
                  /\ items[k].ref # 0 => h[items[k].ref].items = <<>>
<1> DEFINE view == <<"view", Leaf("icons")>>
           alias == <<"backgroundImageAlias", Leaf("bytes")>>
<1>1. /\ ShownPlist(p).lit = p
      /\ ShownPlist(p).items = IF p = "list" THEN <<>>
                               ELSE IF p = "alias" THEN <<view, alias>> ELSE <<view>>
  <2>1. <<view>> \o <<alias>> = <<view, alias>> /\ <<view>> \o <<>> = <<view>>
    BY ConcatenatedToOne
  <2> QED
    BY <2>1 DEF ShownPlist
<1>2. /\ view[1] = "view" /\ view[2] = Leaf("icons")
      /\ alias[1] = "backgroundImageAlias" /\ alias[2] = Leaf("bytes")
  OBVIOUS
<1>3. /\ Constant("view", "icons").key = "view" /\ Constant("view", "icons").ref = 0
      /\ Constant("view", "icons").lit = "icons"
      /\ Item("backgroundImageAlias", d + 1).key = "backgroundImageAlias"
      /\ Item("backgroundImageAlias", d + 1).ref = d + 1
  BY DEF Constant, Item
<1> HIDE DEF view, alias
<1> DEFINE c == Constant("view", "icons")
           a == Item("backgroundImageAlias", d + 1)
<1> HIDE DEF c, a
<1>4. CASE p = "list"
  BY <1>1, <1>4 DEF ListIs
<1>5. CASE p = "alias"
  <2>1. /\ h[d].items = <<c, a>> /\ ShownPlist(p).items = <<view, alias>> /\ h[d].lit = p
        /\ h[d + 1].lit = "bytes" /\ h[d + 1].items = <<>>
    BY <1>1, <1>5 DEF ListIs, c, a
  <2>2. c.key = "view" /\ c.ref = 0 /\ c.lit = "icons" /\ a.key = "backgroundImageAlias" /\ a.ref = d + 1
    BY <1>3 DEF c, a
  <2>3. /\ Len(<<c, a>>) = 2 /\ <<c, a>>[1] = c /\ <<c, a>>[2] = a
        /\ Len(<<view, alias>>) = 2 /\ <<view, alias>>[1] = view /\ <<view, alias>>[2] = alias
    OBVIOUS
  <2>4. \A k \in 1 .. 2 : k = 1 \/ k = 2
    OBVIOUS
  <2>5. d + 1 # 0
    OBVIOUS
  <2> DEFINE items == <<c, a>>
             shown == <<view, alias>>
  <2> HIDE DEF items, shown
  <2>6. /\ items[1].key = shown[1][1] /\ items[1].ref = 0 /\ shown[1][2] = Leaf(items[1].lit)
        /\ items[2].key = shown[2][1] /\ items[2].ref = d + 1
        /\ shown[2][2] = Leaf(h[d + 1].lit) /\ Len(items) = 2 /\ Len(shown) = 2
    BY <1>2, <2>1, <2>2, <2>3 DEF items, shown
  <2>7. h[d].items = items /\ ShownPlist(p).items = shown
    BY <2>1 DEF items, shown
  <2> QED
    BY <1>1, <2>1, <2>4, <2>5, <2>6, <2>7
<1>6. CASE p # "list" /\ p # "alias"
  <2>1. h[d].items = <<c>> /\ ShownPlist(p).items = <<view>> /\ h[d].lit = p
    BY <1>1, <1>6 DEF ListIs, c
  <2>2. c.key = "view" /\ c.ref = 0 /\ c.lit = "icons"
    BY <1>3 DEF c
  <2>3. Len(<<c>>) = 1 /\ <<c>>[1] = c /\ Len(<<view>>) = 1 /\ <<view>>[1] = view
    OBVIOUS
  <2>4. \A k \in 1 .. 1 : k = 1
    OBVIOUS
  <2> DEFINE items == <<c>>
             shown == <<view>>
  <2> HIDE DEF items, shown
  <2>5. /\ items[1].key = shown[1][1] /\ items[1].ref = 0 /\ shown[1][2] = Leaf(items[1].lit)
        /\ Len(items) = 1 /\ Len(shown) = 1
    BY <1>2, <2>2, <2>3 DEF items, shown
  <2>6. h[d].items = items /\ ShownPlist(p).items = shown
    BY <2>1 DEF items, shown
  <2> QED
    BY <1>1, <2>1, <2>4, <2>5, <2>6
<1> QED
  BY <1>4, <1>5, <1>6

LEMMA FetchRecordKeeps ==
  ASSUME IInv, FetchRecord
  PROVE  IInv'
<1> DEFINE S == Nonzero({plist, records})
           d == Len(heap) + 1
           fr == Frame("record", Rec)
           p == Rec.plist
<1>1. /\ step = "fetch" /\ n < Len(recs) /\ heap' = PlistOf(heap, p)
      /\ plist' = (IF p = "none" THEN 0 ELSE d)
      /\ stack' = <<fr>> /\ step' = "convert"
      /\ UNCHANGED <<mode, recs, n, stop, ret, records, printed>>
  BY DEF FetchRecord
<1>2. stack = <<>> /\ ret = <<>> /\ GoodHeap(heap, S)
  BY <1>1, IdleFacts
<1>3. /\ plist = 0 /\ n \in 0 .. Len(recs) /\ Protected = {} /\ Len(heap) \in Nat
      /\ S = Nonzero({0, records}) /\ S \subseteq 1 .. Len(heap)
  <2>1. plist = 0 /\ n \in 0 .. Len(recs)
    BY <1>1 DEF IInv, CallerOK, TypeOK
  <2> QED
    BY <1>2, <2>1, FitsLength DEF Protected
<1>4. Rec' = Rec
  BY <1>1 DEF Rec
<1>5. /\ fr.fn = "record" /\ fr.pc = "enter" /\ fr.arg = Rec
      /\ FrameOK(heap', fr) /\ Locals(fr) = {}
  BY NewFrame
<1> HIDE DEF fr, p, S
<1>6. IsSequence(stack') /\ Len(stack') = 1 /\ stack'[1] = fr
  BY <1>1, ShortSequences
<1> HIDE DEF d
<1>7. /\ GoodHeap(heap', S \union Nonzero({plist'}))
      /\ plist' # 0 => heap'[plist'].site = "plist" /\ SitesKept(heap, heap')
  <2>1. CASE p = "none"
    <3>1. heap' = heap /\ plist' = 0
      BY <1>1, <2>1 DEF PlistOf
    <3>2. S \union Nonzero({plist'}) = S
      BY <3>1 DEF Nonzero
    <3> QED
      BY <1>2, <3>1, <3>2
  <2>2. CASE p # "none"
    <3>1. d \notin Protected /\ d # 0
      BY <1>3 DEF d
    <3>2. /\ GoodHeap(heap', S \union {d}) /\ SitesKept(heap, heap')
          /\ heap'[d].site = "plist"
      BY <1>1, <1>2, <2>2, <3>1, FetchedList DEF d
    <3>3. plist' = d /\ Nonzero({plist'}) = {d}
      BY <1>1, <2>2, <3>1 DEF Nonzero
    <3> QED
      BY <3>2, <3>3
  <2> QED
    BY <2>1, <2>2
<1>8. Owned' = S \union Nonzero({plist'}) /\ LocalsFrom(stack') = {}
  <2>1. LocalsFrom(stack') = {}
    BY <1>5, <1>6 DEF LocalsFrom
  <2>2. Given' = {} /\ records' = records
    BY <1>1, <1>2 DEF Given
  <2> QED
    BY <1>3, <2>1, <2>2 DEF Owned, Nonzero
<1>9. KnownLeaks' = KnownLeaks /\ Leaks' = KnownLeaks
  BY <1>1, <1>2 DEF KnownLeaks, Leaks
<1>10. IsHeap(heap') /\ Len(heap') \in Nat /\ Owned' \subseteq 1 .. Len(heap') /\ Preserved(heap')
  BY <1>7, <1>8, FitsLength DEF GoodHeap
<1>11. HeapOK'
  BY <1>7, <1>8, <1>9 DEF GoodHeap, HeapOK, Clean
<1>12. TypeOK'
  <2>1. \A o \in 1 .. Len(heap') : heap'[o].rc \in Nat
    BY <1>7, CountsAreNatural DEF GoodHeap
  <2>2. \A o \in 1 .. Len(heap') : \A k \in 1 .. Len(heap'[o].items) :
          heap'[o].items[k].ref \in 0 .. Len(heap')
    BY <1>10 DEF IsHeap
  <2>3. {plist', records'} \subseteq 0 .. Len(heap')
    BY <1>1, <1>3, <1>8, <1>10 DEF Nonzero
  <2>4. \A k \in 1 .. Len(stack') : stack'[k].fn \in {"record", "bookmark", "item", "alias"}
    BY <1>5, <1>6
  <2>5. Len(ret') <= 1
    BY <1>1 DEF IInv, TypeOK
  <2> QED
    BY <1>1, <2>1, <2>2, <2>3, <2>4, <2>5 DEF IInv, TypeOK
<1>13. OwnersDistinct'
  <2>1. \A k \in 1 .. Len(stack') : Distinct(stack'[k])
    <3>1. \A v \in Variables : fr[v] \in Locals(fr) \union {0}
      BY DEF Locals
    <3> QED
      BY <1>5, <1>6, <3>1 DEF Distinct
  <2>2. \A k, l \in 1 .. Len(stack') : k # l => Locals(stack'[k]) \intersect Locals(stack'[l]) = {}
    BY <1>6
  <2>3. plist' = records' => plist' = 0
    BY <1>1, <1>3 DEF d, Nonzero
  <2> QED
    BY <1>1, <1>2, <1>8, <2>1, <2>2, <2>3 DEF OwnersDistinct
<1>14. StackOK'
  <2>1. RecordOK(stack[1])'
    BY <1>4, <1>5, <1>6 DEF RecordOK, In
  <2>2. FrameOK(heap', stack'[1]) /\ stack'[1].fn = "record"
    BY <1>5, <1>6
  <2>3. \A k \in 1 .. Len(stack') : k = 1
    BY <1>6
  <2>4. \A k \in 1 .. Len(stack') - 1 : FALSE
    BY <1>6
  <2> QED
    BY <1>6, <2>1, <2>2, <2>3, <2>4 DEF StackOK
<1>15. ReturnOK'
  BY <1>1, <1>2 DEF ReturnOK
<1>16. CallerOK'
  <2>1. step' = "convert" /\ stack' # <<>>
    BY <1>1, <1>6, ShortSequences
  <2>2. n' < Len(recs') /\ (plist' # 0 => Rec'.plist # "none" /\ heap'[plist'].site = "plist")
    BY <1>1, <1>4, <1>7 DEF p
  <2>3. records' # 0 <=> mode' = "convert" /\ step' # "done"
    BY <1>1 DEF IInv, CallerOK
  <2>4. records' # 0 => heap'[records'].site = "records"
    <3>1. records # 0 => heap[records].site = "records" /\ records \in 1 .. Len(heap)
      BY <1>3 DEF IInv, CallerOK, Nonzero
    <3> QED
      BY <1>1, <1>10, <3>1 DEF Preserved
  <2> QED
    BY <2>1, <2>2, <2>3, <2>4 DEF CallerOK
<1>17. PlistUntouched' /\ PlistApart'
  <2>1. CASE plist' = 0
    BY <2>1 DEF PlistUntouched, PlistApart
  <2>2. CASE plist' # 0
    <3>1. p # "none" /\ plist' = d /\ Rec'.plist = p
      BY <1>1, <1>4, <2>2 DEF p
    <3>2. ListIs(heap', d, p)
      BY <1>1, <1>2, <3>1, PlistContents DEF d, GoodHeap
    <3>3. d \in Nat /\ d # 0
      BY <1>3 DEF d
    <3>4. PlistUntouched'
      BY <3>1, <3>2, <3>3, ListIsShown DEF PlistUntouched
    <3>5. \A k \in DOMAIN heap'[d].items : heap'[d].items[k].ref \in {0, d + 1}
      <4>1. /\ Constant("view", "icons").ref = 0
            /\ Item("backgroundImageAlias", d + 1).ref = d + 1
        BY DEF Constant, Item
      <4> QED
        BY <3>2, <4>1 DEF ListIs
    <3>6. 0 \notin Owned' /\ d + 1 \notin Owned'
      <4>1. Owned' = S \union {d}
        BY <1>8, <3>1, <3>3 DEF Nonzero
      <4>2. 0 \notin S /\ d + 1 \notin S /\ d + 1 # 0 /\ d + 1 # d
        <5>1. Len(heap) \in Nat /\ S \subseteq 1 .. Len(heap)
          BY <1>3
        <5>2. d + 1 \notin 1 .. Len(heap) /\ 0 \notin 1 .. Len(heap) /\ d + 1 # 0 /\ d + 1 # d
          BY <5>1 DEF d
        <5> QED
          BY <5>1, <5>2
      <4> QED
        BY <3>3, <4>1, <4>2
    <3> QED
      BY <3>1, <3>4, <3>5, <3>6 DEF PlistApart
  <2> QED
    BY <2>1, <2>2
<1> QED
  BY <1>11, <1>12, <1>13, <1>14, <1>15, <1>16, <1>17 DEF IInv

-----------------------------------------------------------------------------
(* The invariant.                                                          *)

LEMMA InitInvariant ==
  ASSUME Init
  PROVE  IInv
<1>1. /\ mode \in {"dump", "convert"} /\ recs \in Inputs /\ n = 0
      /\ step = "fetch" /\ stop = "no"
      /\ heap = IF mode = "convert" THEN New(<<>>, "records", NoText) ELSE <<>>
      /\ records = IF mode = "convert" THEN 1 ELSE 0
      /\ stack = <<>> /\ ret = <<>> /\ plist = 0
  BY DEF Init, NewContainer
<1>2. Len(recs) \in Nat
  BY <1>1, InputsAssumption
<1>3. LocalsFrom(stack) = {} /\ Given = {} /\ Owned = Nonzero({records})
  BY <1>1 DEF LocalsFrom, Given, Owned, Nonzero
<1>4. Leaks = KnownLeaks
  BY <1>1 DEF Leaks
<1>5. IsHeap(<<>>) /\ Len(<<>>) = 0
  BY ShortSequences DEF IsHeap
<1>6. /\ IsHeap(heap) /\ Len(heap) \in Nat /\ Owned \subseteq 1 .. Len(heap)
      /\ records # 0 => records = 1 /\ heap[1].site = "records"
      /\ \A o \in 1 .. Len(heap) : heap[o].site = "records" /\ heap[o].rc = 1
                                   /\ heap[o].items = <<>> /\ o \in Owned
  <2>1. CASE mode = "convert"
    <3>1. IsHeap(heap) /\ Len(heap) = 1 /\ heap[1] = Object("records", NoText)
      <4> DEFINE h == <<>>
      <4>1. IsHeap(h)
        BY <1>5
      <4>2. Len(h) = 0 /\ heap = New(h, "records", NoText)
        BY <1>1, <1>5, <2>1
      <4> HIDE DEF h
      <4> DEFINE g == New(h, "records", NoText)
      <4>3. IsHeap(g) /\ Len(g) = Len(h) + 1 /\ g[Len(h) + 1] = Object("records", NoText)
        BY <4>1, NewObjects
      <4> HIDE DEF g
      <4>4. heap = g
        BY <4>2 DEF g
      <4> QED
        BY <4>2, <4>3, <4>4
    <3>2. heap[1].site = "records" /\ heap[1].rc = 1 /\ heap[1].items = <<>>
      BY <3>1 DEF Object
    <3>3. Owned = {1} /\ records = 1
      BY <1>1, <1>3, <2>1 DEF Nonzero
    <3> QED
      BY <3>1, <3>2, <3>3
  <2>2. CASE mode # "convert"
    BY <1>1, <1>3, <1>5, <2>2 DEF Nonzero
  <2> QED
    BY <2>1, <2>2
<1>7. ASSUME NEW o \in 1 .. Len(heap)
      PROVE  Refs(heap, o) = {} /\ Spare(heap, Owned, o) = 0
  <2>1. \A k \in 1 .. Len(heap) : Held(heap, k, o) = {}
    BY <1>6 DEF Held
  <2>2. Refs(heap, o) = {}
    BY <2>1 DEF Refs, HeldBy
  <2>3. Cardinality({}) = 0
    BY FS_EmptySet
  <2> QED
    BY <1>6, <2>2, <2>3 DEF Spare
<1>8. Balanced(heap, Owned, Leaks)
  BY <1>6, <1>7 DEF Balanced
<1>9. Layered(heap)
  BY <1>6 DEF Layered, Level
<1>10. HeapOK
  BY <1>6, <1>8, <1>9 DEF HeapOK
<1>11. TypeOK
  <2>1. \A o \in 1 .. Len(heap) :
          /\ heap[o].rc \in Nat
          /\ \A k \in 1 .. Len(heap[o].items) : heap[o].items[k].ref \in 0 .. Len(heap)
    BY <1>5, <1>6
  <2>2. {plist, records} \subseteq 0 .. Len(heap)
    BY <1>1, <1>3, <1>6 DEF Nonzero
  <2>3. n \in 0 .. Len(recs) /\ Len(ret) <= 1 /\ Len(stack) = 0
    BY <1>1, <1>2, <1>5
  <2> QED
    BY <1>1, <2>1, <2>2, <2>3 DEF TypeOK
<1>12. OwnersDistinct /\ StackOK /\ ReturnOK
  BY <1>1, <1>3, <1>5, ShortSequences DEF OwnersDistinct, StackOK, ReturnOK
<1>13. CallerOK /\ PlistUntouched /\ PlistApart
  BY <1>1, <1>6 DEF CallerOK, PlistUntouched, PlistApart
<1> QED
  BY <1>10, <1>11, <1>12, <1>13 DEF IInv

LEMMA HaltsKeep ==
  ASSUME IInv,
         \/ NullDictionary \/ RecordBookmarkOverrun \/ IcvpNotDictionary
         \/ ItemNotUTF8 \/ ItemOverrun \/ StackOverflow \/ AliasNull \/ AliasOverrun
  PROVE  IInv'
<1>1. \E how \in {"crash", "overrun", "overflow"} : Halt(how)
  BY DEF NullDictionary, RecordBookmarkOverrun, IcvpNotDictionary, ItemNotUTF8, ItemOverrun,
         StackOverflow, AliasNull, AliasOverrun
<1> QED
  BY <1>1, StopKeeps DEF Halt

LEMMA CallerKeeps ==
  ASSUME IInv, Caller
  PROVE  IInv'
BY HaltsKeep, FetchRecordKeeps, DumpRecordKeeps, CollectRecordKeeps, FreeRecordKeeps,
   FinishKeeps DEF Caller

LEMMA RecordStepKeeps ==
  ASSUME IInv, RecordStep
  PROVE  IInv'
BY HaltsKeep, RecordScalarKeeps, RecordDateKeeps, RecordStructKeeps, RecordWrongSizeKeeps,
   RecordBookmarkKeeps, RecordBookmarkDoneKeeps, RecordAliasKeeps, RecordAliasDoneKeeps,
   RecordDataKeeps, RecordPlistKeeps, IcvpPlainKeeps, IcvpAliasKeeps, IcvpAliasDoneKeeps
   DEF RecordStep

LEMMA BookmarkStepKeeps ==
  ASSUME IInv, BookmarkStep
  PROVE  IInv'
BY HaltsKeep, BookmarkEnterKeeps, BookmarkTocKeeps, BookmarkEntryKeeps, BookmarkEntryDoneKeeps,
   BookmarkTocDoneKeeps, BookmarkDoneKeeps, ItemScalarKeeps, ItemArrayKeeps, ItemElementKeeps,
   ItemElementDoneKeeps, ItemArrayDoneKeeps, ItemDataKeeps
   DEF BookmarkStep

LEMMA AliasStepKeeps ==
  ASSUME IInv, AliasStep
  PROVE  IInv'
BY HaltsKeep, AliasEnterKeeps, AliasValueKeeps, AliasCnidsKeeps, AliasCnidKeeps,
   AliasCnidsDoneKeeps, AliasNestedKeeps, AliasNestedDoneKeeps, AliasDoneKeeps
   DEF AliasStep

LEMMA StutterKeeps ==
  ASSUME IInv, UNCHANGED vars
  PROVE  IInv'
<1>1. UNCHANGED <<heap, stack, ret, caller>> /\ stop' = stop
  BY DEF vars, caller
<1> QED
  BY <1>1, StopKeeps DEF IInv, TypeOK

(* Every reference has its owner, in every state of the program: this is   *)
(* the inductive invariant from which what follows is derived.             *)
THEOREM OwnershipInvariant ==
  Spec => []IInv
<1>1. Init => IInv
  BY InitInvariant
<1>2. IInv /\ [Next]_vars => IInv'
  BY CallerKeeps, RecordStepKeeps, BookmarkStepKeeps, AliasStepKeeps, FreeItemsKeeps,
     StutterKeeps DEF Next
<1> QED
  BY <1>1, <1>2, PTL DEF Spec

LEMMA OwnedLive ==
  ASSUME IInv, NEW o \in Owned
  PROVE  o \in Live(heap)
<1>1. o \in 1 .. Len(heap) /\ heap[o].rc > 0
  BY OwnedCount DEF IInv, HeapOK
<1> QED
  BY <1>1 DEF Live

LEMMA HoldersCounted ==
  ASSUME IInv, NEW o \in 1 .. Len(heap)
  PROVE  Holders(heap, o) \in Nat /\ Holders(heap, o) <= Cardinality(Refs(heap, o))
         /\ heap[o].rc \in Nat /\ Cardinality(Refs(heap, o)) \in Nat
<1> DEFINE H == HeldBy(heap, Live(heap), o)
           R == Refs(heap, o)
<1>1. IsHeap(heap)
  BY DEF IInv, HeapOK
<1>2. H \subseteq R
  <2>1. Live(heap) \subseteq 1 .. Len(heap)
    BY DEF Live
  <2> QED
    BY <2>1 DEF Refs, HeldBy
<1>3. IsFiniteSet(R) /\ Cardinality(R) \in Nat
  BY <1>1, RefsFinite
<1> HIDE DEF H, R
<1>4. IsFiniteSet(H) /\ Cardinality(H) <= Cardinality(R) /\ Cardinality(H) \in Nat
  BY <1>2, <1>3, FS_Subset, FS_CardinalityType
<1>5. heap[o].rc \in Nat
  BY DEF IInv, TypeOK
<1> QED
  BY <1>3, <1>4, <1>5 DEF Holders, H, R

LEMMA NoneFreedEarly ==
  ASSUME IInv
  PROVE  NothingFreedEarly
<1>1. \A k \in 1 .. Len(stack) : Locals(stack[k]) \subseteq Live(heap)
  <2>1. \A k \in 1 .. Len(stack) : Locals(stack[k]) \subseteq Owned
    BY DEF Owned, LocalsFrom
  <2> QED
    BY <2>1, OwnedLive
<1>2. {plist, records} \ {0} \subseteq Live(heap)
  BY OwnedLive DEF Owned, Nonzero
<1>3. ret # <<>> => Ret \in Live(heap) \union {0}
  BY OwnedLive DEF Owned, Given, Nonzero
<1>4. ASSUME NEW o \in 1 .. Len(heap)
      PROVE  heap[o].rc >= Holders(heap, o)
  <2>1. heap[o].rc - Cardinality(Refs(heap, o)) - (IF o \in Owned THEN 1 ELSE 0) >= 0
    BY DEF IInv, HeapOK, Balanced, Spare
  <2> QED
    BY <2>1, HoldersCounted
<1> QED
  BY <1>1, <1>2, <1>3, <1>4 DEF NothingFreedEarly

(* At the end nobody owns anything, and what is freed holds nothing.       *)
LEMMA DoneFacts ==
  ASSUME IInv, step = "done", Freed(heap) = {}, NEW o \in 1 .. Len(heap)
  PROVE  /\ Refs(heap, o) = HeldBy(heap, Live(heap), o)
         /\ heap[o].rc >= Holders(heap, o)
         /\ heap[o].site \notin KnownLeaks => heap[o].rc = Holders(heap, o)
<1>1. stack = <<>> /\ ret = <<>> /\ plist = 0 /\ records = 0
  BY DEF IInv, CallerOK
<1>2. Owned = {} /\ Leaks = KnownLeaks
  BY <1>1 DEF Owned, LocalsFrom, Given, Nonzero, Leaks
<1>3. ASSUME NEW p \in 1 .. Len(heap), p \notin Live(heap)
      PROVE  Held(heap, p, o) = {}
  <2>1. heap[p].rc \in Nat /\ ~(heap[p].rc > 0)
    BY <1>3 DEF IInv, TypeOK, Live
  <2>2. heap[p].items = <<>>
    BY <2>1 DEF Freed
  <2> QED
    BY <2>2 DEF Held
<1>4. Refs(heap, o) = HeldBy(heap, Live(heap), o)
  <2>1. Live(heap) \subseteq 1 .. Len(heap)
    BY DEF Live
  <2>2. \A p \in (1 .. Len(heap)) \ Live(heap) : {p} \X Held(heap, p, o) = {}
    BY <1>3
  <2> QED
    BY <2>1, <2>2 DEF Refs, HeldBy
<1>5. /\ Spare(heap, Owned, o) >= 0
      /\ heap[o].site \notin KnownLeaks => Spare(heap, Owned, o) = 0
  BY <1>2 DEF IInv, HeapOK, Balanced
<1>6. Spare(heap, Owned, o) = heap[o].rc - Holders(heap, o) - 0
  BY <1>2, <1>4 DEF Spare, Holders
<1>7. heap[o].rc \in Nat /\ Holders(heap, o) \in Nat
  BY HoldersCounted
<1> QED
  BY <1>4, <1>5, <1>6, <1>7

(* What lives is held by what lives, further up, so nothing does.          *)
LEMMA CleanHeapEmpty ==
  ASSUME IInv, step = "done", Freed(heap) = {}, KnownLeaks = {}
  PROVE  Live(heap) = {}
<1> DEFINE lev(o) == Level[heap[o].site]
<1>1. \A o \in 1 .. Len(heap) : lev(o) \in 0 .. 4
  BY DEF IInv, HeapOK, Layered, Level
<1>2. ASSUME NEW o \in Live(heap)
      PROVE  \E p \in Live(heap) : lev(o) > lev(p)
  <2>1. o \in 1 .. Len(heap) /\ heap[o].rc > 0 /\ o # 0
    BY DEF Live
  <2>2. heap[o].rc = Holders(heap, o)
    BY <2>1, DoneFacts
  <2>3. HeldBy(heap, Live(heap), o) # {}
    <3>1. Cardinality(HeldBy(heap, Live(heap), o)) > 0
      BY <2>1, <2>2 DEF Holders
    <3>2. Cardinality({}) = 0
      BY FS_EmptySet
    <3> QED
      BY <3>1, <3>2
  <2>4. PICK p \in Live(heap) : \E k \in DOMAIN heap[p].items : heap[p].items[k].ref = o
    BY <2>3 DEF HeldBy, Held
  <2>5. p \in 1 .. Len(heap)
    BY DEF Live
  <2>6. lev(o) > lev(p)
    BY <2>1, <2>4, <2>5 DEF IInv, HeapOK, Layered
  <2> QED
    BY <2>6
<1>3. Live(heap) \subseteq 1 .. Len(heap)
  BY DEF Live
<1> HIDE DEF lev
<1>4. \A o \in Live(heap) : lev(o) # 0
  BY <1>1, <1>2, <1>3
<1>5. \A o \in Live(heap) : lev(o) # 1
  BY <1>1, <1>2, <1>3, <1>4
<1>6. \A o \in Live(heap) : lev(o) # 2
  BY <1>1, <1>2, <1>3, <1>4, <1>5
<1>7. \A o \in Live(heap) : lev(o) # 3
  BY <1>1, <1>2, <1>3, <1>4, <1>5, <1>6
<1>8. \A o \in Live(heap) : lev(o) # 4
  BY <1>1, <1>2, <1>3, <1>4, <1>5, <1>6, <1>7
<1> QED
  BY <1>1, <1>3, <1>4, <1>5, <1>6, <1>7, <1>8

LEMMA EndLeaksKnown ==
  ASSUME IInv
  PROVE  LeaksAreKnown
<1> SUFFICES ASSUME step = "done", Freed(heap) = {}
             PROVE  LeaksAreKnown
  BY DEF LeaksAreKnown
<1>1. (\A k \in 1 .. Len(recs) : ~Leaky(recs[k])) => Live(heap) = {}
  BY CleanHeapEmpty DEF KnownLeaks
<1>2. LeftBehind \subseteq KnownLeaks
  <2>1. ASSUME NEW o \in Live(heap), heap[o].rc > Holders(heap, o)
        PROVE  heap[o].site \in KnownLeaks
    <3>1. o \in 1 .. Len(heap)
      BY DEF Live
    <3>2. heap[o].rc \in Nat /\ Holders(heap, o) \in Nat
      BY <3>1, HoldersCounted
    <3> QED
      BY <2>1, <3>1, <3>2, DoneFacts
  <2> QED
    BY <2>1 DEF LeftBehind
<1>3. /\ KnownLeaks \subseteq {"item", "toc", "entries", "arr", "data", "metadataItems",
                               "cnids", "alias_t", "copy", "pict"}
      /\ KnownLeaks \intersect {"copy", "pict"} # {} =>
           \E k \in 1 .. Len(recs) : recs[k].type = "icvp"
  BY DEF KnownLeaks
<1> QED
  BY <1>1, <1>2, <1>3 DEF LeaksAreKnown

-----------------------------------------------------------------------------
(* The properties of the runs.                                             *)

(* Counts never become negative, what a container holds is an object of    *)
(* the heap, and the variables of the callers are in their ranges.         *)
THEOREM TypeCorrect ==
  Spec => []TypeOK
BY OwnershipInvariant, PTL DEF IInv

(* For any records, whatever they nest: no object is freed while a         *)
(* function, the record or the caller has it, or while a container holds   *)
(* it.                                                                     *)
THEOREM NoObjectFreedEarly ==
  Spec => []NothingFreedEarly
<1>1. IInv => NothingFreedEarly
  BY NoneFreedEarly
<1> QED
  BY <1>1, OwnershipInvariant, PTL

(* The property list that a record caches keeps what was read: the alias   *)
(* of an 'icvp' list is put in a copy.                                     *)
THEOREM CachedListUntouched ==
  Spec => []PlistUntouched
BY OwnershipInvariant, PTL DEF IInv

(* When a command ends, nothing is left of records without a bookmark, an  *)
(* alias or an 'icvp' list, and of the others only what the code has no    *)
(* release for.                                                            *)
THEOREM OnlyKnownLeaks ==
  Spec => []LeaksAreKnown
<1>1. IInv => LeaksAreKnown
  BY EndLeaksKnown
<1> QED
  BY <1>1, OwnershipInvariant, PTL

-----------------------------------------------------------------------------
(* Levels of calls.                                                        *)

(* Natural numbers in order: the initial intervals are well-founded by     *)
(* inclusion, so that a set that 0 is in, and with each number the next,   *)
(* has them all.                                                           *)
LEMMA NumbersInOrder ==
  ASSUME NEW S, 0 \in S, \A k \in Nat : k \in S => k + 1 \in S
  PROVE  Nat \subseteq S
<1> DEFINE Before(i) == 0 .. i - 1
           T == {Before(i) : i \in Nat \ S}
<1> SUFFICES ASSUME Nat \ S # {} PROVE FALSE
  OBVIOUS
<1>1. T \subseteq FiniteSubsetsOf(Nat) /\ T # {}
  <2>1. \A i \in Nat : IsFiniteSet(0 .. i - 1)
    BY FS_Interval
  <2>2. \A i \in Nat : Before(i) \in FiniteSubsetsOf(Nat)
    BY <2>1 DEF FiniteSubsetsOf
  <2> QED
    BY <2>2
<1>2. PICK t \in T : \A u \in T : <<u, t>> \notin StrictSubsetOrdering(Nat)
  <2>1. IsWellFoundedOn(StrictSubsetOrdering(Nat), FiniteSubsetsOf(Nat))
    BY FS_StrictSubsetOrderingWellFounded
  <2> HIDE DEF T
  <2> QED
    BY <1>1, <2>1, WFMin
<1>3. PICK i \in Nat \ S : t = Before(i)
  OBVIOUS
<1>4. i - 1 \in Nat \ S
  <2>1. i # 0
    BY <1>3
  <2>2. i - 1 \in Nat /\ (i - 1) + 1 = i
    BY <1>3, <2>1
  <2> QED
    BY <1>3, <2>2
<1>5. <<Before(i - 1), Before(i)>> \notin StrictSubsetOrdering(Nat)
  BY <1>2, <1>3, <1>4
<1>6. Before(i - 1) \subseteq Before(i) /\ i - 1 \in Before(i) /\ i - 1 \notin Before(i - 1)
  BY <1>4
<1>7. Before(i - 1) \in SUBSET Nat /\ Before(i) \in SUBSET Nat
  BY <1>4
<1> HIDE DEF Before
<1> QED
  BY <1>5, <1>6, <1>7 DEF StrictSubsetOrdering

(* The levels below an activation, as far as the level l. *)
Levels(r, c, l, f) ==
  /\ f[0] = {c}
  /\ \A e \in 0 .. l - 1 : f[e + 1] = UNION {Calls(r, x) : x \in f[e]}

LEMMA LevelsExist ==
  ASSUME NEW r, NEW c, NEW l \in Nat
  PROVE  \E f : Levels(r, c, l, f)
<1> DEFINE S == {k \in Nat : \E f : Levels(r, c, k, f)}
<1>1. 0 \in S
  <2> DEFINE f == [e \in {0} |-> {c}]
  <2>1. Levels(r, c, 0, f)
    BY DEF Levels
  <2> QED
    BY <2>1
<1>2. ASSUME NEW k \in Nat, k \in S
      PROVE  k + 1 \in S
  <2>1. PICK f : Levels(r, c, k, f)
    BY <1>2
  <2> DEFINE g == [e \in 0 .. k + 1 |->
                     IF e = k + 1 THEN UNION {Calls(r, x) : x \in f[k]} ELSE f[e]]
  <2>2. g[0] = f[0] /\ \A e \in 0 .. k : g[e] = f[e]
    OBVIOUS
  <2>3. g[k + 1] = UNION {Calls(r, x) : x \in g[k]}
    BY <2>2
  <2> HIDE DEF g
  <2>4. Levels(r, c, k + 1, g)
    <3>1. \A e \in 0 .. k : e = k \/ e \in 0 .. k - 1
      OBVIOUS
    <3>2. \A e \in 0 .. k - 1 : e \in 0 .. k /\ e + 1 \in 0 .. k
      OBVIOUS
    <3>3. \A e \in 0 .. k - 1 : g[e + 1] = UNION {Calls(r, x) : x \in g[e]}
      BY <2>1, <2>2, <3>2 DEF Levels
    <3> QED
      BY <2>1, <2>2, <2>3, <3>1, <3>3 DEF Levels
  <2> QED
    BY <2>4
<1> HIDE DEF S
<1>3. Nat \subseteq S
  BY <1>1, <1>2, NumbersInOrder
<1> QED
  BY <1>3 DEF S

LEMMA LevelsAgree ==
  ASSUME NEW r, NEW c, NEW k \in Nat, NEW l \in Nat, NEW f, Levels(r, c, k, f),
         NEW g, Levels(r, c, l, g), NEW e \in Nat, e <= k, e <= l
  PROVE  f[e] = g[e]
<1> DEFINE S == {i \in Nat : i <= k /\ i <= l => f[i] = g[i]}
<1>1. 0 \in S
  BY DEF Levels
<1>2. ASSUME NEW i \in Nat, i \in S
      PROVE  i + 1 \in S
  <2> SUFFICES ASSUME i + 1 <= k, i + 1 <= l PROVE f[i + 1] = g[i + 1]
    OBVIOUS
  <2>1. i \in 0 .. k - 1 /\ i \in 0 .. l - 1 /\ f[i] = g[i]
    BY <1>2
  <2> QED
    BY <2>1 DEF Levels
<1> HIDE DEF S
<1>3. Nat \subseteq S
  BY <1>1, <1>2, NumbersInOrder
<1> QED
  BY <1>3 DEF S

(* What the definition of Reaches says. *)
LEMMA ReachesEquation ==
  ASSUME NEW r, NEW c
  PROVE  /\ Reaches(r, c)[0] = {c}
         /\ \A e \in Nat : Reaches(r, c)[e + 1] = UNION {Calls(r, x) : x \in Reaches(r, c)[e]}
<1> DEFINE pick(l) == CHOOSE f : Levels(r, c, l, f)
           all == [e \in Nat |-> pick(e)[e]]
           Equation(f) == f = [e \in Nat |-> IF e = 0 THEN {c}
                                             ELSE UNION {Calls(r, x) : x \in f[e - 1]}]
<1>1. \A l \in Nat : Levels(r, c, l, pick(l))
  BY LevelsExist
<1> HIDE DEF pick
<1>2. ASSUME NEW e \in Nat
      PROVE  all[e] = IF e = 0 THEN {c} ELSE UNION {Calls(r, x) : x \in all[e - 1]}
  <2>1. CASE e = 0
    BY <1>1, <2>1 DEF Levels
  <2>2. CASE e # 0
    <3>1. e - 1 \in Nat /\ e - 1 \in 0 .. e - 1 /\ (e - 1) + 1 = e
      BY <2>2
    <3>2. pick(e)[e] = UNION {Calls(r, x) : x \in pick(e)[e - 1]}
      BY <1>1, <3>1 DEF Levels
    <3>3. pick(e)[e - 1] = pick(e - 1)[e - 1]
      BY <1>1, <3>1, LevelsAgree
    <3> QED
      BY <2>2, <3>1, <3>2, <3>3
  <2> QED
    BY <2>1, <2>2
<1> HIDE DEF all
<1>3. Equation(all)
  <2>1. all = [e \in Nat |-> all[e]]
    BY DEF all
  <2> QED
    BY <1>2, <2>1
<1>4. Equation(Reaches(r, c))
  <2>1. Reaches(r, c) = CHOOSE f : Equation(f)
    BY DEF Reaches
  <2> HIDE DEF Equation
  <2> QED
    BY <1>3, <2>1
<1> DEFINE f == Reaches(r, c)
<1> HIDE DEF f
<1>5. f = [e \in Nat |-> IF e = 0 THEN {c} ELSE UNION {Calls(r, x) : x \in f[e - 1]}]
  BY <1>4 DEF f
<1>6. f[0] = {c}
  BY <1>5
<1>7. ASSUME NEW e \in Nat
      PROVE  f[e + 1] = UNION {Calls(r, x) : x \in f[e]}
  <2>1. e + 1 \in Nat /\ e + 1 # 0 /\ (e + 1) - 1 = e
    OBVIOUS
  <2> QED
    BY <1>5, <2>1
<1> QED
  BY <1>6, <1>7 DEF f

(* The levels below an activation are those below the ones it makes. *)
LEMMA ReachesThrough ==
  ASSUME NEW r, NEW c, NEW e \in Nat
  PROVE  Reaches(r, c)[e + 1] = UNION {Reaches(r, x)[e] : x \in Calls(r, c)}
<1> DEFINE S == {l \in Nat : Reaches(r, c)[l + 1] = UNION {Reaches(r, x)[l] : x \in Calls(r, c)}}
<1>1. 0 \in S
  <2>1. Reaches(r, c)[0 + 1] = Calls(r, c)
    <3>1. Reaches(r, c)[0] = {c} /\ Reaches(r, c)[0 + 1] = UNION {Calls(r, x) : x \in Reaches(r, c)[0]}
      BY ReachesEquation
    <3>2. UNION {Calls(r, x) : x \in {c}} = Calls(r, c)
      OBVIOUS
    <3> QED
      BY <3>1, <3>2
  <2>2. \A x : Reaches(r, x)[0] = {x}
    BY ReachesEquation
  <2> QED
    BY <2>1, <2>2
<1>2. ASSUME NEW l \in Nat, l \in S
      PROVE  l + 1 \in S
  <2>1. Reaches(r, c)[(l + 1) + 1] = UNION {Calls(r, y) : y \in Reaches(r, c)[l + 1]}
    BY ReachesEquation
  <2>2. Reaches(r, c)[l + 1] = UNION {Reaches(r, x)[l] : x \in Calls(r, c)}
    BY <1>2
  <2>3. \A x : Reaches(r, x)[l + 1] = UNION {Calls(r, y) : y \in Reaches(r, x)[l]}
    BY ReachesEquation
  <2>4. ASSUME NEW z
        PROVE  z \in Reaches(r, c)[(l + 1) + 1]
                 <=> z \in UNION {Reaches(r, x)[l + 1] : x \in Calls(r, c)}
    <3>1. z \in Reaches(r, c)[(l + 1) + 1] <=> \E y \in Reaches(r, c)[l + 1] : z \in Calls(r, y)
      BY <2>1
    <3>2. \A y : y \in Reaches(r, c)[l + 1] <=> \E x \in Calls(r, c) : y \in Reaches(r, x)[l]
      BY <2>2
    <3>3. \A x : z \in Reaches(r, x)[l + 1] <=> \E y \in Reaches(r, x)[l] : z \in Calls(r, y)
      BY <2>3
    <3>4. (\E y \in Reaches(r, c)[l + 1] : z \in Calls(r, y))
            <=> \E x \in Calls(r, c) : \E y \in Reaches(r, x)[l] : z \in Calls(r, y)
      BY <3>2
    <3>5. z \in UNION {Reaches(r, x)[l + 1] : x \in Calls(r, c)}
            <=> \E x \in Calls(r, c) : z \in Reaches(r, x)[l + 1]
      OBVIOUS
    <3> QED
      BY <3>1, <3>3, <3>4, <3>5
  <2>5. Reaches(r, c)[(l + 1) + 1] = UNION {Reaches(r, x)[l + 1] : x \in Calls(r, c)}
    BY <2>4
  <2> QED
    BY <2>5
<1> HIDE DEF S
<1>3. Nat \subseteq S
  BY <1>1, <1>2, NumbersInOrder
<1> QED
  BY <1>3 DEF S

(* An activation that is given what it needs returns if all it makes do. *)
LEMMA CompletesIf ==
  ASSUME NEW r, NEW c, NEW d \in Nat, d <= MaxDepth, Accepts(c),
         \A x \in Calls(r, c) : Completes(r, x, d + 1)
  PROVE  Completes(r, c, d)
<1>1. MaxDepth \in Nat
  BY SizesAssumption
<1>2. ASSUME NEW e \in 0 .. MaxDepth, NEW x \in Reaches(r, c)[e]
      PROVE  Accepts(x) /\ d + e <= MaxDepth
  <2>1. CASE e = 0
    BY <2>1, ReachesEquation
  <2>2. CASE e # 0
    <3>1. e - 1 \in Nat /\ e - 1 \in 0 .. MaxDepth /\ (e - 1) + 1 = e
      BY <1>1, <2>2
    <3>2. PICK y \in Calls(r, c) : x \in Reaches(r, y)[e - 1]
      BY <3>1, ReachesThrough
    <3>3. Accepts(x) /\ (d + 1) + (e - 1) <= MaxDepth
      BY <3>1, <3>2 DEF Completes
    <3> QED
      BY <1>1, <3>1, <3>3
  <2> QED
    BY <2>1, <2>2
<1> QED
  BY <1>2 DEF Completes

(* What a sound record leads to is accepted, and there is room for it. *)
LEMMA SoundReaches ==
  ASSUME NEW r, Sound(r), NEW k \in 1 .. MaxDepth + 1, NEW c \in Reaches(r, Root(r))[k - 1]
  PROVE  Accepts(c) /\ k <= MaxDepth
<1>1. MaxDepth \in Nat
  BY SizesAssumption
<1>2. k - 1 \in 0 .. MaxDepth /\ 1 + (k - 1) = k
  BY <1>1
<1> QED
  BY <1>2 DEF Sound, Completes

LEMMA ReachesNext ==
  ASSUME NEW r, NEW k \in Nat \ {0}, NEW c \in Reaches(r, Root(r))[k - 1], NEW x \in Calls(r, c)
  PROVE  x \in Reaches(r, Root(r))[(k + 1) - 1]
<1>1. k - 1 \in Nat /\ (k - 1) + 1 = (k + 1) - 1
  OBVIOUS
<1> QED
  BY <1>1, ReachesEquation

-----------------------------------------------------------------------------
(* Steps of the activations.                                               *)

LEMMA RecKept ==
  ASSUME UNCHANGED caller
  PROVE  Rec' = Rec /\ recs' = recs /\ n' = n /\ step' = step
BY DEF caller, Rec

LEMMA LevelsStep ==
  ASSUME SInv, UNCHANGED <<stop, caller>>, step # "free", LevelsOK',
         ret' # <<>> =>
           IF stack' # <<>> THEN Completes(Rec, Pending(Rec, Top'), Len(stack') + 1)
           ELSE IF Ret' = 0 THEN ~Accepts(Root(Rec)) ELSE Sound(Rec)
  PROVE  SInv'
<1>1. /\ Rec' = Rec /\ recs' = recs /\ n' = n /\ step' = step /\ stop' = stop /\ plist' = plist
      /\ ListRead'
  BY RecKept DEF caller, SInv, ListRead
<1>2. StopsAtUnsound'
  BY <1>1 DEF SInv, StopsAtUnsound
<1>3. ResultOK'
  BY <1>1 DEF ResultOK
<1> QED
  BY <1>1, <1>2, <1>3 DEF SInv

(* What is known when an activation runs. *)
LEMMA RunFacts ==
  ASSUME IInv, SInv, stack # <<>>
  PROVE  /\ Len(stack) \in Nat /\ Len(stack) \in 1 .. Len(stack)
         /\ ActivationOK(Rec, Top, Len(stack)) /\ step # "free"
         /\ Len(stack) <= MaxDepth + 1 /\ MaxDepth \in Nat
         /\ Top.fn = "record" => Len(stack) = 1 /\ Top.arg = Rec
         /\ Len(stack) = 1 => Top.fn = "record" /\ Top.arg = Rec
<1>1. Len(stack) \in Nat /\ Len(stack) \in 1 .. Len(stack)
  BY StackFacts DEF IInv
<1>2. ActivationOK(Rec, Top, Len(stack)) /\ Len(stack) <= MaxDepth + 1
  BY <1>1 DEF SInv, LevelsOK, Top
<1>3. step # "free"
  BY ConvertFacts
<1>4. (Top.fn = "record" <=> Len(stack) = 1) /\ RecordOK(Top)
  BY <1>1, ConvertFacts DEF IInv, StackOK, Top
<1> QED
  BY <1>1, <1>2, <1>3, <1>4, SizesAssumption DEF RecordOK

(* The running activation goes on with fr. *)
LEMMA GotoLevels ==
  ASSUME IInv, SInv, stack # <<>>, NEW fr, Goto(fr), fr.fn = Top.fn, fr.arg = Top.arg,
         ActivationOK(Rec, fr, Len(stack))
  PROVE  SInv'
<1>1. IsSequence(stack) /\ Len(stack) \in 1 .. Len(stack) /\ Len(stack) \in Nat
  BY StackFacts DEF IInv, StackOK
<1>2. stack' = With(stack, Len(stack), fr)
  BY DEF Goto, SetTop, With
<1>3. /\ IsSequence(stack') /\ Len(stack') = Len(stack)
      /\ \A k \in 1 .. Len(stack) : stack'[k] = IF k = Len(stack) THEN fr ELSE stack[k]
  BY <1>1, <1>2, ExceptSequence
<1>4. UNCHANGED <<stop, caller>> /\ ret' = <<>> /\ Rec' = Rec
  BY RecKept DEF Goto
<1>5. \A k \in 1 .. Len(stack) : ActivationOK(Rec, stack'[k], k)
  BY <1>3 DEF SInv, LevelsOK
<1>6. ASSUME NEW k \in 1 .. Len(stack) - 1
      PROVE  CallOf(stack'[k + 1]) = Pending(Rec, stack'[k])
  <2>1. CallOf(stack[k + 1]) = Pending(Rec, stack[k])
    BY DEF SInv, LevelsOK
  <2>2. k \in 1 .. Len(stack) /\ k # Len(stack) /\ k + 1 \in 1 .. Len(stack)
    BY <1>1
  <2>3. stack'[k] = stack[k] /\ CallOf(stack'[k + 1]) = CallOf(stack[k + 1])
    BY <1>3, <2>2 DEF CallOf, Top
  <2> QED
    BY <2>1, <2>3
<1>7. LevelsOK'
  BY <1>3, <1>4, <1>5, <1>6 DEF SInv, LevelsOK
<1> QED
  BY <1>4, <1>7, LevelsStep, RunFacts

(* It calls what it waits for then. *)
LEMMA CallLevels ==
  ASSUME IInv, SInv, stack # <<>>, ret = <<>>, Len(stack) <= MaxDepth,
         NEW fr, NEW fn, NEW arg, Call(fr, fn, arg), fr.fn = Top.fn, fr.arg = Top.arg,
         ActivationOK(Rec, fr, Len(stack)),
         Activation(fn, arg) = Pending(Rec, fr), Activation(fn, arg) \in Calls(Rec, CallOf(fr)),
         PlaceOK(Rec, Frame(fn, arg)), Past(Rec, Frame(fn, arg)) = {}
  PROVE  SInv'
<1> DEFINE st == With(stack, Len(stack), fr)
           callee == Frame(fn, arg)
<1>1. IsSequence(stack) /\ Len(stack) \in 1 .. Len(stack) /\ Len(stack) \in Nat
  BY StackFacts DEF IInv, StackOK
<1>2. stack' = Append(st, callee)
  BY DEF Call, SetTop, With
<1>3. /\ IsSequence(st) /\ Len(st) = Len(stack)
      /\ \A k \in 1 .. Len(stack) : st[k] = IF k = Len(stack) THEN fr ELSE stack[k]
  BY <1>1, ExceptSequence
<1> HIDE DEF st
<1>4. callee.fn = fn /\ callee.arg = arg /\ callee.pc = "enter"
  BY DEF Frame
<1> HIDE DEF callee
<1>5. /\ IsSequence(stack') /\ Len(stack') = Len(stack) + 1
      /\ \A k \in 1 .. Len(stack) : stack'[k] = IF k = Len(stack) THEN fr ELSE stack[k]
      /\ stack'[Len(stack) + 1] = callee
  BY <1>2, <1>3, AppendSequence
<1>6. UNCHANGED <<stop, caller>> /\ ret' = <<>> /\ Rec' = Rec
  BY RecKept DEF Call
<1>7. CallOf(fr) \in Reaches(Rec, Root(Rec))[Len(stack) - 1]
  BY DEF ActivationOK
<1>8. CallOf(callee) = Activation(fn, arg)
  BY <1>4 DEF CallOf
<1>9. ActivationOK(Rec, callee, Len(stack) + 1)
  <2>1. CallOf(callee) \in Reaches(Rec, Root(Rec))[(Len(stack) + 1) - 1]
    BY <1>1, <1>7, <1>8, ReachesNext
  <2>2. PlaceOK(Rec, callee) /\ Past(Rec, callee) = {}
    BY DEF callee
  <2> QED
    BY <1>4, <2>1, <2>2 DEF ActivationOK
<1>10. \A k \in 1 .. Len(stack) + 1 : ActivationOK(Rec, stack'[k], k)
  <2>1. \A k \in 1 .. Len(stack) : ActivationOK(Rec, stack'[k], k)
    BY <1>5 DEF SInv, LevelsOK
  <2>2. \A k \in 1 .. Len(stack) + 1 : k \in 1 .. Len(stack) \/ k = Len(stack) + 1
    BY <1>1
  <2> QED
    BY <1>5, <1>9, <2>1, <2>2
<1>11. ASSUME NEW k \in 1 .. Len(stack)
       PROVE  CallOf(stack'[k + 1]) = Pending(Rec, stack'[k])
  <2>1. CASE k = Len(stack)
    BY <1>5, <1>8, <2>1
  <2>2. CASE k # Len(stack)
    <3>1. k \in 1 .. Len(stack) - 1 /\ k + 1 \in 1 .. Len(stack)
      BY <1>1, <2>2
    <3>2. CallOf(stack[k + 1]) = Pending(Rec, stack[k])
      BY <3>1 DEF SInv, LevelsOK
    <3>3. stack'[k] = stack[k] /\ CallOf(stack'[k + 1]) = CallOf(stack[k + 1])
      BY <1>5, <2>2, <3>1 DEF CallOf, Top
    <3> QED
      BY <3>2, <3>3
  <2> QED
    BY <2>1, <2>2
<1>12. LevelsOK'
  <2>1. Len(stack') <= MaxDepth + 1 /\ Len(stack') - 1 = Len(stack)
    BY <1>1, <1>5, SizesAssumption
  <2> QED
    BY <1>5, <1>6, <1>10, <1>11, <2>1 DEF LevelsOK
<1> QED
  BY <1>6, <1>12, LevelsStep, RunFacts

(* It returns to the one that waits for it. *)
LEMMA ReturnLevels ==
  ASSUME IInv, SInv, stack # <<>>, NEW o, Return(o),
         IF o = 0 THEN Len(stack) = 1 /\ ~Accepts(Root(Rec))
         ELSE Completes(Rec, CallOf(Top), Len(stack))
  PROVE  SInv'
<1> DEFINE len == Len(stack)
<1>1. IsSequence(stack) /\ len \in 1 .. len /\ len \in Nat /\ len # 0
  BY StackFacts DEF IInv, StackOK
<1>2. stack' = SubSeq(stack, 1, len - 1) /\ ret' = <<o>> /\ UNCHANGED <<stop, caller>>
  BY DEF Return
<1>3. IsSequence(stack') /\ Len(stack') = len - 1 /\ \A k \in 1 .. len - 1 : stack'[k] = stack[k]
  BY <1>1, <1>2, ButLast
<1>4. Rec' = Rec /\ Ret' = o
  BY <1>2, RecKept DEF Ret
<1>5. LevelsOK'
  <2>1. len - 1 <= MaxDepth + 1 /\ 1 .. len - 1 \subseteq 1 .. len /\ (len - 1) - 1 <= len - 1
    BY <1>1, RunFacts
  <2>2. \A k \in 1 .. len - 1 : ActivationOK(Rec, stack'[k], k)
    BY <1>3, <2>1 DEF SInv, LevelsOK
  <2>3. ASSUME NEW k \in 1 .. (len - 1) - 1
        PROVE  CallOf(stack'[k + 1]) = Pending(Rec, stack'[k])
    <3>1. k \in 1 .. len - 1 /\ k + 1 \in 1 .. len - 1
      BY <1>1
    <3>2. CallOf(stack[k + 1]) = Pending(Rec, stack[k])
      BY <3>1 DEF SInv, LevelsOK
    <3> QED
      BY <1>3, <3>1, <3>2
  <2> QED
    BY <1>3, <1>4, <2>1, <2>2, <2>3 DEF LevelsOK
<1>6. CASE len = 1
  <2>1. stack' = <<>>
    BY <1>3, <1>6, EmptyOrNot
  <2>2. o # 0 => Sound(Rec)
    BY <1>6, RunFacts DEF Sound, Root, CallOf
  <2> QED
    BY <1>2, <1>4, <1>5, <2>1, <2>2, LevelsStep, RunFacts
<1>7. CASE len # 1
  <2>1. len - 1 \in 1 .. len - 1 /\ (len - 1) + 1 = len
    <3>1. len \in Nat /\ len # 0 /\ len # 1
      BY <1>1, <1>7
    <3> HIDE DEF len
    <3> QED
      BY <3>1
  <2>2. Top' = stack[len - 1] /\ stack' # <<>>
    BY <1>3, <2>1, EmptyOrNot DEF Top
  <2>3. CallOf(Top) = Pending(Rec, Top')
    BY <2>1, <2>2 DEF SInv, LevelsOK, Top
  <2>4. Completes(Rec, Pending(Rec, Top'), Len(stack') + 1)
    BY <1>3, <1>7, <2>1, <2>3
  <2> QED
    BY <1>2, <1>5, <2>2, <2>4, LevelsStep, RunFacts
<1> QED
  BY <1>6, <1>7

(* All that it calls has returned to it. *)
LEMMA ReturnsComplete ==
  ASSUME IInv, SInv, stack # <<>>, Len(stack) <= MaxDepth, NEW o, Return(o), o # 0,
         Accepts(CallOf(Top)), Calls(Rec, CallOf(Top)) \subseteq Past(Rec, Top)
  PROVE  SInv'
<1>1. Len(stack) \in Nat /\ ActivationOK(Rec, Top, Len(stack))
  BY RunFacts
<1>2. \A c \in Calls(Rec, CallOf(Top)) : Completes(Rec, c, Len(stack) + 1)
  BY <1>1 DEF ActivationOK
<1>3. Completes(Rec, CallOf(Top), Len(stack))
  BY <1>1, <1>2, CompletesIf
<1> QED
  BY <1>3, ReturnLevels

(* The program stops at an activation that does not return. *)
LEMMA HaltLevels ==
  ASSUME IInv, SInv, stack # <<>>, NEW how, Halt(how),
         ~Accepts(CallOf(Top)) \/ Len(stack) > MaxDepth
  PROVE  SInv'
<1>1. /\ Len(stack) \in Nat /\ Len(stack) \in 1 .. MaxDepth + 1
      /\ ActivationOK(Rec, Top, Len(stack))
  BY RunFacts
<1>2. ~Sound(Rec)
  BY <1>1, SoundReaches, SizesAssumption DEF ActivationOK
<1>3. UNCHANGED <<stack, ret, caller>> /\ Rec' = Rec /\ recs' = recs /\ n' = n /\ step' = step
  BY RecKept DEF Halt
<1>4. Top' = Top /\ Ret' = Ret
  BY <1>3 DEF Top, Ret
<1>5. StopsAtUnsound'
  BY <1>2, <1>3 DEF SInv, StopsAtUnsound
<1>6. LevelsOK' /\ ResultOK' /\ ListRead'
  BY <1>3, <1>4 DEF SInv, LevelsOK, ResultOK, ListRead, Halt, caller
<1> QED
  BY <1>5, <1>6 DEF SInv

-----------------------------------------------------------------------------
(* Steps of the caller.                                                    *)

LEMMA EmptyLevels ==
  ASSUME stack' = <<>>
  PROVE  LevelsOK'
BY SizesAssumption, ShortSequences DEF LevelsOK

LEMMA FetchRecordLevels ==
  ASSUME IInv, SInv, FetchRecord
  PROVE  SInv'
<1> DEFINE fr == Frame("record", Rec)
<1>1. /\ stack' = <<fr>> /\ step' = "convert" /\ UNCHANGED <<recs, n, stop, ret>>
      /\ plist' = IF Rec.plist = "none" THEN 0 ELSE Len(heap) + 1
  BY DEF FetchRecord
<1>2. Rec' = Rec /\ ret' = <<>>
  BY <1>1 DEF IInv, CallerOK, FetchRecord, Rec
<1>3. Len(heap) \in Nat
  BY SequenceDomain DEF IInv, HeapOK, IsHeap
<1>4. ListRead'
  BY <1>1, <1>2, <1>3 DEF ListRead
<1>5. StopsAtUnsound' /\ ResultOK'
  BY <1>1, <1>2 DEF SInv, StopsAtUnsound, ResultOK
<1>6. ActivationOK(Rec, fr, 1)
  <2>1. PlaceOK(Rec, fr) /\ Past(Rec, fr) = {} /\ fr.pc = "enter" /\ CallOf(fr) = Root(Rec)
    BY DEF PlaceOK, Past, CallOf, Root, Frame, In
  <2>2. CallOf(fr) \in Reaches(Rec, Root(Rec))[1 - 1]
    BY <2>1, ReachesEquation
  <2> QED
    BY <2>1, <2>2 DEF ActivationOK
<1> HIDE DEF fr
<1>7. LevelsOK'
  <2>1. Len(stack') = 1 /\ stack'[1] = fr
    BY <1>1
  <2>2. \A k \in 1 .. Len(stack') : k = 1
    BY <2>1
  <2>3. 1 .. Len(stack') - 1 = {} /\ Len(stack') <= MaxDepth + 1
    BY <2>1, SizesAssumption
  <2> QED
    BY <1>2, <1>6, <2>1, <2>2, <2>3 DEF LevelsOK
<1> QED
  BY <1>4, <1>5, <1>7 DEF SInv

LEMMA NullDictionaryLevels ==
  ASSUME IInv, SInv, NullDictionary
  PROVE  SInv'
<1>1. /\ UNCHANGED <<stack, ret, caller>> /\ stack = <<>> /\ ret # <<>> /\ Ret = 0
      /\ Rec' = Rec /\ recs' = recs /\ n' = n /\ step' = step /\ plist' = plist
  BY RecKept DEF NullDictionary, Returned, Halt, caller
<1>2. ~Accepts(Root(Rec))
  BY <1>1 DEF SInv, ResultOK
<1>3. ~Sound(Rec)
  <2>1. 1 \in 1 .. MaxDepth + 1 /\ Root(Rec) \in Reaches(Rec, Root(Rec))[1 - 1]
    BY ReachesEquation, SizesAssumption
  <2> QED
    BY <1>2, <2>1, SoundReaches
<1>4. Ret' = Ret
  BY <1>1 DEF Ret
<1>5. StopsAtUnsound' /\ ResultOK' /\ ListRead'
  BY <1>1, <1>3, <1>4 DEF SInv, StopsAtUnsound, ResultOK, ListRead
<1> QED
  BY <1>1, <1>5, EmptyLevels DEF SInv

LEMMA ReturnedLevels ==
  ASSUME IInv, SInv, DumpRecord \/ CollectRecord
  PROVE  SInv'
<1>1. /\ Returned /\ Ret # 0 /\ stack' = <<>> /\ ret' = <<>> /\ step' = "free"
      /\ UNCHANGED <<recs, n, stop>> /\ ret # <<>> /\ stack = <<>>
  BY DEF DumpRecord, CollectRecord, Returned
<1>2. Rec' = Rec /\ Sound(Rec)
  BY <1>1 DEF SInv, ResultOK, Rec
<1>3. StopsAtUnsound' /\ ResultOK' /\ ListRead'
  BY <1>1, <1>2 DEF SInv, StopsAtUnsound, ResultOK, ListRead
<1> QED
  BY <1>1, <1>3, EmptyLevels DEF SInv

LEMMA FreeRecordLevels ==
  ASSUME IInv, SInv, FreeRecord
  PROVE  SInv'
<1>1. /\ step = "free" /\ n' = n + 1 /\ step' = "fetch"
      /\ UNCHANGED <<recs, stop, stack, ret>> /\ n \in Nat
  BY DEF FreeRecord, IInv, TypeOK
<1>2. stack = <<>> /\ ret = <<>>
  BY <1>1 DEF IInv, CallerOK
<1>3. Sound(recs[n + 1])
  BY <1>1 DEF SInv, ResultOK, Rec
<1>4. \A k \in 1 .. n + 1 : Sound(recs[k])
  <2>1. \A k \in 1 .. n + 1 : k \in 1 .. n \/ k = n + 1
    BY <1>1
  <2> QED
    BY <1>3, <2>1 DEF SInv, StopsAtUnsound
<1>5. stop = "no"
  BY <1>3 DEF SInv, StopsAtUnsound, Rec
<1>6. StopsAtUnsound' /\ ResultOK' /\ ListRead'
  BY <1>1, <1>2, <1>4, <1>5 DEF StopsAtUnsound, ResultOK, ListRead
<1> QED
  BY <1>1, <1>2, <1>6, EmptyLevels DEF SInv

LEMMA FinishLevels ==
  ASSUME IInv, SInv, Finish
  PROVE  SInv'
<1>1. /\ step = "fetch" /\ step' = "done" /\ UNCHANGED <<recs, n, stop, stack, ret>>
  BY DEF Finish
<1>2. stack = <<>> /\ ret = <<>>
  BY <1>1 DEF IInv, CallerOK
<1>3. Rec' = Rec
  BY <1>1 DEF Rec
<1>4. StopsAtUnsound' /\ ResultOK' /\ ListRead'
  BY <1>1, <1>2, <1>3 DEF SInv, StopsAtUnsound, ResultOK, ListRead
<1> QED
  BY <1>1, <1>2, <1>4, EmptyLevels DEF SInv

(* Nothing of this changes when an object's items are released. *)
LEMMA QuietLevels ==
  ASSUME IInv, SInv, UNCHANGED <<stop, stack, ret, caller>>
  PROVE  SInv'
<1>1. /\ Rec' = Rec /\ recs' = recs /\ n' = n /\ step' = step /\ plist' = plist
      /\ stack' = stack /\ ret' = ret /\ stop' = stop
  BY RecKept DEF caller
<1>2. Top' = Top /\ Ret' = Ret
  BY <1>1 DEF Top, Ret
<1> QED
  BY <1>1, <1>2 DEF SInv, StopsAtUnsound, LevelsOK, ResultOK, ListRead

-----------------------------------------------------------------------------
(* Steps of ds_record_copy_dictionary.                                     *)

Moved(fr, pc, i, j) ==
  fr.fn = Top.fn /\ fr.arg = Top.arg /\ fr.pc = pc /\ fr.i = i /\ fr.j = j

LEMMA MovedOK ==
  ASSUME IInv, SInv, stack # <<>>, NEW fr, NEW pc, NEW i, NEW j, Moved(fr, pc, i, j),
         PlaceOK(Rec, fr), Len(stack) <= MaxDepth, Top.fn # "item" => Accepts(CallOf(Top)),
         \A c \in Past(Rec, fr) : c \in Past(Rec, Top) \/ Completes(Rec, c, Len(stack) + 1)
  PROVE  ActivationOK(Rec, fr, Len(stack)) /\ CallOf(fr) = CallOf(Top)
<1>1. ActivationOK(Rec, Top, Len(stack))
  BY RunFacts
<1>2. CallOf(fr) = CallOf(Top)
  BY DEF CallOf, Moved
<1> QED
  BY <1>1, <1>2 DEF ActivationOK, Moved

LEMMA RecordLevels ==
  ASSUME IInv, SInv, At("record", "enter")
  PROVE  /\ stack # <<>> /\ ret = <<>> /\ Top.fn = "record" /\ Top.pc = "enter" /\ Top.arg = Rec
         /\ DOMAIN Top = {"fn", "pc", "arg", "i", "j"} \union Variables
         /\ Len(stack) = 1 /\ Len(stack) <= MaxDepth /\ CallOf(Top) = Root(Rec)
         /\ Top.i = 0 /\ Top.j = 0 /\ Dict # 0
         /\ plist = 0 <=> Rec.plist = "none"
         /\ Rec.size \in Nat /\ Rec.alias \in Aliases
<1>1. stack # <<>> /\ ret = <<>> /\ Top.fn = "record" /\ Top.pc = "enter" /\ Len(stack) <= MaxDepth
      /\ Len(heap) \in Nat
  BY AtFacts DEF At
<1>2. Len(stack) = 1 /\ Top.arg = Rec /\ ActivationOK(Rec, Top, Len(stack))
  BY <1>1, RunFacts
<1>3. Top.i = 0 /\ Top.j = 0
  BY <1>1, <1>2 DEF ActivationOK, PlaceOK
<1>4. FrameOK(heap, Top) /\ step = "convert"
  BY <1>1, ConvertFacts
<1>5. plist = 0 <=> Rec.plist = "none"
  BY <1>4 DEF SInv, ListRead
<1>6. Rec.size \in Nat /\ Rec.alias \in Aliases
  BY <1>1, ConvertFacts, InputsAssumption DEF IInv, TypeOK, Rec
<1> QED
  BY <1>1, <1>2, <1>3, <1>4, <1>5, <1>6 DEF CallOf, Root, FrameOK, Dict

LEMMA RecordEnds ==
  ASSUME IInv, SInv, At("record", "enter"), Return(Dict),
         Accepts(Root(Rec)), ~UsesBookmark(Rec), ~UsesAlias(Rec)
  PROVE  SInv'
<1>1. /\ stack # <<>> /\ CallOf(Top) = Root(Rec) /\ Len(stack) <= MaxDepth /\ Dict # 0
  BY RecordLevels
<1>2. Calls(Rec, CallOf(Top)) = {}
  BY <1>1 DEF Calls, Root, Activation
<1> QED
  BY <1>1, <1>2, ReturnsComplete

LEMMA RecordEndsAtOnce ==
  ASSUME IInv, SInv,
         \/ RecordScalar \/ RecordStruct \/ RecordWrongSize \/ RecordData \/ RecordPlist
         \/ IcvpPlain
  PROVE  SInv'
<1>1. At("record", "enter") /\ Return(Dict)
  BY DEF RecordScalar, RecordStruct, RecordWrongSize, RecordData, RecordPlist, IcvpPlain, BlobOf
<1>2. Top.arg = Rec /\ (plist = 0 <=> Rec.plist = "none")
  BY <1>1, RecordLevels
<1>3. Rec.data_type # "dutc" /\ ~UsesBookmark(Rec) /\ ~UsesAlias(Rec)
  <2>1. CASE RecordScalar
    BY <1>2, <2>1 DEF RecordScalar, UsesBookmark, UsesAlias
  <2>2. CASE RecordStruct
    BY <1>2, <2>2 DEF RecordStruct, BlobOf, Structs, UsesBookmark, UsesAlias
  <2>3. CASE RecordWrongSize
    <3>1. Rec.size \in Nat /\ BookmarkSize \in Nat
      BY <1>1, RecordLevels, SizesAssumption
    <3> QED
      BY <1>2, <2>3, <3>1 DEF RecordWrongSize, BlobOf, Structs, UsesBookmark, UsesAlias
  <2>4. CASE RecordData
    BY <1>2, <2>4 DEF RecordData, BlobOf, Others, UsesBookmark, UsesAlias
  <2>5. CASE RecordPlist
    BY <1>2, <2>5 DEF RecordPlist, BlobOf, UsesBookmark, UsesAlias
  <2>6. CASE IcvpPlain
    BY <1>2, <2>6 DEF IcvpPlain, BlobOf, UsesBookmark, UsesAlias
  <2> QED
    BY <2>1, <2>2, <2>3, <2>4, <2>5, <2>6
<1>4. ~(Rec.data_type = "blob" /\ Rec.type = "icvp" /\ Rec.plist = "list")
  BY <1>2 DEF RecordScalar, RecordStruct, RecordWrongSize, RecordData, RecordPlist, IcvpPlain,
              BlobOf, Structs, Others
<1>5. Accepts(Root(Rec))
  BY <1>3, <1>4 DEF Accepts, Root, Activation
<1> QED
  BY <1>1, <1>3, <1>5, RecordEnds

LEMMA RecordDateLevels ==
  ASSUME IInv, SInv, RecordDate
  PROVE  SInv'
<1>1. At("record", "enter") /\ Top.arg.data_type = "dutc"
  BY DEF RecordDate
<1>2. Top.arg = Rec /\ stack # <<>> /\ Len(stack) = 1
  BY <1>1, RecordLevels
<1>3. ~UsesBookmark(Rec) /\ ~UsesAlias(Rec)
  BY <1>1, <1>2 DEF UsesBookmark, UsesAlias
<1>4. Accepts(Root(Rec)) <=> Rec.lit # "invalid"
  BY <1>1, <1>2, <1>3 DEF Accepts, Root, Activation
<1>5. CASE Rec.lit = "invalid"
  <2>1. Return(0)
    BY <1>2, <1>5 DEF RecordDate
  <2> QED
    BY <1>2, <1>4, <1>5, <2>1, ReturnLevels
<1>6. CASE Rec.lit # "invalid"
  <2>1. Return(Dict)
    BY <1>2, <1>6 DEF RecordDate
  <2> QED
    BY <1>1, <1>3, <1>4, <1>6, <2>1, RecordEnds
<1> QED
  BY <1>5, <1>6

LEMMA RecordHalts ==
  ASSUME IInv, SInv, RecordBookmarkOverrun \/ IcvpNotDictionary
  PROVE  SInv'
<1>1. At("record", "enter") /\ \E how : Halt(how)
  BY DEF RecordBookmarkOverrun, IcvpNotDictionary, BlobOf
<1>2. Top.arg = Rec /\ stack # <<>> /\ CallOf(Top) = Root(Rec)
  BY <1>1, RecordLevels
<1>3. ~Accepts(Root(Rec))
  BY <1>2 DEF RecordBookmarkOverrun, IcvpNotDictionary, BlobOf, Accepts, Root, Activation,
              UsesBookmark
<1> QED
  BY <1>1, <1>2, <1>3, HaltLevels
(* A function that is called is at its beginning. *)
LEMMA FrameStarts ==
  ASSUME NEW r, NEW fn, NEW arg, fn = "item" => \E o \in DOMAIN r.mark.items : arg = r.mark.items[o],
         fn = "alias" => arg \in Aliases
  PROVE  PlaceOK(r, Frame(fn, arg)) /\ Past(r, Frame(fn, arg)) = {}
<1> DEFINE fr == Frame(fn, arg)
<1>1. fr.fn = fn /\ fr.arg = arg /\ fr.pc = "enter" /\ fr.i = 0 /\ fr.j = 0
  BY DEF Frame
<1> HIDE DEF fr
<1>2. 1 .. fr.i = {}
  BY <1>1
<1>3. Past(r, fr) = {}
  BY <1>1, <1>2 DEF Past
<1>4. PlaceOK(r, fr)
  BY <1>1 DEF PlaceOK, In
<1> QED
  BY <1>3, <1>4 DEF fr

(* The record function calls one function. *)
LEMMA RecordCalls ==
  ASSUME IInv, SInv, At("record", "enter"), NEW fr, NEW pc \in {"bookmark", "alias", "icvp"},
         Moved(fr, pc, 0, 0), IF pc = "bookmark" THEN UsesBookmark(Rec) ELSE UsesAlias(Rec),
         NEW fn \in {"bookmark", "alias"}, NEW arg, Call(fr, fn, arg),
         Accepts(Root(Rec)), Activation(fn, arg) = Pending(Rec, fr),
         Calls(Rec, Root(Rec)) = {Activation(fn, arg)}, fn = "alias" => arg \in Aliases
  PROVE  SInv'
<1>1. /\ stack # <<>> /\ ret = <<>> /\ Top.fn = "record"
      /\ Len(stack) <= MaxDepth /\ CallOf(Top) = Root(Rec)
  BY RecordLevels
<1>2. fr.fn = "record" /\ fr.pc = pc /\ fr.j = 0 /\ fr.arg = Top.arg
  BY <1>1 DEF Moved
<1>3. PlaceOK(Rec, fr) /\ Past(Rec, fr) = {}
  BY <1>2 DEF PlaceOK, In, Past
<1>4. ActivationOK(Rec, fr, Len(stack)) /\ CallOf(fr) = CallOf(Top)
  BY <1>1, <1>3, MovedOK
<1>5. PlaceOK(Rec, Frame(fn, arg)) /\ Past(Rec, Frame(fn, arg)) = {}
  BY FrameStarts
<1> QED
  BY <1>1, <1>2, <1>4, <1>5, CallLevels

LEMMA RecordBookmarkLevels ==
  ASSUME IInv, SInv, RecordBookmark
  PROVE  SInv'
<1> DEFINE fr == [Top EXCEPT !.obj = Dict, !.pc = "bookmark"]
<1>1. At("record", "enter") /\ Call(fr, "bookmark", Top.arg.mark)
  BY DEF RecordBookmark, BlobOf
<1>2. /\ Top.arg = Rec /\ Top.i = 0 /\ Top.j = 0 /\ Top.fn = "record"
      /\ DOMAIN Top = {"fn", "pc", "arg", "i", "j"} \union Variables
  BY <1>1, RecordLevels
<1>3. Moved(fr, "bookmark", 0, 0)
  BY <1>2 DEF Moved
<1>4. UsesBookmark(Rec) /\ ~UsesAlias(Rec) /\ OneTable(Rec.mark) /\ Rec.data_type # "dutc"
        /\ Rec.type # "icvp"
  BY <1>2 DEF RecordBookmark, BlobOf, UsesBookmark, UsesAlias
<1>5. Accepts(Root(Rec)) /\ Calls(Rec, Root(Rec)) = {Activation("bookmark", Rec.mark)}
  BY <1>4 DEF Accepts, Calls, Root, Activation
<1> HIDE DEF fr
<1>6. Pending(Rec, fr) = Activation("bookmark", Rec.mark)
  BY <1>2, <1>3 DEF Pending, In, Moved
<1> QED
  BY <1>1, <1>2, <1>3, <1>4, <1>5, <1>6, RecordCalls

LEMMA RecordAliasLevels ==
  ASSUME IInv, SInv, RecordAlias \/ IcvpAlias
  PROVE  SInv'
<1> DEFINE alias == [Top EXCEPT !.obj = Dict, !.tmp = NewAlias(Opened, Top.arg.alias), !.pc = "alias"]
           icvp == [Top EXCEPT !.obj = Dict, !.sub = Len(Opened) + 1, !.pc = "icvp"]
<1>1. PICK pc \in {"alias", "icvp"} :
        At("record", "enter")
          /\ Call(IF pc = "alias" THEN alias ELSE icvp, "alias", Top.arg.alias)
  BY DEF RecordAlias, IcvpAlias, BlobOf
<1>2. /\ Top.arg = Rec /\ Top.i = 0 /\ Top.j = 0 /\ Top.fn = "record" /\ Rec.alias \in Aliases
      /\ DOMAIN Top = {"fn", "pc", "arg", "i", "j"} \union Variables
  BY <1>1, RecordLevels
<1> DEFINE fr == IF pc = "alias" THEN alias ELSE icvp
<1>3. Moved(fr, pc, 0, 0)
  BY <1>1, <1>2 DEF Moved
<1>4. UsesAlias(Rec) /\ ~UsesBookmark(Rec)
        /\ ~(Rec.data_type = "blob" /\ Rec.type = "icvp" /\ Rec.plist = "list")
        /\ Rec.data_type # "dutc"
  BY <1>2 DEF RecordAlias, IcvpAlias, BlobOf, UsesBookmark, UsesAlias
<1>5. Accepts(Root(Rec)) /\ Calls(Rec, Root(Rec)) = {Activation("alias", Rec.alias)}
  BY <1>4 DEF Accepts, Calls, Root, Activation
<1>6. Call(fr, "alias", Rec.alias) /\ pc \in {"bookmark", "alias", "icvp"}
  BY <1>1, <1>2
<1> HIDE DEF fr
<1>7. Pending(Rec, fr) = Activation("alias", Rec.alias)
  BY <1>1, <1>2, <1>3 DEF Pending, In, Moved
<1> QED
  BY <1>1, <1>2, <1>3, <1>4, <1>5, <1>6, <1>7, RecordCalls

(* What is known when the function that was called has returned. *)
LEMMA BackLevels ==
  ASSUME IInv, SInv, NEW fn, NEW pc, Back(fn, pc), pc # "enter"
  PROVE  /\ stack # <<>> /\ Len(stack) <= MaxDepth /\ Len(stack) \in Nat
         /\ Top.fn = fn /\ Top.pc = pc /\ FrameOK(heap, Top)
         /\ ActivationOK(Rec, Top, Len(stack))
         /\ fn # "item" => Accepts(CallOf(Top))
         /\ Completes(Rec, Pending(Rec, Top), Len(stack) + 1)
<1>1. stack # <<>> /\ ret # <<>> /\ Top.fn = fn /\ Top.pc = pc
  BY DEF Back
<1>2. ActivationOK(Rec, Top, Len(stack)) /\ Len(stack) \in Nat
  BY <1>1, RunFacts
<1>3. Completes(Rec, Pending(Rec, Top), Len(stack) + 1)
  BY <1>1 DEF SInv, ResultOK
<1> QED
  BY <1>1, <1>2, <1>3, ConvertFacts DEF ActivationOK

LEMMA RecordDoneLevels ==
  ASSUME IInv, SInv, RecordBookmarkDone \/ RecordAliasDone \/ IcvpAliasDone
  PROVE  SInv'
<1>1. PICK pc \in {"bookmark", "alias", "icvp"} : Back("record", pc) /\ Return(Top.obj)
  BY DEF RecordBookmarkDone, RecordAliasDone, IcvpAliasDone
<1>2. pc # "enter"
  OBVIOUS
<1>3. /\ stack # <<>> /\ Len(stack) <= MaxDepth /\ Len(stack) \in Nat
      /\ Top.fn = "record" /\ Top.pc = pc /\ FrameOK(heap, Top)
      /\ Accepts(CallOf(Top)) /\ Completes(Rec, Pending(Rec, Top), Len(stack) + 1)
      /\ ActivationOK(Rec, Top, Len(stack))
  BY <1>1, <1>2, BackLevels
<1>4. Top.arg = Rec /\ Len(heap) \in Nat
  BY <1>1, <1>3, RunFacts, BackFacts
<1>5. Top.obj # 0
  BY <1>1, <1>3, <1>4 DEF FrameOK, In, Kinds, IsKind
<1>6. Calls(Rec, CallOf(Top)) \subseteq {Pending(Rec, Top)}
  <2>1. CallOf(Top) = Root(Rec)
    BY <1>3, <1>4 DEF CallOf, Root
  <2>2. CASE pc = "bookmark"
    <3>1. Pending(Rec, Top) = Activation("bookmark", Rec.mark)
      BY <1>3, <2>2 DEF Pending, In
    <3>2. UsesBookmark(Rec) /\ ~UsesAlias(Rec)
      BY <1>3, <2>2 DEF ActivationOK, PlaceOK, In, UsesBookmark, UsesAlias
    <3> QED
      BY <2>1, <3>1, <3>2 DEF Calls, Root, Activation
  <2>3. CASE pc # "bookmark"
    <3>1. Pending(Rec, Top) = Activation("alias", Rec.alias)
      BY <1>3, <2>3 DEF Pending, In
    <3>2. UsesAlias(Rec) /\ ~UsesBookmark(Rec)
      BY <1>3, <2>3 DEF ActivationOK, PlaceOK, In, UsesBookmark, UsesAlias
    <3> QED
      BY <2>1, <3>1, <3>2 DEF Calls, Root, Activation
  <2> QED
    BY <2>2, <2>3
<1>7. Completes(Rec, CallOf(Top), Len(stack))
  BY <1>3, <1>6, CompletesIf
<1> QED
  BY <1>1, <1>3, <1>5, <1>7, ReturnLevels
-----------------------------------------------------------------------------
(* Steps of _pBBk_record_copy_dictionary.                                  *)

(* What is known when an activation goes on. *)
LEMMA AtLevels ==
  ASSUME IInv, SInv, NEW fn, NEW pc, At(fn, pc)
  PROVE  /\ stack # <<>> /\ ret = <<>> /\ Top.fn = fn /\ Top.pc = pc
         /\ Len(stack) <= MaxDepth /\ Len(stack) \in Nat
         /\ ActivationOK(Rec, Top, Len(stack)) /\ PlaceOK(Rec, Top)
         /\ pc # "enter" /\ fn # "item" => Accepts(CallOf(Top))
<1>1. stack # <<>> /\ ret = <<>> /\ Top.fn = fn /\ Top.pc = pc /\ Len(stack) <= MaxDepth
  BY DEF At
<1>2. ActivationOK(Rec, Top, Len(stack)) /\ Len(stack) \in Nat
  BY <1>1, RunFacts
<1> QED
  BY <1>1, <1>2 DEF ActivationOK

LEMMA TopFields ==
  ASSUME IInv, stack # <<>>
  PROVE  /\ DOMAIN Top = {"fn", "pc", "arg", "i", "j"} \union Variables
         /\ Top.i \in Nat /\ FrameOK(heap, Top) /\ Len(heap) \in Nat
         /\ Top.fn = "bookmark" => Top.arg = Rec.mark
         /\ IsMark(Rec.mark)
         /\ \A o \in DOMAIN Rec.mark.items : IsItemOf(Rec.mark, Rec.mark.items[o])
<1>1. FrameOK(heap, Top) /\ RecordOK(Top) /\ n + 1 \in 1 .. Len(recs)
  BY ConvertFacts
<1>2. IsMark(Rec.mark) /\ \A o \in DOMAIN Rec.mark.items : IsItemOf(Rec.mark, Rec.mark.items[o])
  BY <1>1, InputsAssumption DEF IInv, TypeOK, Rec
<1>3. Len(heap) \in Nat
  BY SequenceDomain DEF IInv, HeapOK, IsHeap
<1> QED
  BY <1>1, <1>2, <1>3 DEF FrameOK, RecordOK

(* The tables of a bookmark, and what their entries point to. *)
LEMMA TableFacts ==
  ASSUME NEW m, IsMark(m)
  PROVE  /\ Len(TablesOf(m)) \in Nat
         /\ \A k \in 1 .. Len(TablesOf(m)) :
              /\ TablesOf(m)[k].count \in Nat
              /\ \A l \in 1 .. TablesOf(m)[k].count :
                   \E o \in DOMAIN m.items : TablesOf(m)[k].entries[l].data = m.items[o]
<1>1. CASE m.toc_offset = 0
  <2>1. TablesOf(m) = <<>> /\ Len(TablesOf(m)) = 0
    BY <1>1 DEF TablesOf
  <2> QED
    BY <2>1
<1>2. CASE m.toc_offset # 0
  <2> DEFINE o == m.toc_offset
             t == TableAt(m, o)
  <2>1. TablesOf(m) = <<t>>
    BY <1>2 DEF TablesOf
  <2>2. o \in DOMAIN m.tables
    BY <1>2 DEF IsMark
  <2>3. t.count = m.tables[o].count /\ t.count \in Nat
    BY <2>2 DEF TableAt, TableOf, IsMark
  <2>4. ASSUME NEW l \in 1 .. t.count
        PROVE  \E x \in DOMAIN m.items : t.entries[l].data = m.items[x]
    <3>1. l \in 1 .. m.tables[o].count
      BY <2>3
    <3>2. t.entries[l] = EntryAt(m, o, l)
      BY <3>1 DEF TableAt, TableOf
    <3>3. m.tables[o].entries[l].offset \in DOMAIN m.items
      BY <2>2, <3>1 DEF IsMark
    <3> HIDE DEF t
    <3>4. t.entries[l].data = m.items[m.tables[o].entries[l].offset]
      BY <3>2 DEF EntryAt
    <3> QED
      BY <3>3, <3>4
  <2> HIDE DEF t
  <2>5. Len(TablesOf(m)) = 1 /\ TablesOf(m)[1] = t
    BY <2>1
  <2>6. \A k \in 1 .. Len(TablesOf(m)) : k = 1
    BY <2>5
  <2> QED
    BY <2>3, <2>4, <2>5, <2>6
<1> QED
  BY <1>1, <1>2

LEMMA BookmarkGoesOn ==
  ASSUME IInv, SInv, BookmarkEnter \/ BookmarkToc
  PROVE  SInv'
<1> DEFINE entered == [Top EXCEPT !.obj = Len(heap) + 1, !.arr = Len(heap'), !.pc = "tocs"]
           toc == [Top EXCEPT !.sub = Len(heap) + 1, !.subarr = Len(heap'), !.j = 0, !.pc = "entries"]
<1>1. CASE BookmarkEnter
  <2>1. At("bookmark", "enter") /\ Goto(entered)
    BY <1>1 DEF BookmarkEnter
  <2>2. /\ stack # <<>> /\ Top.fn = "bookmark" /\ Top.pc = "enter" /\ Len(stack) <= MaxDepth
        /\ PlaceOK(Rec, Top)
    BY <2>1, AtLevels
  <2>3. Top.i = 0 /\ Top.j = 0 /\ DOMAIN Top = {"fn", "pc", "arg", "i", "j"} \union Variables
    BY <2>2, TopFields DEF PlaceOK
  <2>4. Moved(entered, "tocs", 0, 0) /\ entered.fn = "bookmark" /\ entered.i = 0
    BY <2>2, <2>3 DEF Moved
  <2> HIDE DEF entered
  <2>5. PlaceOK(Rec, entered)
    BY <2>2, <2>4 DEF PlaceOK, Moved, In
  <2>6. Past(Rec, entered) = {}
    <3>1. 1 .. entered.i = {} /\ entered.pc = "tocs"
      BY <2>4 DEF Moved
    <3> QED
      BY <2>4, <3>1 DEF Past
  <2>7. Accepts(CallOf(Top))
    BY <2>2 DEF Accepts, CallOf, Activation
  <2>8. ActivationOK(Rec, entered, Len(stack))
    BY <2>2, <2>4, <2>5, <2>6, <2>7, MovedOK
  <2> QED
    BY <2>1, <2>2, <2>4, <2>8, GotoLevels DEF Moved
<1>2. CASE BookmarkToc
  <2>1. At("bookmark", "tocs") /\ Goto(toc) /\ Top.i < Len(TablesOf(Top.arg)) /\ "tocs" # "enter"
    BY <1>2 DEF BookmarkToc
  <2>2. /\ stack # <<>> /\ Top.fn = "bookmark" /\ Top.pc = "tocs" /\ Len(stack) <= MaxDepth
        /\ PlaceOK(Rec, Top) /\ Accepts(CallOf(Top))
    BY <2>1, AtLevels
  <2>3. DOMAIN Top = {"fn", "pc", "arg", "i", "j"} \union Variables /\ Top.i \in Nat
    BY <2>2, TopFields
  <2>4. Moved(toc, "entries", Top.i, 0)
    BY <2>3 DEF Moved
  <2> HIDE DEF toc
  <2>5. PlaceOK(Rec, toc)
    BY <2>1, <2>2, <2>4 DEF PlaceOK, Moved, In
  <2>6. Past(Rec, toc) = Past(Rec, Top)
    <3>1. toc.j = 0 /\ 1 .. toc.j = {} /\ toc.i = Top.i /\ toc.fn = "bookmark" /\ toc.pc = "entries"
            /\ toc.arg = Top.arg
      BY <2>2, <2>4 DEF Moved
    <3> QED
      BY <2>2, <3>1 DEF Past
  <2>7. ActivationOK(Rec, toc, Len(stack))
    BY <2>2, <2>4, <2>5, <2>6, MovedOK
  <2> QED
    BY <2>1, <2>2, <2>4, <2>7, GotoLevels DEF Moved
<1> QED
  BY <1>1, <1>2

LEMMA BookmarkEntryLevels ==
  ASSUME IInv, SInv, BookmarkEntry
  PROVE  SInv'
<1> DEFINE fr == [Top EXCEPT !.pc = "entry"]
           t == TablesOf(Top.arg)[Top.i + 1]
           it == t.entries[Top.j + 1].data
<1>1. At("bookmark", "entries") /\ Top.j < t.count /\ Call(fr, "item", it) /\ "entries" # "enter"
  BY DEF BookmarkEntry
<1>2. /\ stack # <<>> /\ ret = <<>> /\ Top.fn = "bookmark" /\ Top.pc = "entries"
      /\ Len(stack) <= MaxDepth /\ PlaceOK(Rec, Top) /\ Accepts(CallOf(Top))
  BY <1>1, AtLevels
<1>3. /\ DOMAIN Top = {"fn", "pc", "arg", "i", "j"} \union Variables /\ Top.i \in Nat
      /\ Top.arg = Rec.mark /\ IsMark(Rec.mark)
  BY <1>2, TopFields
<1>4. Moved(fr, "entry", Top.i, Top.j)
  BY <1>3 DEF Moved
<1> HIDE DEF fr
<1>5. Top.j \in Nat /\ Top.i < Len(TablesOf(Rec.mark))
  BY <1>2, <1>3 DEF PlaceOK
<1>6. Top.i + 1 \in 1 .. Len(TablesOf(Rec.mark)) /\ Len(TablesOf(Rec.mark)) \in Nat
  BY <1>3, <1>5, TableFacts
<1>7. t.count \in Nat /\ \A l \in 1 .. t.count :
                           \E o \in DOMAIN Rec.mark.items : t.entries[l].data = Rec.mark.items[o]
  BY <1>3, <1>6, TableFacts
<1>8. Top.j + 1 \in 1 .. t.count
  BY <1>1, <1>5, <1>7
<1>9. \E o \in DOMAIN Rec.mark.items : it = Rec.mark.items[o]
  BY <1>7, <1>8
<1>10. PlaceOK(Rec, fr)
  BY <1>2, <1>4 DEF PlaceOK, Moved, In
<1>11. Past(Rec, fr) = Past(Rec, Top)
  <2>1. fr.fn = "bookmark" /\ fr.pc = "entry" /\ fr.arg = Top.arg /\ fr.i = Top.i /\ fr.j = Top.j
    BY <1>2, <1>4 DEF Moved
  <2> QED
    BY <1>2, <2>1 DEF Past
<1>12. ActivationOK(Rec, fr, Len(stack)) /\ CallOf(fr) = CallOf(Top)
  BY <1>2, <1>4, <1>10, <1>11, MovedOK
<1>13. Activation("item", it) = Pending(Rec, fr)
  BY <1>2, <1>4 DEF Pending, Moved, In
<1>14. it \in Entered(Rec.mark)
  BY <1>3, <1>6, <1>8 DEF Entered, EnteredIn
<1>15. Activation("item", it) \in Calls(Rec, CallOf(fr))
  <2>1. CallOf(fr) = Activation("bookmark", Rec.mark)
    BY <1>2, <1>3, <1>12 DEF CallOf
  <2>2. Calls(Rec, CallOf(fr)) = {Activation("item", x) : x \in Entered(Rec.mark)}
    BY <2>1 DEF Calls, Activation
  <2> HIDE DEF it
  <2> QED
    BY <1>14, <2>2
<1>16. PlaceOK(Rec, Frame("item", it)) /\ Past(Rec, Frame("item", it)) = {}
  <2> HIDE DEF it
  <2> QED
    BY <1>9, FrameStarts
<1> HIDE DEF it
<1> QED
  BY <1>1, <1>2, <1>4, <1>12, <1>13, <1>15, <1>16, CallLevels DEF Moved
LEMMA BookmarkEntryDoneLevels ==
  ASSUME IInv, SInv, BookmarkEntryDone
  PROVE  SInv'
<1> DEFINE fr == [Top EXCEPT !.j = @ + 1, !.pc = "entries"]
           t == TablesOf(Top.arg)[Top.i + 1]
           it == t.entries[Top.j + 1].data
           here(l) == {t.entries[k].data : k \in 1 .. l}
<1>1. Back("bookmark", "entry") /\ Goto(fr) /\ "entry" # "enter" /\ "bookmark" # "item"
  BY DEF BookmarkEntryDone
<1>2. /\ stack # <<>> /\ Top.fn = "bookmark" /\ Top.pc = "entry"
      /\ Len(stack) <= MaxDepth /\ ActivationOK(Rec, Top, Len(stack)) /\ Accepts(CallOf(Top))
      /\ Completes(Rec, Pending(Rec, Top), Len(stack) + 1)
  BY <1>1, BackLevels
<1>3. /\ DOMAIN Top = {"fn", "pc", "arg", "i", "j"} \union Variables /\ Top.i \in Nat
      /\ PlaceOK(Rec, Top) /\ Top.j \in Nat
  BY <1>2, TopFields DEF ActivationOK, PlaceOK
<1>4. Moved(fr, "entries", Top.i, Top.j + 1)
  BY <1>3 DEF Moved
<1> HIDE DEF fr
<1>5. PlaceOK(Rec, fr)
  BY <1>2, <1>3, <1>4 DEF PlaceOK, Moved, In
<1>6. fr.fn = "bookmark" /\ fr.pc = "entries" /\ fr.arg = Top.arg /\ fr.i = Top.i /\ fr.j = Top.j + 1
  BY <1>2, <1>4 DEF Moved
<1>7. here(Top.j + 1) \subseteq here(Top.j) \union {it}
  <2>1. \A k \in 1 .. Top.j + 1 : k \in 1 .. Top.j \/ k = Top.j + 1
    BY <1>3
  <2> QED
    BY <2>1
<1>8. Pending(Rec, Top) = Activation("item", it)
  BY <1>2 DEF Pending, In
<1>9. ASSUME NEW c \in Past(Rec, fr)
      PROVE  c \in Past(Rec, Top) \/ Completes(Rec, c, Len(stack) + 1)
  <2> DEFINE before == UNION {EnteredIn(TablesOf(Top.arg)[k]) : k \in 1 .. Top.i}
  <2>1. Past(Rec, fr) = {Activation("item", x) : x \in before \union here(fr.j)}
    BY <1>6 DEF Past
  <2>2. Past(Rec, Top) = {Activation("item", x) : x \in before \union here(Top.j)}
    BY <1>2 DEF Past
  <2> HIDE DEF before, here, it
  <2>3. c \in Past(Rec, Top) \/ c = Activation("item", it)
    BY <1>6, <1>7, <2>1, <2>2
  <2> QED
    BY <1>2, <1>8, <2>3
<1>10. ActivationOK(Rec, fr, Len(stack))
  BY <1>2, <1>4, <1>5, <1>9, MovedOK
<1> QED
  BY <1>1, <1>2, <1>6, <1>10, GotoLevels

LEMMA BookmarkTocDoneLevels ==
  ASSUME IInv, SInv, BookmarkTocDone
  PROVE  SInv'
<1> DEFINE fr == [Top EXCEPT !.i = @ + 1, !.sub = 0, !.subarr = 0, !.pc = "tocs"]
           t == TablesOf(Top.arg)[Top.i + 1]
<1>1. At("bookmark", "entries") /\ Goto(fr) /\ Top.j = t.count /\ "entries" # "enter"
  BY DEF BookmarkTocDone
<1>2. /\ stack # <<>> /\ Top.fn = "bookmark" /\ Top.pc = "entries"
      /\ Len(stack) <= MaxDepth /\ PlaceOK(Rec, Top) /\ Accepts(CallOf(Top))
  BY <1>1, AtLevels
<1>3. DOMAIN Top = {"fn", "pc", "arg", "i", "j"} \union Variables /\ Top.i \in Nat
  BY <1>2, TopFields
<1>4. Moved(fr, "tocs", Top.i + 1, Top.j)
  BY <1>3 DEF Moved
<1> HIDE DEF fr
<1>5. fr.fn = "bookmark" /\ fr.pc = "tocs" /\ fr.arg = Top.arg /\ fr.i = Top.i + 1 /\ fr.j = Top.j
  BY <1>2, <1>4 DEF Moved
<1>6. PlaceOK(Rec, fr)
  BY <1>2, <1>5 DEF PlaceOK, In
<1>7. Past(Rec, fr) \subseteq Past(Rec, Top)
  <2> DEFINE before(i) == UNION {EnteredIn(TablesOf(Top.arg)[k]) : k \in 1 .. i}
  <2>1. Past(Rec, fr) = {Activation("item", x) : x \in before(Top.i + 1)}
    BY <1>5 DEF Past
  <2>2. Past(Rec, Top) = {Activation("item", x) : x \in before(Top.i) \union EnteredIn(t)}
    BY <1>1, <1>2 DEF Past, EnteredIn
  <2>3. before(Top.i + 1) \subseteq before(Top.i) \union EnteredIn(t)
    <3>1. \A k \in 1 .. Top.i + 1 : k \in 1 .. Top.i \/ k = Top.i + 1
      BY <1>3
    <3> QED
      BY <3>1
  <2> HIDE DEF before
  <2> QED
    BY <2>1, <2>2, <2>3
<1>8. ActivationOK(Rec, fr, Len(stack))
  BY <1>2, <1>4, <1>6, <1>7, MovedOK
<1> QED
  BY <1>1, <1>2, <1>5, <1>8, GotoLevels

LEMMA BookmarkDoneLevels ==
  ASSUME IInv, SInv, BookmarkDone
  PROVE  SInv'
<1>1. /\ At("bookmark", "tocs") /\ Return(Top.obj) /\ Top.i = Len(TablesOf(Top.arg))
      /\ "tocs" # "enter" /\ "bookmark" # "item"
  BY DEF BookmarkDone
<1>2. /\ stack # <<>> /\ Top.fn = "bookmark" /\ Top.pc = "tocs"
      /\ Len(stack) <= MaxDepth /\ Accepts(CallOf(Top))
  BY <1>1, AtLevels
<1>3. FrameOK(heap, Top) /\ Len(heap) \in Nat
  BY <1>2, TopFields
<1>4. Top.obj # 0
  BY <1>2, <1>3 DEF FrameOK, In, Kinds, IsKind
<1>5. Calls(Rec, CallOf(Top)) \subseteq Past(Rec, Top)
  <2>1. Calls(Rec, CallOf(Top)) = {Activation("item", x) : x \in Entered(Top.arg)}
    BY <1>2 DEF Calls, CallOf, Activation
  <2>2. Past(Rec, Top) = {Activation("item", x) : x \in Entered(Top.arg)}
    BY <1>1, <1>2 DEF Past, Entered
  <2> QED
    BY <2>1, <2>2
<1> QED
  BY <1>1, <1>2, <1>4, <1>5, ReturnsComplete

-----------------------------------------------------------------------------
(* Steps of _pBBk_entry_data_copy_dictionary.                              *)

(* The item in hand. *)
LEMMA ItemLevels ==
  ASSUME IInv, SInv, stack # <<>>, Top.fn = "item"
  PROVE  /\ Top.arg.length \in Nat
         /\ IsArray(Top.arg) => /\ Elements(Top.arg) \in Nat /\ 4 * Elements(Top.arg) = Top.arg.length
                                /\ \A k \in 1 .. Elements(Top.arg) :
                                     Top.arg.elems[k] \in DOMAIN Rec.mark.items
         /\ CallOf(Top) = Activation("item", Top.arg)
         /\ Calls(Rec, CallOf(Top)) = {Activation("item", x) : x \in ElementsOf(Rec.mark, Top.arg)}
         /\ Accepts(CallOf(Top)) <=> Fits(Top.arg) /\ ~NotUTF8(Top.arg)
         /\ ValueSize \in Nat /\ ValueSize % 4 = 0
<1>1. PICK o \in DOMAIN Rec.mark.items : Top.arg = Rec.mark.items[o]
  BY RunFacts DEF ActivationOK, PlaceOK
<1>2. IsItemOf(Rec.mark, Top.arg)
  BY <1>1, TopFields
<1>3. Top.arg.length \in Nat
  BY <1>2 DEF IsItemOf
<1>4. IsArray(Top.arg) => /\ Elements(Top.arg) \in Nat /\ 4 * Elements(Top.arg) = Top.arg.length
                          /\ \A k \in 1 .. Elements(Top.arg) :
                               Top.arg.elems[k] \in DOMAIN Rec.mark.items
  <2>1. IsArray(Top.arg) => Top.arg.length % 4 = 0
    BY DEF IsArray
  <2>2. IsArray(Top.arg) => Elements(Top.arg) \in Nat /\ 4 * Elements(Top.arg) = Top.arg.length
    BY <1>3, <2>1 DEF Elements
  <2> QED
    BY <1>2, <2>2 DEF IsItemOf
<1>5. CallOf(Top) = Activation("item", Top.arg)
  BY DEF CallOf
<1>6. Calls(Rec, CallOf(Top)) = {Activation("item", x) : x \in ElementsOf(Rec.mark, Top.arg)}
  BY <1>5 DEF Calls, Activation
<1>7. Accepts(CallOf(Top)) <=> Fits(Top.arg) /\ ~NotUTF8(Top.arg)
  BY <1>5 DEF Accepts, Activation
<1> QED
  BY <1>3, <1>4, <1>5, <1>6, <1>7, SizesAssumption

LEMMA ItemEnds ==
  ASSUME IInv, SInv, ItemScalar \/ ItemData
  PROVE  SInv'
<1>1. At("item", "enter") /\ Return(Len(heap) + 1) /\ Fits(Top.arg) /\ ~NotUTF8(Top.arg)
        /\ ~IsArray(Top.arg)
  BY DEF ItemScalar, ItemData, IsArray, NotUTF8
<1>2. stack # <<>> /\ Top.fn = "item" /\ Len(stack) <= MaxDepth
  BY <1>1, AtLevels
<1>3. Len(heap) + 1 # 0
  BY <1>2, TopFields
<1>4. Accepts(CallOf(Top)) /\ Calls(Rec, CallOf(Top)) = {}
  BY <1>1, <1>2, ItemLevels DEF ElementsOf
<1> QED
  BY <1>1, <1>2, <1>3, <1>4, ReturnsComplete

LEMMA ItemHalts ==
  ASSUME IInv, SInv, ItemNotUTF8 \/ ItemOverrun
  PROVE  SInv'
<1>1. PICK pc \in {"enter", "array"} : At("item", pc) /\ \E how : Halt(how)
  BY DEF ItemNotUTF8, ItemOverrun
<1>2. stack # <<>> /\ Top.fn = "item" /\ Top.pc = pc /\ PlaceOK(Rec, Top)
  BY <1>1, AtLevels
<1>3. Fits(Top.arg) => NotUTF8(Top.arg)
  <2>1. CASE ItemNotUTF8
    BY <2>1 DEF ItemNotUTF8
  <2>2. CASE ItemOverrun /\ ~Fits(Top.arg)
    BY <2>2
  <2>3. CASE ItemOverrun /\ Fits(Top.arg)
    <3>1. Top.pc = "array" /\ Top.i < Elements(Top.arg) /\ 4 * Top.i >= ValueSize
      BY <2>3 DEF ItemOverrun, At
    <3>2. IsArray(Top.arg)
      BY <1>2, <3>1 DEF PlaceOK
    <3>3. /\ Elements(Top.arg) \in Nat /\ 4 * Elements(Top.arg) = Top.arg.length /\ Top.i \in Nat
          /\ Top.arg.length \in Nat /\ ValueSize \in Nat
      BY <1>2, <3>2, ItemLevels, TopFields
    <3>4. ~(Top.arg.length <= ValueSize)
      BY <3>1, <3>3
    <3> QED
      BY <2>3, <3>2, <3>4 DEF Fits, IsArray
  <2> QED
    BY <2>1, <2>2, <2>3
<1>4. ~Accepts(CallOf(Top))
  BY <1>2, <1>3, ItemLevels
<1> QED
  BY <1>1, <1>2, <1>4, HaltLevels

LEMMA StackOverflowLevels ==
  ASSUME IInv, SInv, StackOverflow
  PROVE  SInv'
<1>1. Len(stack) > MaxDepth /\ \E how : Halt(how)
  BY DEF StackOverflow
<1>2. stack # <<>>
  <2>1. Len(<<>>) = 0
    OBVIOUS
  <2> QED
    BY <1>1, <2>1, SizesAssumption
<1> QED
  BY <1>1, <1>2, HaltLevels
LEMMA ItemArrayLevels ==
  ASSUME IInv, SInv, ItemArray
  PROVE  SInv'
<1> DEFINE fr == [Top EXCEPT !.obj = Len(heap) + 1, !.arr = Len(heap'), !.pc = "array"]
<1>1. At("item", "enter") /\ Goto(fr) /\ IsArray(Top.arg)
  BY DEF ItemArray
<1>2. /\ stack # <<>> /\ Top.fn = "item" /\ Top.pc = "enter" /\ Len(stack) <= MaxDepth
      /\ PlaceOK(Rec, Top)
  BY <1>1, AtLevels
<1>3. Top.i = 0 /\ Top.j = 0 /\ DOMAIN Top = {"fn", "pc", "arg", "i", "j"} \union Variables
  BY <1>2, TopFields DEF PlaceOK
<1>4. Moved(fr, "array", 0, 0)
  BY <1>3 DEF Moved
<1> HIDE DEF fr
<1>5. fr.fn = "item" /\ fr.pc = "array" /\ fr.arg = Top.arg /\ fr.i = 0 /\ fr.j = 0 /\ 4 * fr.i = 0
  BY <1>2, <1>4 DEF Moved
<1>6. PlaceOK(Rec, fr)
  <2>1. 4 * fr.i <= ValueSize
    BY <1>5, SizesAssumption
  <2> QED
    BY <1>1, <1>2, <1>5, <2>1 DEF PlaceOK, In
<1>7. Past(Rec, fr) = {}
  <2>1. 1 .. fr.i = {}
    BY <1>5
  <2> QED
    BY <1>5, <2>1 DEF Past
<1>8. ActivationOK(Rec, fr, Len(stack))
  BY <1>2, <1>4, <1>6, <1>7, MovedOK
<1> QED
  BY <1>1, <1>2, <1>5, <1>8, GotoLevels

LEMMA ItemElementLevels ==
  ASSUME IInv, SInv, ItemElement
  PROVE  SInv'
<1> DEFINE fr == [Top EXCEPT !.pc = "element"]
           it == Rec.mark.items[Top.arg.elems[Top.i + 1]]
<1>1. /\ At("item", "array") /\ Top.i < Elements(Top.arg) /\ 4 * Top.i < ValueSize
      /\ Call(fr, "item", it)
  BY DEF ItemElement
<1>2. /\ stack # <<>> /\ ret = <<>> /\ Top.fn = "item" /\ Top.pc = "array"
      /\ Len(stack) <= MaxDepth /\ PlaceOK(Rec, Top) /\ IsArray(Top.arg)
  BY <1>1, AtLevels DEF PlaceOK
<1>3. DOMAIN Top = {"fn", "pc", "arg", "i", "j"} \union Variables /\ Top.i \in Nat
  BY <1>2, TopFields
<1>4. Moved(fr, "element", Top.i, Top.j)
  BY <1>3 DEF Moved
<1> HIDE DEF fr
<1>5. fr.fn = "item" /\ fr.pc = "element" /\ fr.arg = Top.arg /\ fr.i = Top.i /\ fr.j = Top.j
  BY <1>2, <1>4 DEF Moved
<1>6. Top.i + 1 \in 1 .. Elements(Top.arg) /\ Top.arg.elems[Top.i + 1] \in DOMAIN Rec.mark.items
  <2>1. Elements(Top.arg) \in Nat
    BY <1>2, ItemLevels
  <2>2. Top.i + 1 \in 1 .. Elements(Top.arg)
    BY <1>1, <1>3, <2>1
  <2> QED
    BY <1>2, <2>2, ItemLevels
<1>7. PlaceOK(Rec, fr)
  BY <1>1, <1>2, <1>5 DEF PlaceOK, In
<1>8. Past(Rec, fr) = Past(Rec, Top)
  BY <1>2, <1>5 DEF Past
<1>9. ActivationOK(Rec, fr, Len(stack)) /\ CallOf(fr) = CallOf(Top)
  BY <1>2, <1>4, <1>7, <1>8, MovedOK
<1>10. Activation("item", it) = Pending(Rec, fr)
  BY <1>5 DEF Pending, In
<1>11. it \in ElementsOf(Rec.mark, Top.arg)
  BY <1>2, <1>6 DEF ElementsOf
<1>12. Activation("item", it) \in Calls(Rec, CallOf(fr))
  <2>1. Calls(Rec, CallOf(fr)) = {Activation("item", x) : x \in ElementsOf(Rec.mark, Top.arg)}
    BY <1>2, <1>9, ItemLevels
  <2> HIDE DEF it
  <2> QED
    BY <1>11, <2>1
<1>13. PlaceOK(Rec, Frame("item", it)) /\ Past(Rec, Frame("item", it)) = {}
  <2>1. \E o \in DOMAIN Rec.mark.items : it = Rec.mark.items[o]
    BY <1>6
  <2> HIDE DEF it
  <2> QED
    BY <2>1, FrameStarts
<1> HIDE DEF it
<1> QED
  BY <1>1, <1>2, <1>5, <1>9, <1>10, <1>12, <1>13, CallLevels

LEMMA ItemElementDoneLevels ==
  ASSUME IInv, SInv, ItemElementDone
  PROVE  SInv'
<1> DEFINE fr == [Top EXCEPT !.i = @ + 1, !.pc = "array"]
           at(k) == Activation("item", Rec.mark.items[Top.arg.elems[k]])
<1>1. Back("item", "element") /\ Goto(fr) /\ "element" # "enter"
  BY DEF ItemElementDone
<1>2. /\ stack # <<>> /\ Top.fn = "item" /\ Top.pc = "element"
      /\ Len(stack) <= MaxDepth /\ ActivationOK(Rec, Top, Len(stack))
      /\ Completes(Rec, Pending(Rec, Top), Len(stack) + 1)
  BY <1>1, BackLevels
<1>3. /\ DOMAIN Top = {"fn", "pc", "arg", "i", "j"} \union Variables /\ Top.i \in Nat
      /\ PlaceOK(Rec, Top)
  BY <1>2, TopFields DEF ActivationOK
<1>4. Moved(fr, "array", Top.i + 1, Top.j)
  BY <1>3 DEF Moved
<1> HIDE DEF fr
<1>5. fr.fn = "item" /\ fr.pc = "array" /\ fr.arg = Top.arg /\ fr.i = Top.i + 1 /\ fr.j = Top.j
  BY <1>2, <1>4 DEF Moved
<1>6. PlaceOK(Rec, fr)
  <2>1. IsArray(Top.arg) /\ 4 * Top.i < ValueSize
    BY <1>2, <1>3 DEF PlaceOK, In
  <2>2. 4 * fr.i <= ValueSize
    BY <1>3, <1>5, <2>1, SizesAssumption
  <2> QED
    BY <1>2, <1>3, <1>5, <2>1, <2>2 DEF PlaceOK, In
<1>7. Pending(Rec, Top) = at(Top.i + 1)
  BY <1>2 DEF Pending, In
<1>8. ASSUME NEW c \in Past(Rec, fr)
      PROVE  c \in Past(Rec, Top) \/ Completes(Rec, c, Len(stack) + 1)
  <2>1. Past(Rec, fr) = {at(k) : k \in 1 .. Top.i + 1} /\ Past(Rec, Top) = {at(k) : k \in 1 .. Top.i}
    BY <1>2, <1>5 DEF Past
  <2>2. \A k \in 1 .. Top.i + 1 : k \in 1 .. Top.i \/ k = Top.i + 1
    BY <1>3
  <2> HIDE DEF at
  <2>3. c \in Past(Rec, Top) \/ c = at(Top.i + 1)
    BY <2>1, <2>2
  <2> QED
    BY <1>2, <1>7, <2>3
<1>9. ActivationOK(Rec, fr, Len(stack))
  BY <1>2, <1>4, <1>6, <1>8, MovedOK
<1> QED
  BY <1>1, <1>2, <1>5, <1>9, GotoLevels

LEMMA ItemArrayDoneLevels ==
  ASSUME IInv, SInv, ItemArrayDone
  PROVE  SInv'
<1>1. At("item", "array") /\ Return(Top.obj) /\ Top.i = Elements(Top.arg)
  BY DEF ItemArrayDone
<1>2. /\ stack # <<>> /\ Top.fn = "item" /\ Top.pc = "array" /\ Len(stack) <= MaxDepth
      /\ IsArray(Top.arg) /\ 4 * Top.i <= ValueSize
  BY <1>1, AtLevels DEF PlaceOK
<1>3. FrameOK(heap, Top) /\ Len(heap) \in Nat
  BY <1>2, TopFields
<1>4. Top.obj # 0
  BY <1>2, <1>3 DEF FrameOK, In, Kinds, IsKind
<1>5. Accepts(CallOf(Top))
  <2>1. Fits(Top.arg)
    BY <1>1, <1>2, ItemLevels DEF Fits
  <2>2. ~NotUTF8(Top.arg)
    BY <1>2 DEF NotUTF8, IsArray
  <2> QED
    BY <1>2, <2>1, <2>2, ItemLevels
<1>6. Calls(Rec, CallOf(Top)) \subseteq Past(Rec, Top)
  <2>1. Past(Rec, Top) = {Activation("item", Rec.mark.items[Top.arg.elems[k]]) :
                            k \in 1 .. Elements(Top.arg)}
    BY <1>1, <1>2 DEF Past
  <2>2. ElementsOf(Rec.mark, Top.arg) = {Rec.mark.items[Top.arg.elems[k]] :
                                           k \in 1 .. Elements(Top.arg)}
    BY <1>2 DEF ElementsOf
  <2>3. Calls(Rec, CallOf(Top)) = {Activation("item", x) : x \in ElementsOf(Rec.mark, Top.arg)}
    BY <1>2, ItemLevels
  <2> QED
    BY <2>1, <2>2, <2>3
<1> QED
  BY <1>1, <1>2, <1>4, <1>5, <1>6, ReturnsComplete

-----------------------------------------------------------------------------
(* Steps of _alias_copy_dictionary.                                        *)

(* The alias in hand. *)
LEMMA AliasLevels ==
  ASSUME IInv, SInv, stack # <<>>, Top.fn = "alias"
  PROVE  /\ Len(Top.arg.metadata) \in Nat
         /\ \A k \in 1 .. Len(Top.arg.metadata) :
              Top.arg.metadata[k].tag = "alias" => Top.arg.metadata[k].alias \in Aliases
         /\ Calls(Rec, CallOf(Top)) = {Activation("alias", x) : x \in NestedIn(Top.arg)}
         /\ Accepts(CallOf(Top)) <=> Top.arg.parses /\ NamesFit(Top.arg)
         /\ DOMAIN Top = {"fn", "pc", "arg", "i", "j"} \union Variables /\ Top.i \in Nat
<1>1. Top.arg \in Aliases
  BY RunFacts DEF ActivationOK, PlaceOK
<1>2. IsAlias(Top.arg)
  BY <1>1, AliasesAssumption
<1>3. CallOf(Top) = Activation("alias", Top.arg)
  BY DEF CallOf
<1>4. Calls(Rec, CallOf(Top)) = {Activation("alias", x) : x \in NestedIn(Top.arg)}
  BY <1>3 DEF Calls, Activation
<1>5. Accepts(CallOf(Top)) <=> Top.arg.parses /\ NamesFit(Top.arg)
  BY <1>3 DEF Accepts, Activation
<1> QED
  BY <1>2, <1>4, <1>5, TopFields DEF IsAlias

LEMMA AliasHalts ==
  ASSUME IInv, SInv, AliasNull \/ AliasOverrun
  PROVE  SInv'
<1>1. PICK how \in {"crash", "overrun"} :
        At("alias", "enter") /\ ~(Top.arg.parses /\ NamesFit(Top.arg)) /\ Halt(how)
  BY DEF AliasNull, AliasOverrun
<1>2. stack # <<>> /\ Top.fn = "alias"
  BY <1>1, AtLevels
<1>3. ~Accepts(CallOf(Top))
  BY <1>1, <1>2, AliasLevels
<1> QED
  BY <1>1, <1>2, <1>3, HaltLevels

LEMMA AliasEnterLevels ==
  ASSUME IInv, SInv, AliasEnter
  PROVE  SInv'
<1> DEFINE fr == [Top EXCEPT !.obj = Len(heap) + 1, !.arr = Len(heap'), !.pc = "metadata"]
<1>1. At("alias", "enter") /\ Goto(fr) /\ Top.arg.parses /\ NamesFit(Top.arg)
  BY DEF AliasEnter
<1>2. /\ stack # <<>> /\ Top.fn = "alias" /\ Top.pc = "enter" /\ Len(stack) <= MaxDepth
      /\ PlaceOK(Rec, Top)
  BY <1>1, AtLevels
<1>3. /\ Top.i = 0 /\ Top.j = 0 /\ DOMAIN Top = {"fn", "pc", "arg", "i", "j"} \union Variables
      /\ Accepts(CallOf(Top))
  BY <1>1, <1>2, AliasLevels DEF PlaceOK
<1>4. Moved(fr, "metadata", 0, 0)
  BY <1>3 DEF Moved
<1> HIDE DEF fr
<1>5. fr.fn = "alias" /\ fr.pc = "metadata" /\ fr.arg = Top.arg /\ fr.i = 0 /\ fr.j = 0
  BY <1>2, <1>4 DEF Moved
<1>6. PlaceOK(Rec, fr)
  BY <1>2, <1>5 DEF PlaceOK, In
<1>7. Past(Rec, fr) = {}
  <2>1. 1 .. fr.i = {}
    BY <1>5
  <2>2. {l \in 1 .. fr.i : fr.arg.metadata[l].tag = "alias"} = {}
    BY <2>1
  <2> QED
    BY <1>5, <2>2 DEF Past
<1>8. ActivationOK(Rec, fr, Len(stack))
  BY <1>2, <1>3, <1>4, <1>6, <1>7, MovedOK
<1> QED
  BY <1>1, <1>2, <1>5, <1>8, GotoLevels

(* Going on in the same entry, and to the next entry when it is done. *)
LEMMA AliasStays ==
  ASSUME IInv, SInv, AliasCnids \/ AliasCnid
  PROVE  SInv'
<1> DEFINE first == [Top EXCEPT !.sub = Len(heap) + 1, !.subarr = Len(heap'), !.j = 0, !.pc = "cnids"]
           again == [Top EXCEPT !.j = @ + 1]
<1>1. PICK pc \in {"metadata", "cnids"} : At("alias", pc) /\ pc # "enter"
  BY DEF AliasCnids, AliasCnid, AtMeta
<1>2. /\ stack # <<>> /\ Top.fn = "alias" /\ Top.pc = pc /\ Len(stack) <= MaxDepth
      /\ PlaceOK(Rec, Top) /\ Accepts(CallOf(Top)) /\ Top.j \in Nat
  BY <1>1, AtLevels DEF PlaceOK
<1>3. DOMAIN Top = {"fn", "pc", "arg", "i", "j"} \union Variables
  BY <1>2, AliasLevels
<1>4. Top.arg.metadata[Top.i + 1].tag # "alias"
  <2>1. CASE AliasCnids
    BY <2>1 DEF AliasCnids, IsCnids, Meta
  <2>2. CASE AliasCnid
    BY <1>2, <2>2 DEF AliasCnid, At, PlaceOK
  <2> QED
    BY <2>1, <2>2
<1>5. PICK fr : Goto(fr) /\ fr.j \in Nat /\ Moved(fr, "cnids", Top.i, fr.j)
  <2>1. CASE AliasCnids
    <3>1. Moved(first, "cnids", Top.i, first.j) /\ Goto(first) /\ first.j \in Nat
      BY <1>3, <2>1 DEF Moved, AliasCnids
    <3> HIDE DEF first
    <3> QED
      BY <3>1
  <2>2. CASE AliasCnid
    <3>1. Moved(again, "cnids", Top.i, again.j) /\ Goto(again) /\ again.j \in Nat
      BY <1>2, <1>3, <2>2 DEF Moved, AliasCnid, At
    <3> HIDE DEF again
    <3> QED
      BY <3>1
  <2> QED
    BY <2>1, <2>2
<1>6. fr.fn = "alias" /\ fr.pc = "cnids" /\ fr.arg = Top.arg /\ fr.i = Top.i /\ fr.j \in Nat
  BY <1>2, <1>5 DEF Moved
<1>7. PlaceOK(Rec, fr)
  BY <1>2, <1>4, <1>6 DEF PlaceOK, In
<1>8. Past(Rec, fr) = Past(Rec, Top)
  BY <1>2, <1>6 DEF Past
<1>9. ActivationOK(Rec, fr, Len(stack))
  BY <1>2, <1>5, <1>7, <1>8, MovedOK
<1> QED
  BY <1>2, <1>5, <1>6, <1>9, GotoLevels
(* The aliases of the entries that come before i. *)
NestedTo(a, i) == {Activation("alias", a.metadata[k].alias) : k \in {l \in 1 .. i : a.metadata[l].tag = "alias"}}

LEMMA NestedToNext ==
  ASSUME NEW a, NEW i \in Nat
  PROVE  NestedTo(a, i + 1) = NestedTo(a, i)
           \union (IF a.metadata[i + 1].tag = "alias" THEN {Activation("alias", a.metadata[i + 1].alias)}
                   ELSE {})
<1>1. \A k : k \in 1 .. i + 1 <=> k \in 1 .. i \/ k = i + 1
  OBVIOUS
<1> QED
  BY <1>1 DEF NestedTo

LEMMA AliasNext ==
  ASSUME IInv, SInv, stack # <<>>, Top.fn = "alias", Top.pc # "enter", NextMeta,
         Top.arg.metadata[Top.i + 1].tag = "alias" =>
           Completes(Rec, Activation("alias", Top.arg.metadata[Top.i + 1].alias), Len(stack) + 1)
  PROVE  SInv'
<1> DEFINE fr == [Top EXCEPT !.i = @ + 1, !.sub = 0, !.subarr = 0, !.pc = "metadata"]
<1>1. Goto(fr)
  BY DEF NextMeta
<1>2. /\ ActivationOK(Rec, Top, Len(stack)) /\ PlaceOK(Rec, Top) /\ Len(stack) <= MaxDepth
      /\ Accepts(CallOf(Top)) /\ Top.j \in Nat
  BY RunFacts DEF ActivationOK, PlaceOK
<1>3. DOMAIN Top = {"fn", "pc", "arg", "i", "j"} \union Variables /\ Top.i \in Nat
  BY AliasLevels
<1>4. Moved(fr, "metadata", Top.i + 1, Top.j)
  BY <1>3 DEF Moved
<1> HIDE DEF fr
<1>5. fr.fn = "alias" /\ fr.pc = "metadata" /\ fr.arg = Top.arg /\ fr.i = Top.i + 1 /\ fr.j = Top.j
  BY <1>4 DEF Moved
<1>6. PlaceOK(Rec, fr)
  BY <1>2, <1>5 DEF PlaceOK, In
<1>7. ASSUME NEW c \in Past(Rec, fr)
      PROVE  c \in Past(Rec, Top) \/ Completes(Rec, c, Len(stack) + 1)
  <2>1. Past(Rec, fr) = NestedTo(Top.arg, Top.i + 1)
    BY <1>5 DEF Past, NestedTo
  <2>2. Past(Rec, Top) = NestedTo(Top.arg, Top.i)
    BY DEF Past, NestedTo
  <2> QED
    BY <1>3, <2>1, <2>2, NestedToNext
<1>8. ActivationOK(Rec, fr, Len(stack))
  BY <1>2, <1>4, <1>6, <1>7, MovedOK
<1> QED
  BY <1>1, <1>5, <1>8, GotoLevels

LEMMA AliasGoesOn ==
  ASSUME IInv, SInv, AliasValue \/ AliasCnidsDone \/ AliasNestedDone
  PROVE  SInv'
<1>1. CASE AliasValue \/ AliasCnidsDone
  <2>1. PICK pc \in {"metadata", "cnids"} : At("alias", pc) /\ pc # "enter"
    BY <1>1 DEF AliasValue, AliasCnidsDone, AtMeta
  <2>2. NextMeta
    BY <1>1 DEF AliasValue, AliasCnidsDone
  <2>3. stack # <<>> /\ Top.fn = "alias" /\ Top.pc = pc /\ PlaceOK(Rec, Top)
    BY <2>1, AtLevels
  <2>4. Top.arg.metadata[Top.i + 1].tag # "alias"
    <3>1. CASE AliasValue
      BY <3>1 DEF AliasValue, Meta
    <3>2. CASE AliasCnidsDone
      BY <2>3, <3>2 DEF AliasCnidsDone, At, PlaceOK
    <3> QED
      BY <1>1, <3>1, <3>2
  <2> QED
    BY <2>1, <2>2, <2>3, <2>4, AliasNext
<1>2. CASE AliasNestedDone
  <2>1. Back("alias", "nested") /\ NextMeta /\ "nested" # "enter"
    BY <1>2 DEF AliasNestedDone
  <2>2. /\ stack # <<>> /\ Top.fn = "alias" /\ Top.pc = "nested"
        /\ Completes(Rec, Pending(Rec, Top), Len(stack) + 1)
    BY <2>1, BackLevels
  <2>3. Pending(Rec, Top) = Activation("alias", Top.arg.metadata[Top.i + 1].alias)
    BY <2>2 DEF Pending, In
  <2> QED
    BY <2>1, <2>2, <2>3, AliasNext
<1> QED
  BY <1>1, <1>2

LEMMA AliasNestedLevels ==
  ASSUME IInv, SInv, AliasNested
  PROVE  SInv'
<1> DEFINE fr == [Top EXCEPT !.sub = Len(heap) + 1, !.pc = "nested"]
           a == Top.arg.metadata[Top.i + 1].alias
<1>1. /\ At("alias", "metadata") /\ Top.i < Len(Top.arg.metadata) /\ "metadata" # "enter"
      /\ Top.arg.metadata[Top.i + 1].tag = "alias" /\ Call(fr, "alias", a)
  BY DEF AliasNested, AtMeta, Meta
<1>2. /\ stack # <<>> /\ ret = <<>> /\ Top.fn = "alias" /\ Top.pc = "metadata"
      /\ Len(stack) <= MaxDepth /\ PlaceOK(Rec, Top) /\ Accepts(CallOf(Top))
  BY <1>1, AtLevels
<1>3. /\ DOMAIN Top = {"fn", "pc", "arg", "i", "j"} \union Variables /\ Top.i \in Nat
      /\ Len(Top.arg.metadata) \in Nat
  BY <1>2, AliasLevels
<1>4. Moved(fr, "nested", Top.i, Top.j)
  BY <1>3 DEF Moved
<1> HIDE DEF fr
<1>5. fr.fn = "alias" /\ fr.pc = "nested" /\ fr.arg = Top.arg /\ fr.i = Top.i /\ fr.j = Top.j
  BY <1>2, <1>4 DEF Moved
<1>6. Top.i + 1 \in 1 .. Len(Top.arg.metadata)
  BY <1>1, <1>3
<1>7. a \in Aliases /\ a \in NestedIn(Top.arg)
  BY <1>1, <1>2, <1>6, AliasLevels DEF NestedIn
<1>8. PlaceOK(Rec, fr)
  BY <1>2, <1>5 DEF PlaceOK, In
<1>9. Past(Rec, fr) = Past(Rec, Top)
  BY <1>2, <1>5 DEF Past
<1>10. ActivationOK(Rec, fr, Len(stack)) /\ CallOf(fr) = CallOf(Top)
  BY <1>2, <1>4, <1>8, <1>9, MovedOK
<1>11. Activation("alias", a) = Pending(Rec, fr)
  BY <1>5 DEF Pending, In
<1>12. Activation("alias", a) \in Calls(Rec, CallOf(fr))
  <2>1. Calls(Rec, CallOf(fr)) = {Activation("alias", x) : x \in NestedIn(Top.arg)}
    BY <1>2, <1>10, AliasLevels
  <2> HIDE DEF a
  <2> QED
    BY <1>7, <2>1
<1>13. PlaceOK(Rec, Frame("alias", a)) /\ Past(Rec, Frame("alias", a)) = {}
  <2> HIDE DEF a
  <2> QED
    BY <1>7, FrameStarts
<1> HIDE DEF a
<1> QED
  BY <1>1, <1>2, <1>5, <1>10, <1>11, <1>12, <1>13, CallLevels

LEMMA AliasDoneLevels ==
  ASSUME IInv, SInv, AliasDone
  PROVE  SInv'
<1>1. /\ At("alias", "metadata") /\ Return(Top.obj) /\ Top.i = Len(Top.arg.metadata)
      /\ "metadata" # "enter" /\ "alias" # "item"
  BY DEF AliasDone
<1>2. /\ stack # <<>> /\ Top.fn = "alias" /\ Top.pc = "metadata"
      /\ Len(stack) <= MaxDepth /\ Accepts(CallOf(Top))
  BY <1>1, AtLevels
<1>3. FrameOK(heap, Top) /\ Len(heap) \in Nat
  BY <1>2, TopFields
<1>4. Top.obj # 0
  BY <1>2, <1>3 DEF FrameOK, In, Kinds, IsKind
<1>5. Calls(Rec, CallOf(Top)) \subseteq Past(Rec, Top)
  <2>1. Calls(Rec, CallOf(Top)) = {Activation("alias", x) : x \in NestedIn(Top.arg)}
    BY <1>2, AliasLevels
  <2>2. Past(Rec, Top) = {Activation("alias", x) : x \in NestedIn(Top.arg)}
    BY <1>1, <1>2 DEF Past, NestedIn
  <2> QED
    BY <2>1, <2>2
<1> QED
  BY <1>1, <1>2, <1>4, <1>5, ReturnsComplete

-----------------------------------------------------------------------------
LEMMA InitLevels ==
  ASSUME Init
  PROVE  SInv
<1>1. n = 0 /\ stop = "no" /\ step = "fetch" /\ stack = <<>> /\ ret = <<>>
  BY DEF Init
<1>2. Len(stack) = 0 /\ 1 .. Len(stack) = {} /\ 1 .. Len(stack) - 1 = {} /\ 1 .. n = {}
  BY <1>1
<1>3. LevelsOK
  BY <1>2, SizesAssumption DEF LevelsOK
<1> QED
  BY <1>1, <1>2, <1>3 DEF SInv, StopsAtUnsound, ResultOK, ListRead

LEMMA NextLevels ==
  ASSUME IInv, SInv, [Next]_vars
  PROVE  SInv'
<1>1. CASE UNCHANGED vars
  BY <1>1, QuietLevels DEF vars, caller
<1>2. CASE FreeItems
  BY <1>2, QuietLevels DEF FreeItems
<1>3. CASE Caller
  BY <1>3, FetchRecordLevels, NullDictionaryLevels, ReturnedLevels, FreeRecordLevels, FinishLevels
     DEF Caller
<1>4. CASE RecordStep
  BY <1>4, RecordEndsAtOnce, RecordDateLevels, RecordBookmarkLevels, RecordHalts,
     RecordDoneLevels, RecordAliasLevels
     DEF RecordStep
<1>5. CASE BookmarkStep
  BY <1>5, BookmarkGoesOn, BookmarkEntryLevels, BookmarkEntryDoneLevels, BookmarkTocDoneLevels,
     BookmarkDoneLevels, ItemEnds, ItemHalts, ItemArrayLevels, ItemElementLevels,
     ItemElementDoneLevels, ItemArrayDoneLevels, StackOverflowLevels
     DEF BookmarkStep
<1>6. CASE AliasStep
  BY <1>6, AliasHalts, AliasEnterLevels, AliasGoesOn, AliasStays, AliasNestedLevels,
     AliasDoneLevels
     DEF AliasStep
<1> QED
  BY <1>1, <1>2, <1>3, <1>4, <1>5, <1>6 DEF Next

(* The program stops at the first record that cannot be converted, and at  *)
(* no other, however deep its bookmark or alias nests: every record before *)
(* it is converted with all that is below it, and the one that stops it    *)
(* has an alias that does not parse, a date out of range, a list that is   *)
(* no dictionary, a string that is not UTF-8, an item, a table or a chain  *)
(* of calls for which there is no room (dsrecord.cpp, alias.cpp).          *)
THEOREM StopsOnlyAtUnsound == Spec => []StopsAtUnsound
<1>1. Init => SInv
  BY InitLevels
<1>2. IInv /\ SInv /\ [Next]_vars => SInv'
  BY NextLevels
<1>3. SInv => StopsAtUnsound
  BY DEF SInv
<1> QED
  BY <1>1, <1>2, <1>3, OwnershipInvariant, PTL DEF Spec

=============================================================================
