----------------------------- MODULE MCBookmark -----------------------------
(***************************************************************************)
(* Bookmarks of no table, of one with up to three entries, and of two      *)
(* that name each other in every way, with the items shared.               *)
(***************************************************************************)
EXTENDS Bookmark, TLC

Items == 1 :> "a" @@ 2 :> "b" @@ 3 :> "c"

(* The key of an entry is an offset too, but of another item. *)
EntryLists ==
  UNION {[1 .. n -> {[key |-> 1, offset |-> 2], [key |-> 2, offset |-> 3],
                     [key |-> 3, offset |-> 3]}] : n \in 0 .. 2}
    \union {[i \in 1 .. 3 |-> [key |-> 3, offset |-> i]]}

Table(n, e) == [next |-> n, count |-> Len(e), entries |-> e]

Short == {<<>>, <<[key |-> 1, offset |-> 2]>>}

MCMarks ==
  {[toc_offset |-> o, tables |-> t, items |-> Items] :
     o \in {0, 4}, t \in [{4} -> {Table(0, e) : e \in EntryLists}]}
  \union
  {[toc_offset |-> o, tables |-> t, items |-> Items] :
     o \in {0, 4}, t \in [{4, 5} -> {Table(n, e) : n \in {0, 4, 5}, e \in Short}]}

=============================================================================
