-------------------------------- MODULE Trees --------------------------------
(***************************************************************************)
(* Stores for BlockEnum, laid out from the shape of their tree.            *)
(***************************************************************************)
EXTENDS Naturals, FiniteSets, SequencesExt

(* A shape is a number of records (a leaf) or a sequence of shapes. *)
SeqsUpTo(S, n) == UNION {[1 .. k -> S] : k \in 1 .. n}

(* Lay a shape out behind the blocks and the records of f: the blocks of   *)
(* its children come first, its own block last.                            *)
AddNode(f, cells, first, level) ==
  LET b == Cardinality(DOMAIN f.cells) + 2
      grow(g, v) == b :> v @@ g
  IN [root |-> b, count |-> b + 1, records |-> f.records,
      cells |-> grow(f.cells, cells), before |-> grow(f.before, first),
      upto |-> grow(f.upto, f.records), level |-> grow(f.level, level)]

AddLeaf(f, n) ==
  LET g == [f EXCEPT !.records = @ + n]
  IN AddNode(g, <<0, n>> \o [i \in 1 .. n |-> f.records + i], f.records, 0)

RECURSIVE AddTree(_, _, _)
AddTree(f, shape, height) ==
  IF height = 0 THEN AddLeaf(f, shape)
  ELSE LET n == Len(shape)
           \* <<the file so far, the child and record cells so far>>
           step(acc, k) ==
             LET g == AddTree(acc[1], shape[k], height - 1)
             IN IF k = n THEN <<g, acc[2]>>
                ELSE <<[g EXCEPT !.records = @ + 1],
                       acc[2] \o <<g.root, g.records + 1>>>>
           all == FoldLeft(step, <<f, <<>>>>, [k \in 1 .. n |-> k])
       IN AddNode(all[1], <<all[1].root, n - 1>> \o all[2], f.records, height)

NoNodes == [x \in {} |-> x]

EmptyFile == [root |-> 0, count |-> 2, records |-> 0, cells |-> NoNodes,
              before |-> NoNodes, upto |-> NoNodes, level |-> NoNodes]

RootOutOfRange == [EmptyFile EXCEPT !.root = 2]

=============================================================================
