----------------------------- MODULE MCBlockEnum -----------------------------
(***************************************************************************)
(* BlockEnum over every small B-tree: leaves of up to MaxLeaf records,     *)
(* internal nodes of 1 .. MaxFanout children, heights 0, 1 and 2, and a    *)
(* store whose root block number is out of range.                          *)
(***************************************************************************)
EXTENDS BlockEnum, Trees

CONSTANTS MaxLeaf, MaxFanout

Leaves == 0 .. MaxLeaf

Height1 == SeqsUpTo(Leaves, MaxFanout)

Height2 == SeqsUpTo(SeqsUpTo({1}, 2), 2)

MCFiles ==
  {AddTree(EmptyFile, s, 0) : s \in Leaves}
    \union {AddTree(EmptyFile, s, 1) : s \in Height1}
    \union {AddTree(EmptyFile, s, 2) : s \in Height2}
    \union {RootOutOfRange}

=============================================================================
