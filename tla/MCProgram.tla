------------------------------ MODULE MCProgram ------------------------------
(***************************************************************************)
(* Both commands over stores with trees of height 0 and 1, one of height 2 *)
(* and one whose root is out of range; a client of the library calls       *)
(* twice, so that a walk begins after one that ended anywhere.             *)
(***************************************************************************)
EXTENDS Program, Trees

MCFiles ==
  {AddTree(EmptyFile, s, 0) : s \in 0 .. 1}
    \union {AddTree(EmptyFile, s, 1) : s \in SeqsUpTo(0 .. 1, 2)}
    \union {AddTree(EmptyFile, <<<<1, 0>>, <<1>>>>, 2), RootOutOfRange}

MCArgvs ==
  {<<>>, <<"--dump">>, <<"--dump", "f">>, <<"--convert", "f">>,
   <<"--convert", "json", "f">>, <<"--convert", "plist", "f">>}

=============================================================================
