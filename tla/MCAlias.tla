------------------------------ MODULE MCAlias ------------------------------
(***************************************************************************)
(* Every alias of up to four words after the header, with words that are   *)
(* 0, 1, 2, 3, the odd number before the sentinel's and the sentinel,      *)
(* which as a length is padded to 0; every one of up to six words, which   *)
(* is three entries, with fewer; and some whose header is not right.       *)
(***************************************************************************)
EXTENDS Alias

MCWord == 20
MCHeaderSize == 4

Words ==
  UNION {[1 .. n -> {0, 1, 2, 3, 17, 19}] : n \in 0 .. 4}
    \union UNION {[1 .. n -> {0, 2, 19}] : n \in 5 .. 6}

(* The size counts the last word in full or in half. *)
Sizes(w) == {MCHeaderSize + 2 * Len(w)}
            \union (IF w = <<>> THEN {} ELSE {MCHeaderSize + 2 * Len(w) - 1})

Good ==
  UNION {{[size |-> s, record_size |-> s, version |-> 2, words |-> w] : s \in Sizes(w)} :
           w \in Words}

Bad ==
  UNION {{[size |-> s, record_size |-> r, version |-> v, words |-> w] :
            s \in Sizes(w), r \in {4, 8, 12}, v \in {1, 2}} :
           w \in UNION {[1 .. n -> {0, 2}] : n \in 0 .. 3}}

MCAliases == Good \union Bad

=============================================================================
