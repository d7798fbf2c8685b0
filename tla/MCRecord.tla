------------------------------ MODULE MCRecord ------------------------------
(***************************************************************************)
(* Files of two records of any data types, the second one also cut off,    *)
(* or followed by one that is refused.                                     *)
(***************************************************************************)
EXTENDS Record

MCNames == {31}
MCTypes == {41}
MCValues == {51}

(* Bytes 61 and 62 hold property lists, 63 none; 64 and 65 are what may be *)
(* left by a short read, one of which happens to hold a list.              *)
MCBytes == {61, 63}
MCPartials == {64, 65}
MCPlist == [b \in {61, 62, 65} |-> IF b = 61 THEN 71 ELSE IF b = 62 THEN 72 ELSE 73]

Rec(name, type, kind, value) ==
  [filename |-> name, type |-> type, data_type |-> kind, data |-> value]

CellsOf(r) ==
  <<1, r.filename, r.type, r.data_type>>
    \o (IF r.data_type = Shor THEN <<0, r.data>>
        ELSE IF r.data_type \in {Blob, Ustr} THEN <<4, r.data>>
        ELSE <<r.data>>)

Ended(r, end) == [filename |-> r.filename, type |-> r.type, data_type |-> r.data_type,
                  data |-> r.data, end |-> end]

First == {Rec(32, 42, Shor, 52), Rec(32, 42, Blob, 62), Rec(32, 42, Ustr, 52)}

Second == {Rec(33, 43, d, 53) : d \in Scalars \union {Ustr}}
          \union {Rec(33, 43, Blob, b) : b \in {62, 63}}

One(r, more) ==
  [cells |-> CellsOf(r) \o more, records |-> <<Ended(r, Len(CellsOf(r)))>>]

Two(r, s) ==
  [cells |-> CellsOf(r) \o CellsOf(s),
   records |-> <<Ended(r, Len(CellsOf(r))), Ended(s, Len(CellsOf(r)) + Len(CellsOf(s)))>>]

(* No filename, a data type that is not known, and no data. *)
Refused == {<<0, 42, Long, 52>>, <<1, 32, 42, 9>>, <<1, 32, 42, Blob, 0>>,
            <<1, 32, 42, Ustr, 0>>}

Cut(s) == {SubSeq(CellsOf(s), 1, n) : n \in 0 .. Len(CellsOf(s)) - 1}

MCFiles ==
  {Two(r, s) : r \in First, s \in Second}
    \union {One(r, more) : r \in First, more \in Refused}
    \union UNION {{One(r, more) : r \in {Rec(32, 42, Blob, 62)}, more \in Cut(s)} :
                    s \in {Rec(33, 43, d, 53) : d \in {Long, Shor, Ustr, Blob}}}

=============================================================================
