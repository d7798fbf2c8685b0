---------------------------- MODULE RecordStream ----------------------------
(***************************************************************************)
(* What an enumeration of a store promises to the function it calls back.  *)
(*                                                                         *)
(* ds_store_enum_records hands the records of a .DS_Store, one at a time,  *)
(* to a record_func and returns 0, or it returns nonzero.  Records are     *)
(* named here by their rank in the order of the file: rank 1 is the first  *)
(* record of the leftmost leaf.  How the records are found in the file is  *)
(* the business of BlockEnum, which implements this module; the commands   *)
(* that consume the stream (module Commands) are built on this one.        *)
(***************************************************************************)
EXTENDS Naturals, Sequences

CONSTANT Totals      \* the numbers of records a store may hold

VARIABLES
  total,             \* the number of records of this store
  out,               \* the ranks handed to record_func so far
  status             \* "running", then what the call returned: "ok" or "error"

streamVars == <<total, out, status>>

Status == {"running", "ok", "error"}

Init ==
  /\ total \in Totals
  /\ out = <<>>
  /\ status = "running"

(* record_func(record): the next record, in order, is handed over. *)
Deliver ==
  /\ status = "running"
  /\ Len(out) < total
  /\ out' = Append(out, Len(out) + 1)
  /\ UNCHANGED <<total, status>>

(* return 0: only when nothing is left to hand over. *)
Finish ==
  /\ status = "running"
  /\ Len(out) = total
  /\ status' = "ok"
  /\ UNCHANGED <<total, out>>

(* return 1: a read, a seek or a check failed, at any point. *)
Fail ==
  /\ status = "running"
  /\ status' = "error"
  /\ UNCHANGED <<total, out>>

Next == Deliver \/ Finish \/ Fail

SafeSpec == Init /\ [][Next]_streamVars

=============================================================================
