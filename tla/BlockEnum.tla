------------------------------ MODULE BlockEnum ------------------------------
(***************************************************************************)
(* ds_store_enum_blocks_core (libamalgamate/dsstore.cpp): the recursive,   *)
(* in-order walk over the B-tree of a .DS_Store.                           *)
(*                                                                         *)
(* The one FILE * is shared by every activation of the function.  An       *)
(* activation remembers where its caller's stream stood, seeks to its own  *)
(* block, reads the node there (calling itself for each child) and, when   *)
(* it succeeds, seeks back, so that the caller goes on reading at the      *)
(* record behind the child pointer it has just followed.                   *)
(*                                                                         *)
(* A node is a sequence of cells, one per field the code reads as a unit:  *)
(*   leaf           <<0, n, record_1, ..., record_n>>                      *)
(*   internal node  <<p, n, child_1, record_1, ..., child_n, record_n>>    *)
(* where the "node type" p of an internal node is the number of its last   *)
(* child.  A position of the stream is a pair <<block, cell index>>.  A    *)
(* record is named by its rank in the order of the whole tree.             *)
(***************************************************************************)
EXTENDS Naturals, Sequences

CONSTANT Files       \* the stores that may be enumerated

VARIABLES
  file,              \* the store: its allocator, header block and nodes
  pos,               \* where the FILE * stands
  stack,             \* the activations of the function, the running one last
  ret,               \* what the last activation returned; "none" while one runs
  record,            \* the ds_record_t that is allocated, or NoRecord
  out                \* the records handed to record_func, in order

vars == <<file, pos, stack, ret, record, out>>

-----------------------------------------------------------------------------
(* The store.                                                              *)

Nodes(f) == DOMAIN f.cells

NodeType(f, b) == f.cells[b][1]

RecordCount(f, b) == f.cells[b][2]

IsLeaf(f, b) == NodeType(f, b) = 0

(* The i-th child, from 0; the last one is held in the node type field.    *)
Child(f, b, i) ==
  IF i = RecordCount(f, b) THEN NodeType(f, b) ELSE f.cells[b][3 + 2 * i]

Valid(f) == f.root < f.count

(* f.before[b] and f.upto[b]: how many records of the file come before the *)
(* subtree at b, and up to its end.  f.level[b]: its height.  They say     *)
(* what it means for the cells to be a B-tree in record order; the code    *)
(* does not read them.                                                     *)
LeafOK(f, b) ==
  /\ \A i \in 0 .. RecordCount(f, b) - 1 :
        f.cells[b][3 + i] = f.before[b] + i + 1
  /\ f.upto[b] = f.before[b] + RecordCount(f, b)

InternalOK(f, b) ==
  /\ \A i \in 0 .. RecordCount(f, b) :
        /\ Child(f, b, i) \in Nodes(f)
        /\ f.level[Child(f, b, i)] < f.level[b]
        /\ f.upto[Child(f, b, i)] <= f.upto[b]
  /\ f.before[Child(f, b, 0)] = f.before[b]
  /\ \A i \in 0 .. RecordCount(f, b) - 1 :
        /\ f.cells[b][4 + 2 * i] = f.upto[Child(f, b, i)] + 1
        /\ f.before[Child(f, b, i + 1)] = f.cells[b][4 + 2 * i]
  /\ f.upto[Child(f, b, RecordCount(f, b))] = f.upto[b]

(* Block 0 holds the allocator itself, so no node has the number 0 and a   *)
(* node type of 0 is free to mean "leaf".                                  *)
WellFormed(f) ==
  /\ f.root \in Nat /\ f.count \in Nat /\ f.records \in Nat
  /\ Nodes(f) \subseteq 1 .. f.count - 1
  /\ f.cells \in [Nodes(f) -> Seq(Nat)]
  /\ f.before \in [Nodes(f) -> Nat]
  /\ f.upto \in [Nodes(f) -> Nat]
  /\ f.level \in [Nodes(f) -> Nat]
  /\ \A b \in Nodes(f) :
        /\ f.before[b] <= f.upto[b]
        /\ Len(f.cells[b]) >= 2
        /\ Len(f.cells[b]) = IF IsLeaf(f, b) THEN 2 + RecordCount(f, b)
                             ELSE 2 + 2 * RecordCount(f, b)
        /\ IF IsLeaf(f, b) THEN LeafOK(f, b) ELSE InternalOK(f, b)
  /\ Valid(f) => /\ f.root \in Nodes(f)
                 /\ f.before[f.root] = 0
                 /\ f.upto[f.root] = f.records

ASSUME FilesAssumption == \A f \in Files : WellFormed(f)

-----------------------------------------------------------------------------
(* Activations.                                                            *)

(* Where ds_store_fread leaves the stream: behind the five fields of the   *)
(* header block, which is block 1.                                         *)
HeaderBlockEnd == <<1, 6>>

NoRecord == 0

(* A block's number and a cell of it, both from 1. *)
Position == (Nat \ {0}) \X (Nat \ {0})

PCs == {"enter", "type", "count", "loop", "child", "record", "deliver",
        "last", "restore"}

Frame == [block : Nat, saved : Nat \X Nat, type : Nat, count : Nat,
          i : Nat, pc : PCs]

(* saved, type, count and i are not initialised by the code before they    *)
(* are assigned, and nothing reads them before.                            *)
NewFrame(b) == [block |-> b, saved |-> <<0, 0>>, type |-> 0, count |-> 0,
                i |-> 0, pc |-> "enter"]

Top == stack[Len(stack)]

SetTop(fr) == [stack EXCEPT ![Len(stack)] = fr]

(* The running activation is the last one, and it is at pc. *)
At(pc) == stack # <<>> /\ ret = "none" /\ Top.pc = pc

(* The activation at pc has just been returned to. *)
Back(pc) == stack # <<>> /\ ret # "none" /\ Top.pc = pc

Return(r) ==
  /\ stack' = SubSeq(stack, 1, Len(stack) - 1)
  /\ ret' = r

Call(fr, b) ==
  /\ stack' = Append(SetTop(fr), NewFrame(b))
  /\ UNCHANGED <<ret, record>>

Cell == file.cells[pos[1]][pos[2]]

Advance == pos' = <<pos[1], pos[2] + 1>>

Init ==
  /\ file \in Files
  /\ pos = HeaderBlockEnd
  /\ stack = <<NewFrame(file.root)>>
  /\ ret = "none"
  /\ record = NoRecord
  /\ out = <<>>

-----------------------------------------------------------------------------
(* Steps of ds_store_enum_blocks_core.                                     *)

(* "root node block number out of range": the check is on the root's       *)
(* number whatever block the activation is for, and it comes before the    *)
(* stream offset is taken.                                                 *)
RejectRoot ==
  /\ At("enter")
  /\ file.root >= file.count
  /\ Return("error")
  /\ UNCHANGED <<file, pos, record, out>>

(* Mutant: the stream's offset is not taken. *)
SeekToBlock_NoFtell ==
  /\ At("enter")
  /\ file.root < file.count
  /\ stack' = SetTop([Top EXCEPT !.pc = "type"])
  /\ pos' = <<Top.block, 1>>
  /\ UNCHANGED <<file, ret, record, out>>

(* stream_offset = ftell(file), then fseek to the block. *)
SeekToBlock ==
  /\ At("enter")
  /\ file.root < file.count
  /\ stack' = SetTop([Top EXCEPT !.saved = pos, !.pc = "type"])
  /\ pos' = <<Top.block, 1>>
  /\ UNCHANGED <<file, ret, record, out>>

ReadNodeType ==
  /\ At("type")
  /\ stack' = SetTop([Top EXCEPT !.type = Cell, !.pc = "count"])
  /\ Advance
  /\ UNCHANGED <<file, ret, record, out>>

ReadRecordCount ==
  /\ At("count")
  /\ stack' = SetTop([Top EXCEPT !.count = Cell, !.i = 0, !.pc = "loop"])
  /\ Advance
  /\ UNCHANGED <<file, ret, record, out>>

(* Mutant: the child pointer is read, its subtree is not. *)
ReadChild_NoCall ==
  /\ At("loop")
  /\ Top.type # 0 /\ Top.i < Top.count
  /\ Advance
  /\ stack' = SetTop([Top EXCEPT !.pc = "record"])
  /\ UNCHANGED <<file, ret, record, out>>

(* Internal node: read a child pointer and call for that child.  The code  *)
(* keeps the pointer in its parameter block_number; the frame keeps the    *)
(* block it was called for, which nothing reads any more.                  *)
ReadChild ==
  /\ At("loop")
  /\ Top.type # 0 /\ Top.i < Top.count
  /\ Advance
  /\ Call([Top EXCEPT !.pc = "child"], Cell)
  /\ UNCHANGED <<file, out>>

(* The call for a child returned 0: go on to the record behind it. *)
ChildDone ==
  /\ Back("child")
  /\ ret = "ok"
  /\ stack' = SetTop([Top EXCEPT !.pc = "record"])
  /\ ret' = "none"
  /\ UNCHANGED <<file, pos, record, out>>

AtRecord == At("record") \/ (At("loop") /\ Top.type = 0 /\ Top.i < Top.count)

(* ds_record_create and ds_record_fread. *)
ReadRecord ==
  /\ AtRecord
  /\ record' = Cell
  /\ Advance
  /\ stack' = SetTop([Top EXCEPT !.pc = "deliver"])
  /\ UNCHANGED <<file, ret, out>>

(* Mutant: the record that could not be read is not freed. *)
ReadRecordFails_Leaks ==
  /\ AtRecord
  /\ record' = Len(out) + 1
  /\ Return("error")
  /\ UNCHANGED <<file, pos, out>>

(* ds_record_fread fails: the new record is freed and the walk ends. *)
ReadRecordFails ==
  /\ AtRecord
  /\ record' = NoRecord
  /\ Return("error")
  /\ UNCHANGED <<file, pos, out>>

(* record_func(record), then ds_record_free(record). *)
DeliverRecord ==
  /\ At("deliver")
  /\ out' = Append(out, record)
  /\ record' = NoRecord
  /\ stack' = SetTop([Top EXCEPT !.i = @ + 1, !.pc = "loop"])
  /\ UNCHANGED <<file, pos, ret>>

(* Mutant: the child in the node type field is forgotten. *)
CallLast_Forgets ==
  /\ At("loop")
  /\ Top.type # 0 /\ Top.i = Top.count
  /\ stack' = SetTop([Top EXCEPT !.pc = "restore"])
  /\ UNCHANGED <<file, pos, ret, record, out>>

(* Internal node, all its records done: call for the last child. *)
CallLast ==
  /\ At("loop")
  /\ Top.type # 0 /\ Top.i = Top.count
  /\ Call([Top EXCEPT !.pc = "last"], Top.type)
  /\ UNCHANGED <<file, pos, out>>

(* Mutant: the loop is entered again. *)
LastDone_Again ==
  /\ Back("last")
  /\ ret = "ok"
  /\ stack' = SetTop([Top EXCEPT !.pc = "loop"])
  /\ ret' = "none"
  /\ UNCHANGED <<file, pos, record, out>>

(* The call for the last child returned 0. *)
LastDone ==
  /\ Back("last")
  /\ ret = "ok"
  /\ stack' = SetTop([Top EXCEPT !.pc = "restore"])
  /\ ret' = "none"
  /\ UNCHANGED <<file, pos, record, out>>

AtRestore == At("restore") \/ (At("loop") /\ Top.type = 0 /\ Top.i = Top.count)

(* Mutant: the stream is left behind the subtree. *)
RestoreOffset_NoSeek ==
  /\ AtRestore
  /\ Return("ok")
  /\ UNCHANGED <<file, pos, record, out>>

(* fseek(file, stream_offset), return 0. *)
RestoreOffset ==
  /\ AtRestore
  /\ pos' = Top.saved
  /\ Return("ok")
  /\ UNCHANGED <<file, record, out>>

(* Mutant: what the call for the last child returned is ignored. *)
Propagate_NotLast ==
  /\ ret = "error"
  /\ \/ Back("child") /\ Return("error")
     \/ /\ Back("last")
        /\ stack' = SetTop([Top EXCEPT !.pc = "restore"])
        /\ ret' = "none"
  /\ UNCHANGED <<file, pos, record, out>>

(* A call for a child failed: this activation fails, without seeking back. *)
Propagate ==
  /\ Back("child") \/ Back("last")
  /\ ret = "error"
  /\ Return("error")
  /\ UNCHANGED <<file, pos, record, out>>

(* A seek or the read of a four-byte field fails (end of file, I/O error). *)
(* How far a failed read moved the stream is left out: an activation that  *)
(* fails does not seek back, and nothing reads behind it.                  *)
IOError ==
  /\ \/ At("enter") /\ file.root < file.count
     \/ At("type")
     \/ At("count")
     \/ At("loop") /\ Top.type # 0 /\ Top.i < Top.count
     \/ AtRestore
  /\ Return("error")
  /\ UNCHANGED <<file, pos, record, out>>

Next ==
  \/ RejectRoot \/ SeekToBlock \/ ReadNodeType \/ ReadRecordCount
  \/ ReadChild \/ ChildDone \/ ReadRecord \/ ReadRecordFails \/ DeliverRecord
  \/ CallLast \/ LastDone \/ RestoreOffset \/ Propagate \/ IOError

(* One thread runs the call to its end: every read, seek and record_func   *)
(* returns, so the code never stops between two steps.                     *)
Spec == Init /\ [][Next]_vars /\ WF_vars(Next)

-----------------------------------------------------------------------------
(* Properties.                                                             *)

TypeOK ==
  /\ file \in Files
  /\ pos \in Position
  /\ stack \in Seq(Frame)
  /\ ret \in {"none", "ok", "error"}
  /\ record \in Nat
  /\ out \in Seq(Nat)

(* Where the stream stands when the activation fr runs, or is returned to: *)
(* the cell that the layout of its node puts next.                         *)
Resume(fr) ==
  <<fr.block,
    CASE fr.pc = "type"    -> 1
      [] fr.pc = "count"   -> 2
      [] fr.pc = "loop"    -> IF fr.type = 0 THEN 3 + fr.i ELSE 3 + 2 * fr.i
      [] fr.pc = "child"   -> 4 + 2 * fr.i
      [] fr.pc = "record"  -> 4 + 2 * fr.i
      [] fr.pc = "deliver" -> IF fr.type = 0 THEN 4 + fr.i ELSE 5 + 2 * fr.i
      [] fr.pc = "last"    -> 3 + 2 * fr.i
      [] fr.pc = "restore" -> 3 + 2 * fr.i
      [] OTHER             -> 0>>

(* The block that the activation fr has called for. *)
Callee(fr) == Child(file, fr.block, fr.i)

(* The record behind a child pointer is read where it lies, although the   *)
(* whole subtree of the child was read through the same stream in between: *)
(* whenever an activation runs, or is returned to with 0, the stream is at *)
(* the next cell of its own node.                                          *)
AlignedReads ==
  stack # <<>> /\ ret # "error" /\ Top.pc # "enter" => pos = Resume(Top)

(* record_func sees the records of the file in order, none skipped and     *)
(* none twice, at every moment and whatever fails later.                   *)
InOrder == out = [k \in 1 .. Len(out) |-> k]

(* When the outermost call returns 0, every record was handed over and the *)
(* stream is back where ds_store_enum_records found it.                    *)
CompleteOnSuccess ==
  stack = <<>> /\ ret = "ok" => Len(out) = file.records /\ pos = HeaderBlockEnd

(* Every ds_record_t is freed before the walk calls itself or returns: no  *)
(* exit, by success or by failure, leaks one.                              *)
NoRecordLeak == record # NoRecord => stack # <<>> /\ ret = "none" /\ Top.pc = "deliver"

(* The C++ stack is never deeper than the tree is high. *)
RecursionBounded ==
  Valid(file) => Len(stack) <= file.level[file.root] + 1

(* Once an activation has failed, record_func is not called again and the  *)
(* failure reaches the outermost caller: it cannot turn into success.      *)
FailureIsFinal == [][ret = "error" => ret' = "error" /\ out' = out]_vars

(* The walk ends. *)
Terminates == <>(stack = <<>>)

(* The inductive invariant behind these properties.                        *)

(* Where the activation at depth j must leave the stream. *)
Exit(j) == IF j = 1 THEN HeaderBlockEnd ELSE Resume(stack[j - 1])

(* What an activation has read of its node, and where in the loop it is. *)
FrameOK(fr) ==
  /\ fr.block \in Nodes(file)
  /\ fr.pc \notin {"enter", "type"} => fr.type = NodeType(file, fr.block)
  /\ fr.pc \notin {"enter", "type", "count"} =>
       fr.count = RecordCount(file, fr.block) /\ fr.i <= fr.count
  /\ fr.pc \in {"child", "record"} => fr.type # 0
  /\ fr.pc \in {"child", "record", "deliver"} => fr.i < fr.count
  /\ fr.pc \in {"last", "restore"} => fr.type # 0 /\ fr.i = fr.count

(* The records that come before the place an activation has reached. *)
Rank(fr) ==
  CASE fr.pc \in {"enter", "type", "count"} -> file.before[fr.block]
    [] fr.pc \in {"loop", "deliver"} /\ fr.type = 0 -> file.before[fr.block] + fr.i
    [] fr.pc = "loop" /\ fr.type # 0 -> file.before[Callee(fr)]
    [] OTHER -> file.upto[Callee(fr)]

(* Every activation but the running one waits for the one above it. *)
CallChain ==
  /\ stack # <<>> => stack[1].block = file.root
  /\ \A j \in 1 .. Len(stack) - 1 :
        /\ stack[j].pc \in {"child", "last"}
        /\ stack[j + 1].block = Callee(stack[j])

FramesOK ==
  \A j \in 1 .. Len(stack) :
    /\ FrameOK(stack[j])
    /\ stack[j].pc # "enter" => stack[j].saved = Exit(j)
    /\ j + file.level[stack[j].block] <= file.level[file.root] + 1
    /\ file.upto[stack[j].block] <= file.records

RetOK ==
  /\ stack = <<>> => ret # "none"
  /\ stack # <<>> => (ret = "none" <=> Top.pc \notin {"child", "last"})

PosOK ==
  ret # "error" =>
    pos = IF stack = <<>> THEN HeaderBlockEnd
          ELSE IF Top.pc = "enter" THEN Exit(Len(stack)) ELSE Resume(Top)

RankOK ==
  ret # "error" =>
    Len(out) = IF stack = <<>> THEN file.records ELSE Rank(Top)

(* The record in hand is the next one to be handed over. *)
RecordOK ==
  record = IF stack # <<>> /\ Top.pc = "deliver" THEN Len(out) + 1 ELSE NoRecord

IInv ==
  /\ TypeOK
  /\ InOrder
  /\ RetOK
  /\ RecordOK
  /\ Valid(file) => CallChain /\ FramesOK /\ PosOK /\ RankOK
  /\ ~Valid(file) => /\ out = <<>>
                     /\ \/ stack = <<NewFrame(file.root)>>
                        \/ stack = <<>> /\ ret = "error"

(* The walk is a record stream. *)
Stream == INSTANCE RecordStream
            WITH Totals <- {f.records : f \in Files},
                 total <- file.records,
                 status <- IF stack = <<>> THEN ret ELSE "running"

ImplementsStream == Stream!SafeSpec

=============================================================================
