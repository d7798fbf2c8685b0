--------------------------- MODULE BlockEnumProofs ---------------------------
(***************************************************************************)
(* Theorems about BlockEnum, for every set of stores, every tree shape and *)
(* every point of failure.  The argument is the inductive invariant IInv   *)
(* of that module: each waiting activation knows the cell it will resume   *)
(* at, each running one the offset it must seek back to, and the number of *)
(* records handed over is the rank of the place the walk has reached.      *)
(***************************************************************************)
EXTENDS BlockEnum, SequenceTheorems, TLAPS

-----------------------------------------------------------------------------
(* What the B-tree guarantees of a node.                                   *)

(* The fields of a node and its ghosts are numbers. *)
LEMMA NodeFacts ==
  ASSUME NEW f, WellFormed(f), NEW b \in Nodes(f)
  PROVE  /\ b \in Nat /\ b # 0
         /\ NodeType(f, b) \in Nat
         /\ RecordCount(f, b) \in Nat
         /\ f.before[b] \in Nat
         /\ f.upto[b] \in Nat
         /\ f.level[b] \in Nat
         /\ f.before[b] <= f.upto[b]
<1>1. f.cells[b] \in Seq(Nat) /\ Len(f.cells[b]) >= 2
  BY DEF WellFormed
<1>2. f.cells[b][1] \in Nat /\ f.cells[b][2] \in Nat
  BY <1>1
<1>3. b \in 1 .. f.count - 1 /\ f.count \in Nat
  BY DEF WellFormed
<1>4. b \in Nat /\ b # 0
  BY <1>3
<1> QED
  BY <1>2, <1>4 DEF WellFormed, NodeType, RecordCount

(* The records of a leaf are numbered from where the leaf begins. *)
LEMMA LeafFacts ==
  ASSUME NEW f, WellFormed(f), NEW b \in Nodes(f), NodeType(f, b) = 0
  PROVE  /\ \A i \in 0 .. RecordCount(f, b) - 1 :
               f.cells[b][3 + i] = f.before[b] + i + 1
         /\ f.upto[b] = f.before[b] + RecordCount(f, b)
BY DEF WellFormed, IsLeaf, LeafOK

(* The children of an internal node, and the record behind each of them. *)
LEMMA InternalFacts ==
  ASSUME NEW f, WellFormed(f), NEW b \in Nodes(f), NodeType(f, b) # 0
  PROVE  /\ \A i \in 0 .. RecordCount(f, b) :
               /\ Child(f, b, i) \in Nodes(f)
               /\ f.level[Child(f, b, i)] < f.level[b]
               /\ f.upto[Child(f, b, i)] <= f.upto[b]
         /\ f.before[Child(f, b, 0)] = f.before[b]
         /\ \A i \in 0 .. RecordCount(f, b) - 1 :
               /\ f.cells[b][3 + 2 * i] = Child(f, b, i)
               /\ f.cells[b][4 + 2 * i] = f.upto[Child(f, b, i)] + 1
               /\ f.before[Child(f, b, i + 1)] = f.upto[Child(f, b, i)] + 1
         /\ Child(f, b, RecordCount(f, b)) = NodeType(f, b)
         /\ f.upto[NodeType(f, b)] = f.upto[b]
<1>1. RecordCount(f, b) \in Nat
  BY NodeFacts
<1>2. InternalOK(f, b)
  BY DEF WellFormed, IsLeaf
<1>3. \A i \in 0 .. RecordCount(f, b) - 1 : f.cells[b][3 + 2 * i] = Child(f, b, i)
  BY <1>1 DEF Child
<1>4. Child(f, b, RecordCount(f, b)) = NodeType(f, b)
  BY DEF Child
<1>5. \A i \in 0 .. RecordCount(f, b) - 1 :
         /\ f.cells[b][4 + 2 * i] = f.upto[Child(f, b, i)] + 1
         /\ f.before[Child(f, b, i + 1)] = f.upto[Child(f, b, i)] + 1
  BY <1>2 DEF InternalOK
<1> QED
  BY <1>2, <1>3, <1>4, <1>5 DEF InternalOK

-----------------------------------------------------------------------------
(* What a step does to the activations.                                    *)

(* A step of the running activation: those below it do not notice. *)
LEMMA TopStep ==
  ASSUME TypeOK, Valid(file), CallChain, FramesOK, stack # <<>>, file' = file,
         NEW fr \in Frame, stack' = SetTop(fr),
         fr.block = Top.block, FrameOK(fr), fr.pc # "enter",
         fr.saved = Exit(Len(stack))
  PROVE  /\ stack' \in Seq(Frame) /\ stack' # <<>>
         /\ Len(stack') = Len(stack)
         /\ Top' = fr
         /\ CallChain'
         /\ FramesOK'
<1>0. PICK n \in Nat : n = Len(stack)
  BY DEF TypeOK
<1>1. /\ stack \in Seq(Frame) /\ Len(stack) = n /\ n >= 1
      /\ stack' = [stack EXCEPT ![n] = fr]
  BY <1>0 DEF TypeOK, SetTop
<1>2. /\ stack' \in Seq(Frame) /\ Len(stack') = n /\ stack' # <<>>
      /\ stack'[n] = fr
      /\ \A j \in 1 .. n : j # n => stack'[j] = stack[j]
  BY <1>1
<1>3. \A j \in 1 .. n : stack'[j].block = stack[j].block
  BY <1>1, <1>2 DEF Top
<1>4. CallChain'
  <2>1. stack'[1].block = file.root
    BY <1>1, <1>3 DEF CallChain
  <2>2. ASSUME NEW j \in 1 .. n - 1
        PROVE  /\ stack'[j].pc \in {"child", "last"}
               /\ stack'[j + 1].block = Callee(stack'[j])
    <3>1. j \in 1 .. n /\ j # n /\ j + 1 \in 1 .. n
      BY <1>1
    <3>2. stack'[j] = stack[j] /\ stack'[j + 1].block = stack[j + 1].block
      BY <1>2, <1>3, <3>1
    <3> QED
      BY <1>0, <3>2 DEF CallChain
  <2> QED
    BY <1>2, <2>1, <2>2 DEF CallChain, Callee
<1>5. \A j \in 1 .. n : Exit(j)' = Exit(j)
  <2> SUFFICES ASSUME NEW j \in 1 .. n PROVE Exit(j)' = Exit(j)
    OBVIOUS
  <2>1. CASE j = 1
    BY <2>1 DEF Exit
  <2>2. CASE j # 1
    <3>1. j - 1 \in 1 .. n /\ j - 1 # n
      BY <1>1, <2>2
    <3> QED
      BY <1>2, <2>2, <3>1 DEF Exit
  <2> QED
    BY <2>1, <2>2
<1>6. FramesOK'
  <2> SUFFICES ASSUME NEW j \in 1 .. n
               PROVE  /\ FrameOK(stack'[j])
                      /\ stack'[j].pc # "enter" => stack'[j].saved = Exit(j)
                      /\ j + file.level[stack'[j].block] <= file.level[file.root] + 1
                      /\ file.upto[stack'[j].block] <= file.records
    BY <1>2, <1>5 DEF FramesOK, FrameOK
  <2>1. CASE j = n
    BY <1>0, <1>2, <1>3, <2>1 DEF FramesOK
  <2>2. CASE j # n
    BY <1>0, <1>2, <2>2 DEF FramesOK
  <2> QED
    BY <2>1, <2>2
<1> QED
  BY <1>0, <1>2, <1>4, <1>6 DEF Top

(* A call for the child that the running activation points at. *)
LEMMA PushStep ==
  ASSUME TypeOK, Valid(file), WellFormed(file), CallChain, FramesOK,
         stack # <<>>, file' = file,
         NEW fr \in Frame, stack' = Append(SetTop(fr), NewFrame(Callee(fr))),
         fr.block = Top.block, FrameOK(fr), fr.pc \in {"child", "last"},
         fr.saved = Exit(Len(stack))
  PROVE  /\ stack' \in Seq(Frame) /\ stack' # <<>>
         /\ Len(stack') = Len(stack) + 1
         /\ Top' = NewFrame(Callee(fr))
         /\ Exit(Len(stack))' = Resume(fr)
         /\ CallChain'
         /\ FramesOK'
<1>0. PICK n \in Nat : n = Len(stack)
  BY DEF TypeOK
<1> DEFINE nf == NewFrame(Callee(fr))
<1>1. /\ stack \in Seq(Frame) /\ Len(stack) = n /\ n >= 1
      /\ stack' = Append([stack EXCEPT ![n] = fr], nf)
  BY <1>0 DEF TypeOK, SetTop
<1>2. /\ Top \in Frame /\ Top = stack[n] /\ FrameOK(Top)
      /\ n + file.level[Top.block] <= file.level[file.root] + 1
      /\ file.upto[Top.block] <= file.records
  BY <1>1 DEF Top, FramesOK
<1>3. /\ Callee(fr) \in Nodes(file)
      /\ file.level[Callee(fr)] < file.level[fr.block]
      /\ file.upto[Callee(fr)] <= file.upto[fr.block]
  <2>1. /\ fr.block \in Nodes(file)
        /\ NodeType(file, fr.block) # 0
        /\ fr.i \in 0 .. RecordCount(file, fr.block)
    BY NodeFacts DEF FrameOK, Frame
  <2> QED
    BY <2>1, InternalFacts DEF Callee
<1>4. /\ Callee(fr) \in Nat /\ file.root \in Nodes(file)
      /\ file.level[Callee(fr)] \in Nat /\ file.level[fr.block] \in Nat
      /\ file.upto[Callee(fr)] \in Nat /\ file.upto[fr.block] \in Nat
      /\ file.level[file.root] \in Nat /\ file.records \in Nat
  <2>1. file.root \in Nodes(file) /\ fr.block \in Nodes(file) /\ file.records \in Nat
    BY DEF WellFormed, FrameOK
  <2> QED
    BY <2>1, <1>3, NodeFacts
<1>5. nf \in Frame /\ nf.block = Callee(fr) /\ nf.pc = "enter"
  BY <1>4 DEF NewFrame, Frame, PCs
<1>6. /\ stack' \in Seq(Frame) /\ Len(stack') = n + 1 /\ stack' # <<>>
      /\ stack'[n] = fr /\ stack'[n + 1] = nf
      /\ \A j \in 1 .. n : j # n => stack'[j] = stack[j]
  BY <1>1, <1>5
<1>7. \A j \in 1 .. n : stack'[j].block = stack[j].block
  BY <1>1, <1>6 DEF Top
<1>8. CallChain'
  <2>1. stack'[1].block = file.root
    BY <1>1, <1>7 DEF CallChain
  <2>2. ASSUME NEW j \in 1 .. n
        PROVE  /\ stack'[j].pc \in {"child", "last"}
               /\ stack'[j + 1].block = Callee(stack'[j])
    <3>1. CASE j = n
      BY <1>5, <1>6, <3>1
    <3>2. CASE j # n
      <4>1. j \in 1 .. n - 1 /\ j + 1 \in 1 .. n
        BY <1>1, <3>2
      <4>2. stack'[j] = stack[j] /\ stack'[j + 1].block = stack[j + 1].block
        BY <1>6, <1>7, <4>1, <3>2
      <4> QED
        BY <1>0, <4>1, <4>2 DEF CallChain
    <3> QED
      BY <3>1, <3>2
  <2>3. \A j \in 1 .. Len(stack') - 1 : j \in 1 .. n
    BY <1>1, <1>6
  <2> QED
    BY <1>6, <2>1, <2>2, <2>3 DEF CallChain, Callee
<1>9. \A j \in 1 .. n : Exit(j)' = Exit(j)
  <2> SUFFICES ASSUME NEW j \in 1 .. n PROVE Exit(j)' = Exit(j)
    OBVIOUS
  <2>1. CASE j = 1
    BY <2>1 DEF Exit
  <2>2. CASE j # 1
    <3>1. j - 1 \in 1 .. n /\ j - 1 # n
      BY <1>1, <2>2
    <3> QED
      BY <1>6, <2>2, <3>1 DEF Exit
  <2> QED
    BY <2>1, <2>2
<1>10. /\ (n + 1) + file.level[nf.block] <= file.level[file.root] + 1
       /\ file.upto[nf.block] <= file.records
  <2>1. /\ file.level[nf.block] < file.level[Top.block]
        /\ file.upto[nf.block] <= file.upto[Top.block]
    BY <1>3, <1>5
  <2>2. /\ file.level[nf.block] \in Nat /\ file.level[Top.block] \in Nat
        /\ file.upto[nf.block] \in Nat /\ file.upto[Top.block] \in Nat
    BY <1>4, <1>5
  <2>3. PICK a \in Nat : a = file.level[nf.block]
    BY <2>2
  <2>4. PICK b \in Nat : b = file.level[Top.block]
    BY <2>2
  <2>5. PICK c \in Nat : c = file.level[file.root]
    BY <1>4
  <2>6. a < b /\ n + b <= c + 1
    BY <1>2, <2>1, <2>3, <2>4, <2>5
  <2>7. (n + 1) + a <= c + 1
    BY <2>6
  <2>8. file.upto[nf.block] <= file.records
    BY <1>2, <1>4, <2>1, <2>2
  <2> QED
    BY <2>3, <2>5, <2>7, <2>8
<1>11. FramesOK'
  <2> SUFFICES ASSUME NEW j \in 1 .. n + 1
               PROVE  /\ FrameOK(stack'[j])
                      /\ stack'[j].pc # "enter" => stack'[j].saved = Exit(j)'
                      /\ j + file.level[stack'[j].block] <= file.level[file.root] + 1
                      /\ file.upto[stack'[j].block] <= file.records
    BY <1>6 DEF FramesOK, FrameOK
  <2>1. CASE j = n + 1
    <3>1. FrameOK(nf)
      BY <1>3, <1>5 DEF FrameOK
    <3> QED
      BY <1>5, <1>6, <1>10, <2>1, <3>1
  <2>2. CASE j = n
    BY <1>1, <1>2, <1>6, <1>9, <2>2
  <2>3. CASE j \in 1 .. n /\ j # n
    BY <1>0, <1>6, <1>9, <2>3 DEF FramesOK
  <2>4. j = n + 1 \/ j = n \/ (j \in 1 .. n /\ j # n)
    BY <1>1
  <2> QED
    BY <2>1, <2>2, <2>3, <2>4
<1>12. Exit(Len(stack))' = Resume(fr)
  BY <1>1, <1>6 DEF Exit
<1> QED
  BY <1>0, <1>6, <1>8, <1>11, <1>12 DEF Top

(* A return: the caller, if there is one, is the activation below. *)
LEMMA PopStep ==
  ASSUME TypeOK, Valid(file), CallChain, FramesOK, stack # <<>>, file' = file,
         stack' = SubSeq(stack, 1, Len(stack) - 1)
  PROVE  /\ stack' \in Seq(Frame)
         /\ CallChain'
         /\ FramesOK'
         /\ stack' = <<>> => /\ Exit(Len(stack)) = HeaderBlockEnd
                             /\ Top.block = file.root
         /\ stack' # <<>> => /\ Exit(Len(stack)) = Resume(Top')
                             /\ Top.block = Callee(Top')
                             /\ Top'.pc \in {"child", "last"}
<1>0. PICK n \in Nat : n = Len(stack)
  BY DEF TypeOK
<1>1. /\ stack \in Seq(Frame) /\ Len(stack) = n /\ n >= 1
      /\ stack' = SubSeq(stack, 1, n - 1)
  BY <1>0 DEF TypeOK
<1>2. /\ stack' \in Seq(Frame) /\ Len(stack') = n - 1
      /\ \A j \in 1 .. n - 1 : stack'[j] = stack[j]
  <2>1. \A j \in 1 .. n - 1 : stack[j] \in Frame
    BY <1>1
  <2> QED
    <3>1. /\ SubSeq(stack, 1, n - 1) \in Seq(Frame)
          /\ Len(SubSeq(stack, 1, n - 1)) = IF 1 <= n - 1 THEN (n - 1) - 1 + 1 ELSE 0
          /\ \A j \in 1 .. (n - 1) - 1 + 1 : SubSeq(stack, 1, n - 1)[j] = stack[1 + j - 1]
      BY <1>1, <2>1, SubSeqProperties
    <3>2. Len(SubSeq(stack, 1, n - 1)) = n - 1
      BY <1>1, <3>1
    <3>3. ASSUME NEW j \in 1 .. n - 1 PROVE SubSeq(stack, 1, n - 1)[j] = stack[j]
      <4>1. j \in 1 .. (n - 1) - 1 + 1 /\ 1 + j - 1 = j
        BY <1>1
      <4> QED
        BY <3>1, <4>1
    <3> QED
      BY <1>1, <3>1, <3>2, <3>3
<1>3. CallChain'
  <2>1. stack' # <<>> => stack'[1].block = file.root
    BY <1>1, <1>2 DEF CallChain
  <2>2. ASSUME NEW j \in 1 .. n - 2
        PROVE  /\ stack'[j].pc \in {"child", "last"}
               /\ stack'[j + 1].block = Callee(stack'[j])
    <3>1. j \in 1 .. n - 1 /\ j + 1 \in 1 .. n - 1
      BY <1>1
    <3> QED
      BY <1>2, <3>1 DEF CallChain
  <2>3. Len(stack') - 1 = n - 2
    BY <1>1, <1>2
  <2> QED
    BY <2>1, <2>2, <2>3 DEF CallChain, Callee
<1>4. \A j \in 1 .. n - 1 : Exit(j)' = Exit(j)
  <2> SUFFICES ASSUME NEW j \in 1 .. n - 1 PROVE Exit(j)' = Exit(j)
    OBVIOUS
  <2>1. CASE j = 1
    BY <2>1 DEF Exit
  <2>2. CASE j # 1
    <3>1. j - 1 \in 1 .. n - 1
      BY <1>1, <2>2
    <3> QED
      BY <1>2, <2>2, <3>1 DEF Exit
  <2> QED
    BY <2>1, <2>2
<1>5. FramesOK'
  <2>1. ASSUME NEW j \in 1 .. n - 1
        PROVE  /\ FrameOK(stack[j])'
               /\ (stack[j].pc # "enter" => stack[j].saved = Exit(j))'
               /\ (j + file.level[stack[j].block] <= file.level[file.root] + 1)'
               /\ (file.upto[stack[j].block] <= file.records)'
    <3>1. j \in 1 .. n
      BY <1>1
    <3>2. /\ FrameOK(stack[j])
          /\ stack[j].pc # "enter" => stack[j].saved = Exit(j)
          /\ j + file.level[stack[j].block] <= file.level[file.root] + 1
          /\ file.upto[stack[j].block] <= file.records
      BY <1>1, <3>1 DEF FramesOK
    <3>3. stack'[j] = stack[j] /\ file' = file
      BY <1>2
    <3>4. FrameOK(stack[j])'
      BY <3>2, <3>3 DEF FrameOK
    <3> QED
      BY <1>4, <3>2, <3>3, <3>4
  <2> QED
    BY <1>2, <2>1 DEF FramesOK
<1>6. ASSUME stack' = <<>>
      PROVE  Exit(n) = HeaderBlockEnd /\ Top.block = file.root
  <2>1. n = 1
    <3>1. Len(stack') = 0
      BY <1>6, EmptySeq
    <3> QED
      BY <1>1, <1>2, <3>1
  <2> QED
    BY <1>0, <2>1 DEF Exit, Top, CallChain
<1>7. ASSUME stack' # <<>>
      PROVE  /\ Exit(n) = Resume(Top')
             /\ Top.block = Callee(Top')
             /\ Top'.pc \in {"child", "last"}
  <2>1. n # 1 /\ n - 1 \in 1 .. n - 1 /\ Top' = stack[n - 1]
    BY <1>1, <1>2, <1>7 DEF Top
  <2>2. (n - 1) + 1 = n
    BY <1>1
  <2>3. stack[n - 1].pc \in {"child", "last"} /\ stack[n].block = Callee(stack[n - 1])
    BY <1>0, <2>1, <2>2 DEF CallChain
  <2>4. Exit(n) = Resume(stack[n - 1])
    BY <2>1 DEF Exit
  <2> QED
    BY <1>0, <2>1, <2>3, <2>4 DEF Top
<1> QED
  BY <1>2, <1>3, <1>5, <1>6, <1>7

-----------------------------------------------------------------------------
(* Every step of the function preserves IInv.                              *)

(* The store is well formed, and what IInv says of the running activation. *)
LEMMA TopFacts ==
  ASSUME IInv, Valid(file)
  PROVE  /\ WellFormed(file)
         /\ TypeOK /\ CallChain /\ FramesOK
         /\ stack # <<>> =>
              /\ Top \in Frame /\ FrameOK(Top)
              /\ Top.pc # "enter" => Top.saved = Exit(Len(stack))
              /\ file.upto[Top.block] <= file.records
              /\ Top.block \in Nodes(file)
<1>1. TypeOK /\ CallChain /\ FramesOK
  BY DEF IInv
<1>2. WellFormed(file)
  BY <1>1, FilesAssumption DEF TypeOK
<1>3. ASSUME stack # <<>>
      PROVE  /\ Top \in Frame /\ FrameOK(Top)
             /\ Top.pc # "enter" => Top.saved = Exit(Len(stack))
             /\ file.upto[Top.block] <= file.records
  <2>1. stack \in Seq(Frame) /\ Len(stack) \in 1 .. Len(stack)
    BY <1>1, <1>3 DEF TypeOK
  <2> QED
    BY <1>1, <2>1 DEF FramesOK, Top
<1> QED
  BY <1>1, <1>2, <1>3 DEF FrameOK

(* The walk starts with one activation, for the root. *)
LEMMA InitInv == Init => IInv
<1> SUFFICES ASSUME Init PROVE IInv
  OBVIOUS
<1> DEFINE fr == NewFrame(file.root)
<1>1. file \in Files /\ WellFormed(file)
  BY FilesAssumption DEF Init
<1>2. fr \in Frame /\ fr.pc = "enter" /\ fr.block = file.root
  BY <1>1 DEF NewFrame, Frame, PCs, WellFormed
<1>3. /\ stack \in Seq(Frame) /\ Len(stack) = 1 /\ stack # <<>>
      /\ stack[1] = fr /\ Top = fr
  BY <1>2 DEF Init, Top
<1>4. TypeOK /\ InOrder /\ RetOK /\ RecordOK
  <2>1. TypeOK
    BY <1>1, <1>3 DEF Init, TypeOK, Position, HeaderBlockEnd, NoRecord
  <2>2. RetOK /\ RecordOK
    BY <1>2, <1>3 DEF Init, RetOK, RecordOK
  <2>3. InOrder
    BY DEF Init, InOrder
  <2> QED
    BY <2>1, <2>2, <2>3
<1>5. ASSUME Valid(file)
      PROVE  CallChain /\ FramesOK /\ PosOK /\ RankOK
  <2>1. /\ file.root \in Nodes(file) /\ file.records \in Nat
        /\ file.before[file.root] = 0 /\ file.upto[file.root] = file.records
    BY <1>1, <1>5 DEF WellFormed
  <2>2. file.level[file.root] \in Nat
    BY <1>1, <2>1, NodeFacts
  <2>3. CallChain
    BY <1>2, <1>3 DEF CallChain
  <2>4. FramesOK
    BY <1>2, <1>3, <2>1, <2>2 DEF FramesOK, FrameOK
  <2>5. PosOK
    BY <1>2, <1>3 DEF Init, PosOK, Exit
  <2>6. RankOK
    BY <1>2, <1>3, <2>1 DEF Init, RankOK, Rank
  <2> QED
    BY <2>3, <2>4, <2>5, <2>6
<1> QED
  BY <1>4, <1>5 DEF IInv, Init

(* A store whose root block number is out of range is refused at once. *)
LEMMA InvalidInv ==
  ASSUME IInv, ~Valid(file), Next
  PROVE  IInv'
<1>1. TypeOK /\ InOrder /\ RetOK /\ RecordOK /\ out = <<>>
  BY DEF IInv
<1>2. CASE stack = <<NewFrame(file.root)>>
  <2>1. Len(stack) = 1 /\ stack # <<>> /\ Top = NewFrame(file.root)
    BY <1>2 DEF Top
  <2>2. Top.pc = "enter"
    BY <2>1 DEF NewFrame
  <2>3. RejectRoot
    <3>1. file.root \in Nat /\ file.count \in Nat
      BY <1>1, FilesAssumption DEF TypeOK, WellFormed
    <3>2. ~(file.root < file.count)
      BY DEF Valid
    <3> QED
      BY <2>2, <3>1, <3>2
      DEF Next, At, Back, SeekToBlock, ReadNodeType, ReadRecordCount, ReadChild,
          ChildDone, AtRecord, ReadRecord, ReadRecordFails, DeliverRecord,
          CallLast, LastDone, AtRestore, RestoreOffset, Propagate, IOError
  <2>4. /\ stack' = <<>> /\ ret' = "error" /\ stack' \in Seq(Frame)
        /\ UNCHANGED <<file, pos, record, out>>
    BY <2>1, <2>3 DEF RejectRoot, Return
  <2> QED
    BY <1>1, <2>1, <2>2, <2>4
    DEF IInv, TypeOK, InOrder, RetOK, RecordOK, Valid
<1>3. CASE stack = <<>> /\ ret = "error"
  BY <1>3
  DEF Next, At, Back, RejectRoot, SeekToBlock, ReadNodeType, ReadRecordCount,
      ReadChild, ChildDone, AtRecord, ReadRecord, ReadRecordFails, DeliverRecord,
      CallLast, LastDone, AtRestore, RestoreOffset, Propagate, IOError
<1> QED
  BY <1>2, <1>3 DEF IInv

(* The block is looked up and sought: the caller's offset is remembered. *)
LEMMA SeekInv ==
  ASSUME IInv, Valid(file), SeekToBlock
  PROVE  IInv'
<1> DEFINE fr == [Top EXCEPT !.saved = pos, !.pc = "type"]
<1>1. /\ stack # <<>> /\ ret = "none" /\ Top.pc = "enter"
      /\ stack' = SetTop(fr) /\ pos' = <<Top.block, 1>>
      /\ UNCHANGED <<file, ret, record, out>>
  BY DEF SeekToBlock, At
<1>2. /\ WellFormed(file) /\ TypeOK /\ CallChain /\ FramesOK
      /\ Top \in Frame /\ FrameOK(Top) /\ Top.block \in Nodes(file)
      /\ InOrder /\ RetOK /\ RecordOK /\ PosOK /\ RankOK
  BY <1>1, TopFacts DEF IInv
<1>3. pos = Exit(Len(stack)) /\ pos \in Nat \X Nat
  BY <1>1, <1>2 DEF PosOK, TypeOK, Position
<1>4. /\ fr \in Frame /\ fr.block = Top.block /\ fr.pc = "type"
      /\ fr.saved = Exit(Len(stack))
  BY <1>2, <1>3 DEF Frame, PCs
<1>5. FrameOK(fr)
  BY <1>2, <1>4 DEF FrameOK
<1>6. /\ stack' \in Seq(Frame) /\ stack' # <<>> /\ Top' = fr
      /\ CallChain' /\ FramesOK'
  BY <1>1, <1>2, <1>4, <1>5, TopStep
<1>7. TypeOK'
  BY <1>1, <1>2, <1>6, NodeFacts DEF TypeOK, Position
<1>8. InOrder' /\ RetOK' /\ RecordOK'
  BY <1>1, <1>2, <1>4, <1>6 DEF InOrder, RetOK, RecordOK
<1>9. PosOK'
  BY <1>1, <1>4, <1>6 DEF PosOK, Resume
<1>10. RankOK'
  BY <1>1, <1>2, <1>4, <1>6 DEF RankOK, Rank
<1> QED
  BY <1>1, <1>6, <1>7, <1>8, <1>9, <1>10 DEF IInv, Valid

(* The cells behind the stream position are the node's. *)
LEMMA ReadTypeInv ==
  ASSUME IInv, Valid(file), ReadNodeType
  PROVE  IInv'
<1> DEFINE fr == [Top EXCEPT !.type = Cell, !.pc = "count"]
<1>1. /\ stack # <<>> /\ ret = "none" /\ Top.pc = "type"
      /\ stack' = SetTop(fr) /\ pos' = <<pos[1], pos[2] + 1>>
      /\ UNCHANGED <<file, ret, record, out>>
  BY DEF ReadNodeType, At, Advance
<1>2. /\ WellFormed(file) /\ TypeOK /\ CallChain /\ FramesOK
      /\ Top \in Frame /\ FrameOK(Top) /\ Top.block \in Nodes(file)
      /\ Top.saved = Exit(Len(stack))
      /\ InOrder /\ RetOK /\ RecordOK /\ PosOK /\ RankOK
  BY <1>1, TopFacts DEF IInv
<1>3. pos = <<Top.block, 1>> /\ pos' = <<Top.block, 2>>
  BY <1>1, <1>2 DEF PosOK, Resume
<1>4. Cell = NodeType(file, Top.block) /\ Cell \in Nat /\ Top.block \in Nat \ {0}
  BY <1>2, <1>3, NodeFacts DEF Cell, NodeType
<1>5. /\ fr \in Frame /\ fr.block = Top.block /\ fr.pc = "count"
      /\ fr.type = NodeType(file, fr.block) /\ fr.saved = Exit(Len(stack))
  BY <1>2, <1>4 DEF Frame, PCs
<1>6. FrameOK(fr)
  BY <1>2, <1>5 DEF FrameOK
<1>7. /\ stack' \in Seq(Frame) /\ stack' # <<>> /\ Top' = fr
      /\ CallChain' /\ FramesOK'
  BY <1>1, <1>2, <1>5, <1>6, TopStep
<1>8. TypeOK'
  BY <1>1, <1>2, <1>3, <1>4, <1>7 DEF TypeOK, Position
<1>9. InOrder' /\ RetOK' /\ RecordOK'
  BY <1>1, <1>2, <1>5, <1>7 DEF InOrder, RetOK, RecordOK
<1>10. PosOK'
  BY <1>1, <1>3, <1>5, <1>7 DEF PosOK, Resume
<1>11. RankOK'
  BY <1>1, <1>2, <1>5, <1>7 DEF RankOK, Rank
<1> QED
  BY <1>1, <1>7, <1>8, <1>9, <1>10, <1>11 DEF IInv, Valid

LEMMA ReadCountInv ==
  ASSUME IInv, Valid(file), ReadRecordCount
  PROVE  IInv'
<1> DEFINE fr == [Top EXCEPT !.count = Cell, !.i = 0, !.pc = "loop"]
<1>1. /\ stack # <<>> /\ ret = "none" /\ Top.pc = "count"
      /\ stack' = SetTop(fr) /\ pos' = <<pos[1], pos[2] + 1>>
      /\ UNCHANGED <<file, ret, record, out>>
  BY DEF ReadRecordCount, At, Advance
<1>2. /\ WellFormed(file) /\ TypeOK /\ CallChain /\ FramesOK
      /\ Top \in Frame /\ FrameOK(Top) /\ Top.block \in Nodes(file)
      /\ Top.saved = Exit(Len(stack))
      /\ InOrder /\ RetOK /\ RecordOK /\ PosOK /\ RankOK
  BY <1>1, TopFacts DEF IInv
<1>3. pos = <<Top.block, 2>> /\ pos' = <<Top.block, 3>>
  BY <1>1, <1>2 DEF PosOK, Resume
<1>4. Cell = RecordCount(file, Top.block) /\ Cell \in Nat /\ Top.block \in Nat \ {0}
  BY <1>2, <1>3, NodeFacts DEF Cell, RecordCount
<1>5. /\ fr \in Frame /\ fr.block = Top.block /\ fr.pc = "loop" /\ fr.i = 0
      /\ fr.type = NodeType(file, fr.block) /\ fr.saved = Exit(Len(stack))
      /\ fr.count = RecordCount(file, fr.block)
  BY <1>1, <1>2, <1>4 DEF Frame, PCs, FrameOK
<1>6. FrameOK(fr)
  BY <1>2, <1>4, <1>5 DEF FrameOK
<1>7. /\ stack' \in Seq(Frame) /\ stack' # <<>> /\ Top' = fr
      /\ CallChain' /\ FramesOK'
  BY <1>1, <1>2, <1>5, <1>6, TopStep
<1>8. TypeOK'
  BY <1>1, <1>2, <1>3, <1>4, <1>7 DEF TypeOK, Position
<1>9. InOrder' /\ RetOK' /\ RecordOK'
  BY <1>1, <1>2, <1>5, <1>7 DEF InOrder, RetOK, RecordOK
<1>10. PosOK'
  BY <1>1, <1>3, <1>5, <1>7 DEF PosOK, Resume
<1>11. RankOK'
  <2>1. Len(out) = file.before[fr.block]
    BY <1>1, <1>2, <1>5 DEF RankOK, Rank
  <2>2. file.before[fr.block] \in Nat
    BY <1>2, <1>5, NodeFacts
  <2>3. fr.type # 0 => file.before[Child(file, fr.block, 0)] = file.before[fr.block]
    BY <1>2, <1>5, InternalFacts
  <2>4. Rank(fr) = file.before[fr.block]
    BY <1>5, <2>2, <2>3 DEF Rank, Callee
  <2> QED
    BY <1>1, <1>7, <2>1, <2>4 DEF RankOK, Rank, Callee
<1> QED
  BY <1>1, <1>7, <1>8, <1>9, <1>10, <1>11 DEF IInv, Valid

(* A call: the child's records come right after those handed over so far. *)
LEMMA ReadChildInv ==
  ASSUME IInv, Valid(file), ReadChild
  PROVE  IInv'
<1> DEFINE fr == [Top EXCEPT !.pc = "child"]
<1>1. /\ stack # <<>> /\ ret = "none" /\ Top.pc = "loop"
      /\ Top.type # 0 /\ Top.i < Top.count
      /\ stack' = Append(SetTop(fr), NewFrame(Cell))
      /\ pos' = <<pos[1], pos[2] + 1>>
      /\ UNCHANGED <<file, ret, record, out>>
  BY DEF ReadChild, At, Advance, Call
<1>2. /\ WellFormed(file) /\ TypeOK /\ CallChain /\ FramesOK
      /\ Top \in Frame /\ FrameOK(Top) /\ Top.block \in Nodes(file)
      /\ Top.saved = Exit(Len(stack))
      /\ InOrder /\ RetOK /\ RecordOK /\ PosOK /\ RankOK
  BY <1>1, TopFacts DEF IInv
<1>3. pos = <<Top.block, 3 + 2 * Top.i>> /\ Top.i \in Nat /\ Top.block \in Nat \ {0}
  BY <1>1, <1>2, NodeFacts DEF PosOK, Resume, Frame
<1>4. pos' = <<Top.block, 4 + 2 * Top.i>>
  BY <1>1, <1>3
<1>5. /\ fr \in Frame /\ fr.block = Top.block /\ fr.pc = "child" /\ fr.i = Top.i
      /\ fr.type = Top.type /\ fr.count = Top.count /\ fr.saved = Exit(Len(stack))
  BY <1>2 DEF Frame, PCs
<1>6. FrameOK(fr)
  BY <1>1, <1>2, <1>5 DEF FrameOK
<1>7. /\ NodeType(file, Top.block) # 0
      /\ Top.i \in 0 .. RecordCount(file, Top.block) - 1
  BY <1>1, <1>2, <1>3, NodeFacts DEF FrameOK
<1>8. Cell = Callee(fr)
  BY <1>2, <1>3, <1>5, <1>7, InternalFacts DEF Cell, Callee
<1>9. /\ stack' \in Seq(Frame) /\ stack' # <<>> /\ Len(stack') = Len(stack) + 1
      /\ Top' = NewFrame(Callee(fr)) /\ Exit(Len(stack))' = Resume(fr)
      /\ CallChain' /\ FramesOK'
  BY <1>1, <1>2, <1>5, <1>6, <1>8, PushStep
<1>10. Top'.pc = "enter" /\ Top'.block = Callee(fr)
  BY <1>9 DEF NewFrame
<1>11. TypeOK'
  <2>1. pos' \in Position
    <3>1. 4 + 2 * Top.i \in Nat \ {0}
      BY <1>3
    <3> QED
      BY <1>3, <1>4, <3>1 DEF Position
  <2>2. /\ file' \in Files /\ ret' \in {"none", "ok", "error"}
        /\ record' \in Nat /\ out' \in Seq(Nat)
    BY <1>1, <1>2 DEF TypeOK
  <2> QED
    BY <1>9, <2>1, <2>2 DEF TypeOK
<1>12. InOrder' /\ RetOK' /\ RecordOK'
  BY <1>1, <1>2, <1>9, <1>10 DEF InOrder, RetOK, RecordOK
<1>13. PosOK'
  BY <1>1, <1>4, <1>5, <1>9, <1>10 DEF PosOK, Resume
<1>14. RankOK'
  <2>1. Callee(fr) = Callee(Top)
    BY <1>5 DEF Callee
  <2>2. Len(out) = file.before[Callee(fr)]
    BY <1>1, <1>2, <2>1 DEF RankOK, Rank
  <2> QED
    BY <1>1, <1>9, <1>10, <2>2 DEF RankOK, Rank
<1> QED
  BY <1>1, <1>9, <1>11, <1>12, <1>13, <1>14 DEF IInv, Valid

LEMMA CallLastInv ==
  ASSUME IInv, Valid(file), CallLast
  PROVE  IInv'
<1> DEFINE fr == [Top EXCEPT !.pc = "last"]
<1>1. /\ stack # <<>> /\ ret = "none" /\ Top.pc = "loop"
      /\ Top.type # 0 /\ Top.i = Top.count
      /\ stack' = Append(SetTop(fr), NewFrame(Top.type))
      /\ UNCHANGED <<file, pos, ret, record, out>>
  BY DEF CallLast, At, Call
<1>2. /\ WellFormed(file) /\ TypeOK /\ CallChain /\ FramesOK
      /\ Top \in Frame /\ FrameOK(Top) /\ Top.block \in Nodes(file)
      /\ Top.saved = Exit(Len(stack))
      /\ InOrder /\ RetOK /\ RecordOK /\ PosOK /\ RankOK
  BY <1>1, TopFacts DEF IInv
<1>3. pos = <<Top.block, 3 + 2 * Top.i>>
  BY <1>1, <1>2 DEF PosOK, Resume
<1>4. /\ fr \in Frame /\ fr.block = Top.block /\ fr.pc = "last" /\ fr.i = Top.i
      /\ fr.type = Top.type /\ fr.count = Top.count /\ fr.saved = Exit(Len(stack))
  BY <1>2 DEF Frame, PCs
<1>5. FrameOK(fr)
  BY <1>1, <1>2, <1>4 DEF FrameOK
<1>6. Top.type = Callee(fr)
  BY <1>1, <1>2, <1>4, InternalFacts DEF FrameOK, Callee
<1>7. /\ stack' \in Seq(Frame) /\ stack' # <<>> /\ Len(stack') = Len(stack) + 1
      /\ Top' = NewFrame(Callee(fr)) /\ Exit(Len(stack))' = Resume(fr)
      /\ CallChain' /\ FramesOK'
  BY <1>1, <1>2, <1>4, <1>5, <1>6, PushStep
<1>8. Top'.pc = "enter" /\ Top'.block = Callee(fr)
  BY <1>7 DEF NewFrame
<1>9. TypeOK'
  BY <1>1, <1>2, <1>7 DEF TypeOK
<1>10. InOrder' /\ RetOK' /\ RecordOK'
  BY <1>1, <1>2, <1>7, <1>8 DEF InOrder, RetOK, RecordOK
<1>11. PosOK'
  BY <1>1, <1>3, <1>4, <1>7, <1>8 DEF PosOK, Resume
<1>12. RankOK'
  <2>1. Callee(fr) = Callee(Top)
    BY <1>4 DEF Callee
  <2>2. Len(out) = file.before[Callee(fr)]
    BY <1>1, <1>2, <2>1 DEF RankOK, Rank
  <2> QED
    BY <1>1, <1>7, <1>8, <2>2 DEF RankOK, Rank
<1> QED
  BY <1>1, <1>7, <1>9, <1>10, <1>11, <1>12 DEF IInv, Valid

(* The caller goes on where the call for its child has put it back. *)
LEMMA ChildDoneInv ==
  ASSUME IInv, Valid(file), ChildDone
  PROVE  IInv'
<1> DEFINE fr == [Top EXCEPT !.pc = "record"]
<1>1. /\ stack # <<>> /\ ret = "ok" /\ ret' = "none" /\ Top.pc = "child"
      /\ stack' = SetTop(fr)
      /\ UNCHANGED <<file, pos, record, out>>
  BY DEF ChildDone, Back
<1>2. /\ WellFormed(file) /\ TypeOK /\ CallChain /\ FramesOK
      /\ Top \in Frame /\ FrameOK(Top) /\ Top.block \in Nodes(file)
      /\ Top.saved = Exit(Len(stack))
      /\ InOrder /\ RetOK /\ RecordOK /\ PosOK /\ RankOK
  BY <1>1, TopFacts DEF IInv
<1>3. /\ fr \in Frame /\ fr.block = Top.block /\ fr.pc = "record" /\ fr.i = Top.i
      /\ fr.type = Top.type /\ fr.count = Top.count /\ fr.saved = Exit(Len(stack))
  BY <1>2 DEF Frame, PCs
<1>4. FrameOK(fr)
  BY <1>1, <1>2, <1>3 DEF FrameOK
<1>5. /\ stack' \in Seq(Frame) /\ stack' # <<>> /\ Top' = fr
      /\ CallChain' /\ FramesOK'
  BY <1>1, <1>2, <1>3, <1>4, TopStep
<1>6. TypeOK'
  BY <1>1, <1>2, <1>5 DEF TypeOK
<1>7. InOrder' /\ RetOK' /\ RecordOK'
  BY <1>1, <1>2, <1>3, <1>5 DEF InOrder, RetOK, RecordOK
<1>8. PosOK'
  <2>1. Resume(fr) = Resume(Top)
    BY <1>1, <1>3 DEF Resume
  <2> QED
    BY <1>1, <1>2, <1>3, <1>5, <2>1 DEF PosOK, Resume
<1>9. RankOK'
  <2>1. Len(out) = file.upto[Callee(fr)]
    BY <1>1, <1>2, <1>3 DEF RankOK, Rank, Callee
  <2> QED
    BY <1>1, <1>3, <1>5, <2>1 DEF RankOK, Rank, Callee
<1> QED
  BY <1>1, <1>5, <1>6, <1>7, <1>8, <1>9 DEF IInv, Valid

LEMMA LastDoneInv ==
  ASSUME IInv, Valid(file), LastDone
  PROVE  IInv'
<1> DEFINE fr == [Top EXCEPT !.pc = "restore"]
<1>1. /\ stack # <<>> /\ ret = "ok" /\ ret' = "none" /\ Top.pc = "last"
      /\ stack' = SetTop(fr)
      /\ UNCHANGED <<file, pos, record, out>>
  BY DEF LastDone, Back
<1>2. /\ WellFormed(file) /\ TypeOK /\ CallChain /\ FramesOK
      /\ Top \in Frame /\ FrameOK(Top) /\ Top.block \in Nodes(file)
      /\ Top.saved = Exit(Len(stack))
      /\ InOrder /\ RetOK /\ RecordOK /\ PosOK /\ RankOK
  BY <1>1, TopFacts DEF IInv
<1>3. /\ fr \in Frame /\ fr.block = Top.block /\ fr.pc = "restore" /\ fr.i = Top.i
      /\ fr.type = Top.type /\ fr.count = Top.count /\ fr.saved = Exit(Len(stack))
  BY <1>2 DEF Frame, PCs
<1>4. FrameOK(fr)
  BY <1>1, <1>2, <1>3 DEF FrameOK
<1>5. /\ stack' \in Seq(Frame) /\ stack' # <<>> /\ Top' = fr
      /\ CallChain' /\ FramesOK'
  BY <1>1, <1>2, <1>3, <1>4, TopStep
<1>6. TypeOK'
  BY <1>1, <1>2, <1>5 DEF TypeOK
<1>7. InOrder' /\ RetOK' /\ RecordOK'
  BY <1>1, <1>2, <1>3, <1>5 DEF InOrder, RetOK, RecordOK
<1>8. PosOK'
  <2>1. Resume(fr) = Resume(Top)
    BY <1>1, <1>3 DEF Resume
  <2> QED
    BY <1>1, <1>2, <1>3, <1>5, <2>1 DEF PosOK, Resume
<1>9. RankOK'
  <2>1. Len(out) = file.upto[Callee(fr)]
    BY <1>1, <1>2, <1>3 DEF RankOK, Rank, Callee
  <2> QED
    BY <1>1, <1>3, <1>5, <2>1 DEF RankOK, Rank, Callee
<1> QED
  BY <1>1, <1>5, <1>6, <1>7, <1>8, <1>9 DEF IInv, Valid

(* The record that is read is the next one of the file. *)
LEMMA ReadRecordInv ==
  ASSUME IInv, Valid(file), ReadRecord
  PROVE  IInv'
<1> DEFINE fr == [Top EXCEPT !.pc = "deliver"]
<1>1. /\ stack # <<>> /\ ret = "none"
      /\ Top.pc = "record" \/ (Top.pc = "loop" /\ Top.type = 0 /\ Top.i < Top.count)
      /\ record' = Cell /\ pos' = <<pos[1], pos[2] + 1>>
      /\ stack' = SetTop(fr)
      /\ UNCHANGED <<file, ret, out>>
  BY DEF ReadRecord, AtRecord, At, Advance
<1>2. /\ WellFormed(file) /\ TypeOK /\ CallChain /\ FramesOK
      /\ Top \in Frame /\ FrameOK(Top) /\ Top.block \in Nodes(file)
      /\ Top.saved = Exit(Len(stack))
      /\ InOrder /\ RetOK /\ RecordOK /\ PosOK /\ RankOK
  BY <1>1, TopFacts DEF IInv
<1>3. /\ Top.i \in Nat /\ Top.block \in Nat \ {0}
      /\ Top.i \in 0 .. RecordCount(file, Top.block) - 1
      /\ Top.type = NodeType(file, Top.block)
  BY <1>1, <1>2, NodeFacts DEF Frame, FrameOK
<1>4. /\ fr \in Frame /\ fr.block = Top.block /\ fr.pc = "deliver" /\ fr.i = Top.i
      /\ fr.type = Top.type /\ fr.count = Top.count /\ fr.saved = Exit(Len(stack))
  BY <1>2 DEF Frame, PCs
<1>5. FrameOK(fr)
  BY <1>1, <1>2, <1>4 DEF FrameOK
<1>6. /\ stack' \in Seq(Frame) /\ stack' # <<>> /\ Top' = fr
      /\ CallChain' /\ FramesOK'
  BY <1>1, <1>2, <1>4, <1>5, TopStep
<1>7. /\ Cell = Len(out) + 1
      /\ pos' = Resume(fr)
      /\ Len(out) = Rank(fr)
  <2>1. CASE Top.type = 0
    <3>1. pos = <<Top.block, 3 + Top.i>> /\ Len(out) = file.before[Top.block] + Top.i
      BY <1>1, <1>2, <2>1 DEF PosOK, Resume, RankOK, Rank, FrameOK
    <3>2. Cell = file.before[Top.block] + Top.i + 1
      <4>1. Cell = file.cells[Top.block][3 + Top.i]
        BY <3>1 DEF Cell
      <4>2. NodeType(file, Top.block) = 0
        BY <1>3, <2>1
      <4> QED
        BY <1>2, <1>3, <4>1, <4>2, LeafFacts
    <3>3. pos' = <<Top.block, 4 + Top.i>>
      BY <1>1, <1>3, <3>1
    <3> QED
      BY <1>4, <2>1, <3>1, <3>2, <3>3 DEF Resume, Rank
  <2>2. CASE Top.type # 0
    <3>1. pos = <<Top.block, 4 + 2 * Top.i>> /\ Len(out) = file.upto[Callee(Top)]
      BY <1>1, <1>2, <2>2 DEF PosOK, Resume, RankOK, Rank
    <3>2. Cell = file.upto[Callee(Top)] + 1
      <4>1. Cell = file.cells[Top.block][4 + 2 * Top.i]
        BY <3>1 DEF Cell
      <4>2. NodeType(file, Top.block) # 0
        BY <1>3, <2>2
      <4>3. Callee(Top) = Child(file, Top.block, Top.i)
        BY DEF Callee
      <4> QED
        BY <1>2, <1>3, <4>1, <4>2, <4>3, InternalFacts
    <3>3. pos' = <<Top.block, 5 + 2 * Top.i>>
      BY <1>1, <1>3, <3>1
    <3> QED
      BY <1>4, <2>2, <3>1, <3>2, <3>3 DEF Resume, Rank, Callee
  <2> QED
    BY <2>1, <2>2
<1>8. Len(out) \in Nat /\ record' \in Nat /\ record' = Len(out) + 1
  BY <1>1, <1>2, <1>7 DEF TypeOK
<1>9. pos' \in Position
  <2>1. pos[1] \in Nat \ {0} /\ pos[2] \in Nat
    BY <1>2 DEF TypeOK, Position
  <2> QED
    BY <1>1, <2>1 DEF Position
<1>10. TypeOK'
  BY <1>1, <1>2, <1>6, <1>8, <1>9 DEF TypeOK, Position
<1>11. InOrder' /\ RetOK' /\ RecordOK'
  BY <1>1, <1>2, <1>4, <1>6, <1>8 DEF InOrder, RetOK, RecordOK
<1>12. PosOK'
  BY <1>1, <1>4, <1>6, <1>7 DEF PosOK, Resume
<1>13. RankOK'
  BY <1>1, <1>6, <1>7 DEF RankOK, Rank, Callee
<1> QED
  BY <1>1, <1>6, <1>10, <1>11, <1>12, <1>13 DEF IInv, Valid

(* record_func sees it, and the loop goes on. *)
LEMMA DeliverInv ==
  ASSUME IInv, Valid(file), DeliverRecord
  PROVE  /\ IInv'
         /\ out' = Append(out, Len(out) + 1)
         /\ Len(out) < file.records
<1> DEFINE fr == [Top EXCEPT !.i = @ + 1, !.pc = "loop"]
<1>1. /\ stack # <<>> /\ ret = "none" /\ Top.pc = "deliver"
      /\ out' = Append(out, record) /\ record' = NoRecord
      /\ stack' = SetTop(fr)
      /\ UNCHANGED <<file, pos, ret>>
  BY DEF DeliverRecord, At
<1>2. /\ WellFormed(file) /\ TypeOK /\ CallChain /\ FramesOK
      /\ Top \in Frame /\ FrameOK(Top) /\ Top.block \in Nodes(file)
      /\ Top.saved = Exit(Len(stack)) /\ file.upto[Top.block] <= file.records
      /\ InOrder /\ RetOK /\ RecordOK /\ PosOK /\ RankOK
  BY <1>1, TopFacts DEF IInv
<1>3. /\ Top.i \in Nat /\ Top.block \in Nat \ {0}
      /\ Top.i \in 0 .. RecordCount(file, Top.block) - 1
      /\ Top.type = NodeType(file, Top.block)
      /\ RecordCount(file, Top.block) \in Nat
  BY <1>1, <1>2, NodeFacts DEF Frame, FrameOK
<1>4. /\ fr \in Frame /\ fr.block = Top.block /\ fr.pc = "loop" /\ fr.i = Top.i + 1
      /\ fr.type = Top.type /\ fr.count = Top.count /\ fr.saved = Exit(Len(stack))
  <2>1. Top.i + 1 \in Nat
    BY <1>3
  <2> QED
    BY <1>2, <2>1 DEF Frame, PCs
<1>5. FrameOK(fr)
  BY <1>1, <1>2, <1>3, <1>4 DEF FrameOK
<1>6. /\ stack' \in Seq(Frame) /\ stack' # <<>> /\ Top' = fr
      /\ CallChain' /\ FramesOK'
  BY <1>1, <1>2, <1>4, <1>5, TopStep
<1>7. /\ out' = Append(out, Len(out) + 1)
      /\ out \in Seq(Nat) /\ Len(out) \in Nat
      /\ out' \in Seq(Nat) /\ Len(out') = Len(out) + 1
  BY <1>1, <1>2 DEF RecordOK, TypeOK
<1>8. /\ pos = Resume(fr)
      /\ Len(out) + 1 = Rank(fr)
      /\ Len(out) + 1 <= file.upto[Top.block]
  <2>1. CASE Top.type = 0
    <3>1. pos = <<Top.block, 4 + Top.i>> /\ Len(out) = file.before[Top.block] + Top.i
      BY <1>1, <1>2, <2>1 DEF PosOK, Resume, RankOK, Rank
    <3>2. /\ file.before[Top.block] \in Nat
          /\ file.upto[Top.block] = file.before[Top.block] + RecordCount(file, Top.block)
      BY <1>2, <1>3, <2>1, NodeFacts, LeafFacts
    <3>3. Resume(fr) = <<Top.block, 3 + (Top.i + 1)>>
      BY <1>4, <2>1 DEF Resume
    <3>4. Rank(fr) = file.before[Top.block] + (Top.i + 1)
      BY <1>4, <2>1 DEF Rank
    <3>5. pos = Resume(fr)
      <4>1. 4 + Top.i = 3 + (Top.i + 1)
        BY <1>3
      <4> QED
        BY <3>1, <3>3, <4>1
    <3>6. Len(out) + 1 = Rank(fr)
      BY <1>3, <3>1, <3>2, <3>4
    <3>7. Len(out) + 1 <= file.upto[Top.block]
      <4>1. Top.i + 1 <= RecordCount(file, Top.block)
        BY <1>3
      <4> HIDE DEF fr
      <4>2. file.before[Top.block] + Top.i + 1
              <= file.before[Top.block] + RecordCount(file, Top.block)
        BY <1>3, <3>2, <4>1
      <4> QED
        BY <3>1, <3>2, <4>2
    <3> QED
      BY <3>5, <3>6, <3>7
  <2>2. CASE Top.type # 0
    <3>1. pos = <<Top.block, 5 + 2 * Top.i>> /\ Len(out) = file.upto[Callee(Top)]
      BY <1>1, <1>2, <2>2 DEF PosOK, Resume, RankOK, Rank
    <3>2. Resume(fr) = <<Top.block, 3 + 2 * (Top.i + 1)>>
      BY <1>4, <2>2 DEF Resume
    <3>3. Rank(fr) = file.before[Child(file, Top.block, Top.i + 1)]
      BY <1>4, <2>2 DEF Rank, Callee
    <3>4. file.before[Child(file, Top.block, Top.i + 1)] = file.upto[Callee(Top)] + 1
      BY <1>2, <1>3, <2>2, InternalFacts DEF Callee
    <3>5. Top.i + 1 \in 0 .. RecordCount(file, Top.block)
      BY <1>3
    <3>6. /\ Child(file, Top.block, Top.i + 1) \in Nodes(file)
          /\ file.upto[Child(file, Top.block, Top.i + 1)] <= file.upto[Top.block]
      BY <1>2, <1>3, <2>2, <3>5, InternalFacts
    <3>7. PICK u \in Nat : u = file.upto[Child(file, Top.block, Top.i + 1)]
      BY <1>2, <3>6, NodeFacts
    <3>8. PICK v \in Nat : v = file.before[Child(file, Top.block, Top.i + 1)]
      BY <1>2, <3>6, NodeFacts
    <3>9. PICK w \in Nat : w = file.upto[Top.block]
      BY <1>2, NodeFacts
    <3>10. v <= u
      BY <1>2, <3>6, <3>7, <3>8, NodeFacts
    <3>11. v <= w
      BY <3>6, <3>7, <3>9, <3>10
    <3>12. pos = Resume(fr)
      BY <1>3, <3>1, <3>2
    <3> QED
      BY <3>1, <3>3, <3>4, <3>8, <3>9, <3>11, <3>12
  <2> QED
    BY <2>1, <2>2
<1>9. Len(out) < file.records
  <2>1. file.upto[Top.block] \in Nat /\ file.records \in Nat
    BY <1>2, NodeFacts DEF WellFormed
  <2> QED
    BY <1>2, <1>7, <1>8, <2>1
<1>10. TypeOK'
  BY <1>1, <1>2, <1>6, <1>7 DEF TypeOK, NoRecord
<1>11. InOrder'
  <2>1. \A k \in 1 .. Len(out) + 1 : out'[k] = k
    <3>1. \A k \in 1 .. Len(out) : out[k] = k
      BY <1>2 DEF InOrder
    <3> QED
      BY <1>7, <3>1
  <2>2. out' = [k \in 1 .. Len(out) + 1 |-> out'[k]]
    BY <1>7
  <2> QED
    BY <1>7, <2>1, <2>2 DEF InOrder
<1>12. RetOK' /\ RecordOK'
  BY <1>1, <1>2, <1>4, <1>6 DEF RetOK, RecordOK
<1>13. PosOK'
  BY <1>1, <1>4, <1>6, <1>8 DEF PosOK, Resume
<1>14. RankOK'
  BY <1>1, <1>6, <1>7, <1>8 DEF RankOK, Rank, Callee
<1> QED
  BY <1>1, <1>6, <1>7, <1>9, <1>10, <1>11, <1>12, <1>13, <1>14 DEF IInv, Valid

(* Success: the stream is where the caller goes on, behind the subtree. *)
LEMMA RestoreInv ==
  ASSUME IInv, Valid(file), RestoreOffset
  PROVE  IInv'
<1>1. /\ stack # <<>> /\ ret = "none"
      /\ Top.pc = "restore" \/ (Top.pc = "loop" /\ Top.type = 0 /\ Top.i = Top.count)
      /\ pos' = Top.saved /\ ret' = "ok"
      /\ stack' = SubSeq(stack, 1, Len(stack) - 1)
      /\ UNCHANGED <<file, record, out>>
  BY DEF RestoreOffset, AtRestore, At, Return
<1>2. /\ WellFormed(file) /\ TypeOK /\ CallChain /\ FramesOK
      /\ Top \in Frame /\ FrameOK(Top) /\ Top.block \in Nodes(file)
      /\ Top.saved = Exit(Len(stack))
      /\ InOrder /\ RetOK /\ RecordOK /\ PosOK /\ RankOK
  BY <1>1, TopFacts DEF IInv
<1>3. /\ stack' \in Seq(Frame) /\ CallChain' /\ FramesOK'
      /\ stack' = <<>> => /\ Exit(Len(stack)) = HeaderBlockEnd
                          /\ Top.block = file.root
      /\ stack' # <<>> => /\ Exit(Len(stack)) = Resume(Top')
                          /\ Top.block = Callee(Top')
                          /\ Top'.pc \in {"child", "last"}
  BY <1>1, <1>2, PopStep
<1>4. Len(out) = file.upto[Top.block]
  <2>1. CASE Top.pc = "restore"
    <3>1. Len(out) = file.upto[Callee(Top)]
      BY <1>1, <1>2, <2>1 DEF RankOK, Rank
    <3>2. Callee(Top) = NodeType(file, Top.block) /\ NodeType(file, Top.block) # 0
      BY <1>2, <2>1 DEF FrameOK, Callee, Child
    <3> QED
      BY <1>2, <3>1, <3>2, InternalFacts
  <2>2. CASE Top.pc = "loop" /\ Top.type = 0 /\ Top.i = Top.count
    <3>1. Len(out) = file.before[Top.block] + Top.i
      BY <1>1, <1>2, <2>2 DEF RankOK, Rank
    <3>2. /\ Top.i = RecordCount(file, Top.block)
          /\ NodeType(file, Top.block) = 0
      BY <1>2, <2>2 DEF FrameOK
    <3> QED
      BY <1>2, <3>1, <3>2, LeafFacts
  <2> QED
    BY <1>1, <2>1, <2>2
<1>5. pos' \in Position
  <2>1. CASE stack' = <<>>
    BY <1>1, <1>2, <1>3, <2>1 DEF HeaderBlockEnd, Position
  <2>2. CASE stack' # <<>>
    <3>1. Top' \in Frame /\ Top'.block \in Nodes(file)
      <4>1. Len(stack') \in 1 .. Len(stack')
        BY <1>3, <2>2
      <4> QED
        BY <1>1, <1>3, <4>1 DEF FramesOK, FrameOK, Top
    <3>2. Top'.i \in Nat /\ Top'.block \in Nat \ {0}
      BY <1>2, <3>1, NodeFacts DEF Frame
    <3>3. Resume(Top') \in Position
      <4>1. 4 + 2 * Top'.i \in Nat \ {0} /\ 3 + 2 * Top'.i \in Nat \ {0}
        BY <3>2
      <4>2. CASE Top'.pc = "child"
        BY <3>2, <4>1, <4>2 DEF Resume, Position
      <4>3. CASE Top'.pc = "last"
        BY <3>2, <4>1, <4>3 DEF Resume, Position
      <4> QED
        BY <1>3, <2>2, <4>2, <4>3
    <3> QED
      BY <1>1, <1>2, <1>3, <2>2, <3>3
  <2> QED
    BY <2>1, <2>2
<1>6. TypeOK'
  BY <1>1, <1>2, <1>3, <1>5 DEF TypeOK, Position
<1>7. InOrder' /\ RetOK' /\ RecordOK'
  BY <1>1, <1>2, <1>3 DEF InOrder, RetOK, RecordOK
<1>8. PosOK'
  BY <1>1, <1>2, <1>3 DEF PosOK, Resume
<1>9. RankOK'
  <2>1. CASE stack' = <<>>
    BY <1>1, <1>2, <1>3, <1>4, <2>1 DEF RankOK, WellFormed
  <2>2. CASE stack' # <<>>
    BY <1>1, <1>3, <1>4, <2>2 DEF RankOK, Rank, Callee
  <2> QED
    BY <2>1, <2>2
<1> QED
  BY <1>1, <1>3, <1>6, <1>7, <1>8, <1>9 DEF IInv, Valid

(* Failure: the frames below stay as they are, and will fail in their turn. *)
LEMMA FailInv ==
  ASSUME IInv, Valid(file), RejectRoot \/ ReadRecordFails \/ Propagate \/ IOError
  PROVE  IInv' /\ out' = out
<1>1. /\ stack # <<>>
      /\ ret' = "error"
      /\ stack' = SubSeq(stack, 1, Len(stack) - 1)
      /\ UNCHANGED <<file, pos, out>>
  BY DEF RejectRoot, ReadRecordFails, Propagate, IOError, At, Back, AtRecord,
         AtRestore, Return
<1>2. /\ WellFormed(file) /\ TypeOK /\ CallChain /\ FramesOK
      /\ InOrder /\ RetOK /\ RecordOK /\ PosOK /\ RankOK
  BY <1>1, TopFacts DEF IInv
<1>3. /\ stack' \in Seq(Frame) /\ CallChain' /\ FramesOK'
      /\ stack' # <<>> => Top'.pc \in {"child", "last"}
  BY <1>1, <1>2, PopStep
<1>4. record' = NoRecord
  <2>1. CASE ReadRecordFails
    BY <2>1 DEF ReadRecordFails
  <2>2. CASE RejectRoot \/ Propagate \/ IOError
    <3>1. Top.pc # "deliver" /\ record' = record
      BY <2>2 DEF RejectRoot, Propagate, IOError, At, Back, AtRestore
    <3> QED
      BY <1>2, <3>1 DEF RecordOK
  <2> QED
    BY <2>1, <2>2
<1>5. TypeOK'
  BY <1>1, <1>2, <1>3, <1>4 DEF TypeOK, NoRecord
<1>6. InOrder' /\ RetOK' /\ RecordOK' /\ PosOK' /\ RankOK'
  BY <1>1, <1>2, <1>3, <1>4 DEF InOrder, RetOK, RecordOK, PosOK, RankOK
<1> QED
  BY <1>1, <1>3, <1>5, <1>6 DEF IInv, Valid

-----------------------------------------------------------------------------
(* The theorems.                                                           *)

(* What a step may do: only DeliverRecord hands a record over, the next    *)
(* one in order, and after a failure there is no such step.                *)
LEMMA StepInv ==
  ASSUME IInv, Next
  PROVE  /\ IInv' /\ file' = file
         /\ out' # out => /\ ret = "none" /\ ret' = "none" /\ stack' # <<>>
                          /\ out' = Append(out, Len(out) + 1)
                          /\ Len(out) < file.records
<1>1. CASE ~Valid(file)
  <2>1. IInv'
    BY <1>1, InvalidInv
  <2>2. file' = file
    BY DEF Next, RejectRoot, SeekToBlock, ReadNodeType, ReadRecordCount, ReadChild,
           ChildDone, ReadRecord, ReadRecordFails, DeliverRecord, CallLast,
           LastDone, RestoreOffset, Propagate, IOError
  <2>3. out = <<>> /\ out' = <<>>
    BY <1>1, <2>1, <2>2 DEF IInv, Valid
  <2> QED
    BY <2>1, <2>2, <2>3
<1>2. CASE Valid(file)
  <2>1. CASE SeekToBlock
    BY <1>2, <2>1, SeekInv DEF SeekToBlock
  <2>2. CASE ReadNodeType
    BY <1>2, <2>2, ReadTypeInv DEF ReadNodeType
  <2>3. CASE ReadRecordCount
    BY <1>2, <2>3, ReadCountInv DEF ReadRecordCount
  <2>4. CASE ReadChild
    BY <1>2, <2>4, ReadChildInv DEF ReadChild
  <2>5. CASE ChildDone
    BY <1>2, <2>5, ChildDoneInv DEF ChildDone
  <2>6. CASE ReadRecord
    BY <1>2, <2>6, ReadRecordInv DEF ReadRecord
  <2>7. CASE DeliverRecord
    <3>1. /\ IInv' /\ out' = Append(out, Len(out) + 1) /\ Len(out) < file.records
      BY <1>2, <2>7, DeliverInv
    <3>2. ret = "none" /\ ret' = "none" /\ file' = file
      BY <2>7 DEF DeliverRecord, At
    <3>3. stack' # <<>>
      BY <3>1, <3>2 DEF IInv, RetOK
    <3> QED
      BY <3>1, <3>2, <3>3
  <2>8. CASE CallLast
    BY <1>2, <2>8, CallLastInv DEF CallLast
  <2>9. CASE LastDone
    BY <1>2, <2>9, LastDoneInv DEF LastDone
  <2>10. CASE RestoreOffset
    BY <1>2, <2>10, RestoreInv DEF RestoreOffset
  <2>11. CASE RejectRoot \/ ReadRecordFails \/ Propagate \/ IOError
    BY <1>2, <2>11, FailInv DEF RejectRoot, ReadRecordFails, Propagate, IOError
  <2> QED
    BY <2>1, <2>2, <2>3, <2>4, <2>5, <2>6, <2>7, <2>8, <2>9, <2>10, <2>11 DEF Next
<1> QED
  BY <1>1, <1>2

LEMMA StutterInv ==
  ASSUME IInv, UNCHANGED vars
  PROVE  IInv'
<1>1. UNCHANGED <<file, pos, stack, ret, record, out>>
  BY DEF vars
<1>2. Top' = Top /\ Valid(file)' = Valid(file)
  BY <1>1 DEF Top, Valid
<1>3. TypeOK' = TypeOK /\ InOrder' = InOrder
  BY <1>1 DEF TypeOK, InOrder
<1>4. RetOK' = RetOK /\ RecordOK' = RecordOK
  BY <1>1, <1>2 DEF RetOK, RecordOK
<1>5. CallChain' = CallChain
  BY <1>1 DEF CallChain, Callee
<1>6. FramesOK' = FramesOK
  BY <1>1 DEF FramesOK, FrameOK, Exit
<1>7. PosOK' = PosOK
  BY <1>1, <1>2 DEF PosOK, Exit
<1>8. RankOK' = RankOK
  BY <1>1, <1>2 DEF RankOK, Rank, Callee
<1> QED
  BY <1>1, <1>2, <1>3, <1>4, <1>5, <1>6, <1>7, <1>8 DEF IInv

(* The invariant holds in every reachable state. *)
THEOREM Invariance == Spec => []IInv
<1>1. Init => IInv
  BY InitInv
<1>2. IInv /\ [Next]_vars => IInv'
  BY StepInv, StutterInv
<1> QED
  BY <1>1, <1>2, PTL DEF Spec

(* Every variable keeps its type: the numbers read from the file are cells *)
(* that are there, which takes the whole of IInv.                          *)
THEOREM TypeCorrect == Spec => []TypeOK
<1>1. IInv => TypeOK
  BY DEF IInv
<1> QED
  BY <1>1, Invariance, PTL

(* record_func never sees a record out of order, twice, or after a gap. *)
THEOREM OrderCorrect == Spec => []InOrder
<1>1. IInv => InOrder
  BY DEF IInv
<1> QED
  BY <1>1, Invariance, PTL

(* Each read is at the cell that the layout of the running activation's    *)
(* node puts next, whatever subtrees were read through the same stream.    *)
THEOREM AlignmentCorrect == Spec => []AlignedReads
<1>1. IInv => AlignedReads
  <2> SUFFICES ASSUME IInv, stack # <<>>, ret # "error", Top.pc # "enter"
               PROVE  pos = Resume(Top)
    BY DEF AlignedReads
  <2>1. CASE Valid(file)
    BY <2>1 DEF IInv, PosOK
  <2>2. CASE ~Valid(file)
    <3>1. stack = <<NewFrame(file.root)>>
      BY <2>2 DEF IInv
    <3>2. Top = NewFrame(file.root)
      BY <3>1 DEF Top
    <3> QED
      BY <3>2 DEF NewFrame
  <2> QED
    BY <2>1, <2>2
<1> QED
  BY <1>1, Invariance, PTL

(* A walk that returns 0 has handed over every record of the store. *)
THEOREM CompletenessCorrect == Spec => []CompleteOnSuccess
<1>1. IInv => CompleteOnSuccess
  BY DEF IInv, CompleteOnSuccess, PosOK, RankOK
<1> QED
  BY <1>1, Invariance, PTL

(* No exit leaves a record allocated. *)
THEOREM RecordsFreed == Spec => []NoRecordLeak
<1>1. IInv => NoRecordLeak
  BY DEF IInv, NoRecordLeak, RecordOK, RetOK
<1> QED
  BY <1>1, Invariance, PTL

(* The recursion is no deeper than the tree is high. *)
THEOREM DepthBounded == Spec => []RecursionBounded
<1>1. IInv => RecursionBounded
  <2> SUFFICES ASSUME IInv, Valid(file)
               PROVE  Len(stack) <= file.level[file.root] + 1
    BY DEF RecursionBounded
  <2>1. WellFormed(file) /\ TypeOK /\ FramesOK
    BY TopFacts
  <2>2. file.root \in Nodes(file)
    BY <2>1 DEF WellFormed
  <2>3. PICK r \in Nat : r = file.level[file.root]
    BY <2>1, <2>2, NodeFacts
  <2>4. PICK n \in Nat : n = Len(stack)
    BY <2>1 DEF TypeOK
  <2>5. CASE n = 0
    BY <2>3, <2>4, <2>5
  <2>6. CASE n # 0
    <3>1. n \in 1 .. Len(stack)
      BY <2>4, <2>6
    <3>2. /\ stack[n].block \in Nodes(file)
          /\ n + file.level[stack[n].block] <= r + 1
      BY <2>1, <2>3, <3>1 DEF FramesOK, FrameOK
    <3>3. PICK a \in Nat : a = file.level[stack[n].block]
      BY <2>1, <3>2, NodeFacts
    <3>4. n <= r + 1
      BY <3>2, <3>3
    <3> QED
      BY <2>3, <2>4, <3>4
  <2> QED
    BY <2>5, <2>6
<1> QED
  BY <1>1, Invariance, PTL

(* A failure is never turned into success, and nothing is handed over      *)
(* after it.                                                               *)
THEOREM FailureCorrect == Spec => FailureIsFinal
<1>1. ASSUME Next, ret = "error"
      PROVE  ret' = "error" /\ out' = out
  BY <1>1
  DEF Next, At, Back, RejectRoot, SeekToBlock, ReadNodeType, ReadRecordCount,
      ReadChild, ChildDone, AtRecord, ReadRecord, ReadRecordFails, DeliverRecord,
      CallLast, LastDone, AtRestore, RestoreOffset, Propagate, IOError, Return
<1>2. [Next]_vars => [ret = "error" => ret' = "error" /\ out' = out]_vars
  BY <1>1
<1> QED
  BY <1>2, PTL DEF Spec, FailureIsFinal

(* The walk implements the record stream: each step hands over the next    *)
(* record, ends the stream (with 0 only after the last record), or cannot  *)
(* be seen by the caller.                                                  *)
THEOREM StreamImplemented == Spec => ImplementsStream
<1>1. Init => Stream!Init
  <2> SUFFICES ASSUME Init PROVE Stream!Init
    OBVIOUS
  <2>1. file \in Files /\ stack # <<>> /\ out = <<>>
    BY DEF Init
  <2> QED
    BY <2>1 DEF Stream!Init
<1>2. IInv /\ [Next]_vars => [Stream!Next]_(Stream!streamVars)
  <2> SUFFICES ASSUME IInv, [Next]_vars
               PROVE  [Stream!Next]_(Stream!streamVars)
    OBVIOUS
  <2>1. CASE UNCHANGED vars
    BY <2>1 DEF vars, Stream!streamVars
  <2>2. CASE Next
    <3>1. /\ IInv' /\ file' = file
          /\ out' # out => /\ ret = "none" /\ ret' = "none" /\ stack' # <<>>
                           /\ out' = Append(out, Len(out) + 1)
                           /\ Len(out) < file.records
      BY <2>2, StepInv
    <3>2. stack # <<>>
      BY <2>2
      DEF Next, At, Back, RejectRoot, SeekToBlock, ReadNodeType, ReadRecordCount,
          ReadChild, ChildDone, AtRecord, ReadRecord, ReadRecordFails,
          DeliverRecord, CallLast, LastDone, AtRestore, RestoreOffset, Propagate,
          IOError
    <3>3. CASE out' # out
      BY <3>1, <3>2, <3>3 DEF Stream!Next, Stream!Deliver
    <3>4. CASE out' = out /\ stack' # <<>>
      BY <3>1, <3>2, <3>4 DEF Stream!streamVars
    <3>5. CASE out' = out /\ stack' = <<>>
      <4>1. ret' \in {"ok", "error"}
        BY <3>1, <3>5 DEF IInv, RetOK, TypeOK
      <4>2. CASE ret' = "error"
        BY <3>1, <3>2, <3>5, <4>2 DEF Stream!Next, Stream!Fail
      <4>3. CASE ret' = "ok"
        <5>1. Len(out') = file.records
          BY <3>1, <3>5, <4>3 DEF IInv, RankOK, Valid
        <5> QED
          BY <3>1, <3>2, <3>5, <4>3, <5>1 DEF Stream!Next, Stream!Finish
      <4> QED
        BY <4>1, <4>2, <4>3
    <3> QED
      BY <3>3, <3>4, <3>5
  <2> QED
    BY <2>1, <2>2
<1> QED
  BY <1>1, <1>2, Invariance, PTL DEF Spec, ImplementsStream, Stream!SafeSpec

=============================================================================
