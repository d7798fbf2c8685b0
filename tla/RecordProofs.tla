---------------------------- MODULE RecordProofs ----------------------------
(***************************************************************************)
(* What a ds_record_t shows after it was set and read in any order, from   *)
(* any file that holds records, and what becomes of its property lists.    *)
(***************************************************************************)
EXTENDS Record, TLAPS

-----------------------------------------------------------------------------
(* The file.                                                               *)

(* Every record begins somewhere. *)
LEMMA StartNat ==
  ASSUME NEW f \in Files, NEW k \in 0 .. Len(f.records)
  PROVE  Start(f, k) \in Nat
<1>1. f.records \in Seq(FileRecord)
  BY FilesAssumption DEF WellFormed
<1>2. CASE k = 0
  BY <1>2 DEF Start
<1>3. CASE k # 0
  <2>1. f.records[k] \in FileRecord
    BY <1>1, <1>3
  <2> QED
    BY <1>3, <2>1 DEF Start, FileRecord
<1> QED
  BY <1>2, <1>3

(* A record is whole and legal exactly if it is among those of the file;   *)
(* where its value ends the next one begins.                               *)
LEMMA NextRecord ==
  ASSUME NEW f \in Files, NEW k \in 0 .. Len(f.records)
  PROVE  /\ Whole(f, Start(f, k)) <=> k < Len(f.records)
         /\ k < Len(f.records) =>
              /\ f.records[k + 1] = Contents(f, Start(f, k))
              /\ Start(f, k + 1) = Start(f, k) + ValueAt(f, Start(f, k))
<1>1. PICK n \in Nat : n = Len(f.records)
  BY FilesAssumption DEF WellFormed
<1>2. CASE k < Len(f.records)
  <2>1. k + 1 \in 1 .. Len(f.records) /\ (k + 1) - 1 = k
    BY <1>1, <1>2
  <2>2. Whole(f, Start(f, k)) /\ f.records[k + 1] = Contents(f, Start(f, k))
    BY <2>1, FilesAssumption DEF WellFormed
  <2>3. Start(f, k + 1) = f.records[k + 1].end
    BY <1>1 DEF Start
  <2> QED
    BY <1>2, <2>2, <2>3 DEF Contents
<1>3. CASE ~(k < Len(f.records))
  <2>1. k = Len(f.records)
    BY <1>1, <1>3
  <2> QED
    BY <1>3, <2>1, FilesAssumption DEF WellFormed
<1> QED
  BY <1>2, <1>3

(* What the type invariant says of the file and the position in it. *)
LEMMA FileFacts ==
  ASSUME TypeOK, reads <= Len(file.records)
  PROVE  /\ file \in Files /\ file.cells \in Seq(Nat) /\ Len(file.cells) \in Nat
         /\ reads \in 0 .. Len(file.records)
         /\ Start(file, reads) \in Nat
<1>1. file \in Files /\ reads \in Nat
  BY DEF TypeOK
<1>2. file.cells \in Seq(Nat) /\ file.records \in Seq(FileRecord)
  BY <1>1, FilesAssumption DEF WellFormed
<1>3. reads \in 0 .. Len(file.records)
  BY <1>1, <1>2
<1>4. Len(file.cells) \in Nat
  BY <1>2
<1> QED
  BY <1>1, <1>2, <1>3, <1>4, StartNat

(* Every record begins in the file, or at its end. *)
LEMMA StartInFile ==
  ASSUME TypeOK, reads <= Len(file.records)
  PROVE  Start(file, reads) <= Len(file.cells)
<1>1. /\ file \in Files /\ file.cells \in Seq(Nat) /\ Len(file.cells) \in Nat
      /\ reads \in 0 .. Len(file.records)
  BY FileFacts
<1>2. CASE reads = 0
  BY <1>1, <1>2 DEF Start
<1>3. CASE reads # 0
  <2>1. PICK n \in Nat : n = Len(file.records)
    BY <1>1, FilesAssumption DEF WellFormed
  <2>2. reads - 1 \in 0 .. Len(file.records) /\ reads - 1 < Len(file.records)
        /\ (reads - 1) + 1 = reads
    BY <1>1, <1>3, <2>1
  <2>3. /\ Whole(file, Start(file, reads - 1))
        /\ Start(file, reads) = Start(file, reads - 1) + ValueAt(file, Start(file, reads - 1))
    BY <1>1, <2>2, NextRecord
  <2> QED
    BY <2>3 DEF Whole
<1> QED
  BY <1>2, <1>3

-----------------------------------------------------------------------------
(* The property list.                                                      *)

BlobsOK ==
  /\ data_blob \in Nat /\ plistOf \in Seq(Nat)
  /\ live \subseteq 1 .. Len(plistOf) /\ data_plist \in 0 .. Len(plistOf)
  /\ byObj \in BOOLEAN
  /\ PlistsReleased /\ PlistIsOfBlob

LEMMA BlobsHold == IInv => BlobsOK
  BY DEF IInv, TypeOK, BlobsOK

(* A new blob: the list before it is released, and the one that is created *)
(* is what the new bytes hold.                                             *)
LEMMA SetBlobOK ==
  ASSUME BlobsOK, pc # "freed", pc' # "freed", NEW bytes \in Nat, SetBlob(bytes)
  PROVE  BlobsOK'
<1>1. Parsed(bytes) \in Nat
  BY ValuesAssumption DEF Parsed, NULL
<1>2. PICK n \in Nat : n = Len(plistOf)
  BY DEF BlobsOK
<1>3. live = IF data_plist = NULL THEN {} ELSE {data_plist}
  BY DEF BlobsOK, PlistsReleased
<1>4. CASE Parsed(bytes) = NULL
  <2>1. data_plist' = NULL /\ live' = {} /\ plistOf' = plistOf
        /\ data_blob' = bytes /\ byObj' = FALSE
    BY <1>3, <1>4 DEF SetBlob
  <2>2. PlistsReleased'
    BY <2>1 DEF PlistsReleased
  <2>3. Cached' = NULL /\ Parsed(data_blob)' = NULL
    BY <1>4, <2>1 DEF Cached, Parsed
  <2>4. PlistIsOfBlob'
    BY <2>3 DEF PlistIsOfBlob
  <2>5. data_plist' \in 0 .. Len(plistOf') /\ live' \subseteq 1 .. Len(plistOf')
    BY <1>2, <2>1 DEF NULL
  <2> QED
    BY <2>1, <2>2, <2>4, <2>5 DEF BlobsOK
<1>5. CASE Parsed(bytes) # NULL
  <2>1. /\ plistOf' = Append(plistOf, Parsed(bytes))
        /\ data_plist' = Len(plistOf') /\ live' = {Len(plistOf')}
        /\ data_blob' = bytes /\ byObj' = FALSE
    BY <1>3, <1>5 DEF SetBlob
  <2>2. plistOf' \in Seq(Nat) /\ Len(plistOf') = n + 1 /\ plistOf'[n + 1] = Parsed(bytes)
    BY <1>1, <1>2, <2>1 DEF BlobsOK
  <2>3. PlistsReleased'
    BY <1>2, <2>1, <2>2 DEF PlistsReleased, NULL
  <2>4. Cached' = Parsed(bytes) /\ Parsed(data_blob)' = Parsed(bytes)
    BY <1>2, <2>1, <2>2 DEF Cached, Parsed, NULL
  <2>5. PlistIsOfBlob'
    BY <2>4 DEF PlistIsOfBlob
  <2>6. data_plist' \in 0 .. Len(plistOf') /\ live' \subseteq 1 .. Len(plistOf')
    BY <1>2, <2>1, <2>2
  <2> QED
    BY <2>1, <2>2, <2>3, <2>5, <2>6 DEF BlobsOK
<1> QED
  BY <1>4, <1>5

LEMMA BlobsKept ==
  ASSUME BlobsOK, pc # "freed", pc' # "freed", UNCHANGED blobvars
  PROVE  BlobsOK'
  BY DEF BlobsOK, PlistsReleased, PlistIsOfBlob, Cached, Parsed, blobvars

-----------------------------------------------------------------------------
(* The parts of the invariant that a step of ds_record_fread disturbs.     *)

(* The record is read, and it was the next one of the file. *)
LEMMA SucceedInv ==
  ASSUME IInv, BlobsOK', pc \notin {"idle", "freed"}, Succeed,
         UNCHANGED <<file, fault, ops, filename, record_type, data_type>>,
         Whole(file, Start(file, reads)),
         filename = CellOf(2), record_type = CellOf(3), data_type = CellOf(4),
         pos' = Start(file, reads) + ValueAt(file, Start(file, reads)),
         data' \in Scalars \X Nat, data_ustr' \in Nat,
         Shown' = [filename |-> CellOf(2), type |-> CellOf(3), data_type |-> CellOf(4),
                   data |-> CellOf(ValueAt(file, Start(file, reads))),
                   plist |-> IF CellOf(4) = Blob
                             THEN Parsed(CellOf(ValueAt(file, Start(file, reads)))) ELSE NULL]
  PROVE  IInv'
<1>1. TypeOK /\ reads <= Len(file.records) /\ file.records \in Seq(FileRecord)
  BY FilesAssumption DEF IInv, TypeOK, WellFormed
<1>2. PICK n \in Nat : n = Len(file.records)
  BY <1>1
<1>3. /\ reads < Len(file.records)
      /\ file.records[reads + 1] = Contents(file, Start(file, reads))
      /\ Start(file, reads + 1) = pos'
  BY <1>1, FileFacts, NextRecord
<1>4. pc' = "idle" /\ ret' = 0 /\ reads' = reads + 1 /\ broken' = broken
  BY DEF Succeed
<1>5. reads' <= Len(file.records) /\ reads' \in 1 .. Len(file.records)
  <2>1. reads \in Nat
    BY <1>1 DEF TypeOK
  <2>2. reads < n /\ reads' = reads + 1
    BY <1>2, <1>3, <1>4
  <2>3. reads' <= n /\ reads' \in 1 .. n
    BY <2>1, <2>2
  <2> QED
    BY <1>2, <2>3
<1>6. pos' \in 0 .. Len(file.cells)
  <2>1. Start(file, reads) \in Nat /\ Len(file.cells) \in Nat
    BY <1>1, FileFacts
  <2>2. ValueAt(file, Start(file, reads)) \in Nat
    BY DEF ValueAt
  <2> QED
    BY <2>1, <2>2 DEF Whole
<1>7. TypeOK'
  <2>1. reads' \in Nat
    BY <1>1, <1>4 DEF TypeOK
  <2> QED
    BY <1>1, <1>4, <1>6, <2>1 DEF TypeOK, BlobsOK, PCs
<1>8. Progress'
  BY <1>3, <1>4, <1>6 DEF Progress, Place, Accepted, At
<1>9. ReadShowsTheFile'
  BY <1>3, <1>4, <1>5 DEF ReadShowsTheFile, Contents, CellOf
<1>10. WholeRecordIsRead'
  BY <1>4 DEF WholeRecordIsRead
<1> QED
  BY <1>5, <1>7, <1>8, <1>9, <1>10 DEF IInv, BlobsOK

(* The record is refused. *)
LEMMA RefuseInv ==
  ASSUME IInv, BlobsOK', pc \notin {"idle", "freed"}, Refuse,
         UNCHANGED <<file, ops>>,
         fault' \in BOOLEAN, pos' \in 0 .. Len(file.cells),
         filename' \in Nat, record_type' \in Nat, data_type' \in Nat,
         data' \in Scalars \X Nat, data_ustr' \in Nat,
         ~fault' => ~Whole(file, Start(file, reads))
  PROVE  IInv'
<1>1. TypeOK /\ reads <= Len(file.records)
  BY DEF IInv
<1>2. pc' = "idle" /\ ret' = 1 /\ broken' = TRUE /\ reads' = reads
  BY DEF Refuse
<1>3. TypeOK'
  BY <1>1, <1>2 DEF TypeOK, BlobsOK, PCs
<1>4. Progress'
  BY <1>2 DEF Progress, Place, Accepted
<1>5. ReadShowsTheFile'
  BY <1>2 DEF ReadShowsTheFile
<1>6. ~fault' => reads = Len(file.records)
  <2>1. PICK n \in Nat : n = Len(file.records)
    BY <1>1, FilesAssumption DEF TypeOK, WellFormed
  <2>2. ~fault' => ~(reads < Len(file.records))
    BY <1>1, FileFacts, NextRecord
  <2>3. reads \in Nat /\ reads <= n
    BY <1>1, <2>1 DEF TypeOK
  <2>4. ~fault' => reads = n
    BY <2>1, <2>2, <2>3
  <2> QED
    BY <2>1, <2>4
<1>7. WholeRecordIsRead'
  BY <1>2, <1>6 DEF WholeRecordIsRead
<1> QED
  BY <1>1, <1>2, <1>3, <1>4, <1>5, <1>7 DEF IInv, BlobsOK

(* The reading goes on. *)
LEMMA ContinueInv ==
  ASSUME IInv, BlobsOK', NEW p \in PCs, Continue(p),
         pc \notin {"idle", "freed"}, p \notin {"idle", "freed"},
         UNCHANGED <<file, data, data_ustr, fault, ops>>,
         pos' \in 0 .. Len(file.cells),
         filename' \in Nat, record_type' \in Nat, data_type' \in Nat,
         Progress'
  PROVE  IInv'
<1>1. TypeOK /\ reads <= Len(file.records)
  BY DEF IInv
<1>2. pc' = p /\ ret' = ret /\ reads' = reads /\ broken' = broken
  BY DEF Continue
<1>3. TypeOK'
  BY <1>1, <1>2 DEF TypeOK, BlobsOK
<1>4. ret = 2
  BY DEF IInv, Progress, Place, Accepted
<1>5. ReadShowsTheFile' /\ WholeRecordIsRead'
  BY <1>2, <1>4 DEF ReadShowsTheFile, WholeRecordIsRead
<1> QED
  BY <1>1, <1>2, <1>3, <1>5 DEF IInv, BlobsOK

(* One cell that is there. *)
LEMMA GetOne ==
  ASSUME IInv, Get, NEW n \in 0 .. 5, At(n)
  PROVE  /\ Cell = file.cells[Start(file, reads) + (n + 1)] /\ Cell \in Nat
         /\ pos' = Start(file, reads) + (n + 1)
         /\ pos' \in 0 .. Len(file.cells)
<1>1. TypeOK /\ reads <= Len(file.records)
  BY DEF IInv
<1>2. /\ file.cells \in Seq(Nat) /\ Len(file.cells) \in Nat
      /\ Start(file, reads) \in Nat
  BY <1>1, FileFacts
<1>3. pos = Start(file, reads) + n /\ pos < Len(file.cells) /\ pos' = pos + 1
  BY DEF Get, At
<1>4. pos + 1 = Start(file, reads) + (n + 1) /\ pos + 1 \in 1 .. Len(file.cells)
  BY <1>2, <1>3
<1>5. Cell = file.cells[Start(file, reads) + (n + 1)]
  BY <1>4 DEF Cell
<1>6. Cell \in Nat
  BY <1>2, <1>4 DEF Cell
<1> QED
  BY <1>2, <1>3, <1>4, <1>5, <1>6

(* A step takes the n-th cell of the record. *)
Take(n) == Cell = CellOf(n) /\ pos' = Start(file, reads) + n

LEMMA GetFacts ==
  ASSUME IInv, Get, At(0) \/ At(1) \/ At(2) \/ At(3) \/ At(4) \/ At(5)
  PROVE  /\ At(0) => Take(1)
         /\ At(1) => Take(2)
         /\ At(2) => Take(3)
         /\ At(3) => Take(4)
         /\ At(4) => Take(5)
         /\ At(5) => Take(6)
         /\ Cell \in Nat /\ pos' \in 0 .. Len(file.cells)
<1>1. At(0) => Take(1)
  BY GetOne DEF Take, CellOf
<1>2. At(1) => Take(2)
  BY GetOne DEF Take, CellOf
<1>3. At(2) => Take(3)
  BY GetOne DEF Take, CellOf
<1>4. At(3) => Take(4)
  BY GetOne DEF Take, CellOf
<1>5. At(4) => Take(5)
  BY GetOne DEF Take, CellOf
<1>6. At(5) => Take(6)
  BY GetOne DEF Take, CellOf
<1>7. Cell \in Nat /\ pos' \in 0 .. Len(file.cells)
  BY GetOne
<1> QED
  BY <1>1, <1>2, <1>3, <1>4, <1>5, <1>6, <1>7

(* The record that is read stays where it is. *)
LEMMA CellsKept ==
  ASSUME UNCHANGED <<file, reads>>, pos' \in 0 .. Len(file.cells)
  PROVE  /\ CellOf(1)' = CellOf(1) /\ CellOf(2)' = CellOf(2) /\ CellOf(3)' = CellOf(3)
         /\ CellOf(4)' = CellOf(4) /\ CellOf(5)' = CellOf(5)
         /\ pos' = Start(file, reads) + 1 => At(1)'
         /\ pos' = Start(file, reads) + 2 => At(2)'
         /\ pos' = Start(file, reads) + 3 => At(3)'
         /\ pos' = Start(file, reads) + 4 => At(4)'
         /\ pos' = Start(file, reads) + 5 => At(5)'
<1>1. pos' <= Len(file.cells)'
  OBVIOUS
<1> QED
  BY <1>1 DEF CellOf, At

-----------------------------------------------------------------------------
(* One lemma for each step.                                                *)

LEMMA InitInv == Init => IInv
<1> SUFFICES ASSUME Init PROVE IInv
  OBVIOUS
<1>1. file \in Files /\ reads = 0 /\ pos = 0 /\ pc = "idle" /\ ret = 2
  BY DEF Init
<1>2. file.cells \in Seq(Nat) /\ file.records \in Seq(FileRecord)
  BY <1>1, FilesAssumption DEF WellFormed
<1>3. Len(file.cells) \in Nat /\ Len(file.records) \in Nat
  BY <1>2
<1>4. plistOf = <<>> /\ Len(plistOf) = 0 /\ plistOf \in Seq(Nat)
  BY DEF Init
<1>5. TypeOK
  <2>1. data \in Scalars \X Nat
    BY DEF Init, Scalars, Long
  <2>2. data_plist \in 0 .. Len(plistOf) /\ live \subseteq 1 .. Len(plistOf)
    BY <1>4 DEF Init, NULL
  <2>3. pos \in 0 .. Len(file.cells) /\ ops \in 0 .. MaxOps
    BY <1>1, <1>3, ValuesAssumption DEF Init
  <2>4. /\ filename \in Nat /\ record_type \in Nat /\ data_type \in Nat
        /\ data_blob \in Nat /\ data_ustr \in Nat /\ ret \in {0, 1, 2}
        /\ broken \in BOOLEAN /\ fault \in BOOLEAN /\ byObj \in BOOLEAN
    BY DEF Init, NULL
  <2> QED
    BY <1>1, <1>4, <2>1, <2>2, <2>3, <2>4 DEF TypeOK, PCs
<1>6. Progress
  BY <1>1, <1>3 DEF Progress, Place, Accepted, At, Start
<1>7. PlistsReleased /\ PlistIsOfBlob
  BY ValuesAssumption DEF Init, PlistsReleased, PlistIsOfBlob, Cached, Parsed
<1> QED
  BY <1>1, <1>3, <1>5, <1>6, <1>7 DEF IInv, ReadShowsTheFile, WholeRecordIsRead

(* A setter, ds_record_free, or the beginning of ds_record_fread. *)
LEMMA OperationInv ==
  ASSUME IInv, Operation, UNCHANGED <<file, reads>>, BlobsOK', pc' \in PCs,
         filename' \in Nat, record_type' \in Nat, data_type' \in Nat,
         data' \in Scalars \X Nat, data_ustr' \in Nat,
         broken' \in BOOLEAN, pos' \in 0 .. Len(file.cells), Progress'
  PROVE  IInv'
<1>1. ops' \in 0 .. MaxOps
  BY ValuesAssumption DEF IInv, TypeOK, Operation
<1>2. TypeOK'
  BY <1>1 DEF IInv, TypeOK, BlobsOK, Operation
<1>3. ReadShowsTheFile' /\ WholeRecordIsRead'
  BY DEF Operation, ReadShowsTheFile, WholeRecordIsRead
<1> QED
  BY <1>2, <1>3 DEF IInv, BlobsOK

LEMMA IdleProgress ==
  ASSUME IInv, Operation, UNCHANGED <<file, pos, reads, broken>>, pc' \in {"idle", "freed"}
  PROVE  Progress'
  BY DEF IInv, Progress, Place, Accepted, At, Operation

LEMMA SetFieldsInv == IInv /\ SetFields => IInv'
<1> SUFFICES ASSUME IInv, SetFields PROVE IInv'
  OBVIOUS
<1>1. Operation /\ pc = "idle" /\ pc' = "idle" /\ UNCHANGED <<file, pos, blobvars, reads, broken>>
  BY DEF SetFields, Operation
<1>2. BlobsOK'
  BY <1>1, BlobsHold, BlobsKept
<1>3. Progress'
  BY <1>1, IdleProgress
<1>4. /\ filename' \in Nat /\ record_type' \in Nat /\ data_type' \in Nat
      /\ data' \in Scalars \X Nat /\ data_ustr' \in Nat
  <2>1. /\ filename \in Nat /\ record_type \in Nat /\ data_type \in Nat
        /\ data \in Scalars \X Nat /\ data_ustr \in Nat
    BY DEF IInv, TypeOK
  <2>2. Scalars \union {Blob, Ustr} \subseteq Nat
    BY DEF Scalars, Bool, Comp, Dutc, Long, Shor, Type, Blob, Ustr
  <2>3. CASE data' \in Scalars \X Values /\ UNCHANGED <<filename, record_type, data_type, data_ustr>>
    BY <2>1, <2>3, ValuesAssumption
  <2>4. CASE data' = data
    BY <2>1, <2>2, <2>4, ValuesAssumption DEF SetFields
  <2> QED
    BY <2>3, <2>4 DEF SetFields
<1> QED
  BY <1>1, <1>2, <1>3, <1>4, OperationInv DEF IInv, TypeOK

LEMMA SetDataAsBlobInv == IInv /\ SetDataAsBlob => IInv'
<1> SUFFICES ASSUME IInv, SetDataAsBlob PROVE IInv'
  OBVIOUS
<1>1. Operation /\ pc = "idle" /\ pc' = "idle" /\ UNCHANGED <<file, pos, recvars, reads, broken>>
  BY DEF SetDataAsBlob, Operation
<1>2. BlobsOK'
  <2>1. PICK bytes \in Bytes : SetBlob(bytes)
    BY DEF SetDataAsBlob
  <2> QED
    BY <1>1, <2>1, BlobsHold, SetBlobOK, ValuesAssumption
<1>3. Progress'
  BY <1>1, IdleProgress
<1> QED
  BY <1>1, <1>2, <1>3, OperationInv DEF IInv, TypeOK, recvars

LEMMA SetDataAsBlobObjInv == IInv /\ SetDataAsBlobObj => IInv'
<1> SUFFICES ASSUME IInv, SetDataAsBlobObj PROVE IInv'
  OBVIOUS
<1>1. Operation /\ pc = "idle" /\ pc' = "idle" /\ UNCHANGED <<file, pos, recvars, reads, broken>>
  BY DEF SetDataAsBlobObj, Operation
<1>2. BlobsOK'
  BY <1>1, BlobsHold, ValuesAssumption
     DEF SetDataAsBlobObj, BlobsOK, PlistsReleased, PlistIsOfBlob
<1>3. Progress'
  BY <1>1, IdleProgress
<1> QED
  BY <1>1, <1>2, <1>3, OperationInv DEF IInv, TypeOK, recvars

(* The last list goes with the record. *)
LEMMA FreeInv == IInv /\ Free => IInv'
<1> SUFFICES ASSUME IInv, Free PROVE IInv'
  OBVIOUS
<1>1. /\ Operation /\ pc = "idle" /\ pc' = "freed" /\ live' = live \ {data_plist}
      /\ UNCHANGED <<file, pos, recvars, data_blob, data_plist, plistOf, byObj, reads, broken>>
  BY DEF Free, Operation
<1>2. PlistIsOfBlob'
  BY <1>1 DEF IInv, PlistIsOfBlob, Cached, Parsed
<1>3. BlobsOK'
  BY <1>1, <1>2, BlobsHold DEF BlobsOK, PlistsReleased
<1>4. Progress'
  BY <1>1, IdleProgress
<1> QED
  BY <1>1, <1>3, <1>4, OperationInv DEF IInv, TypeOK, recvars, PCs

(* A call after a failed one begins where that one began. *)
LEMMA CallFreadInv == IInv /\ CallFread => IInv'
<1> SUFFICES ASSUME IInv, CallFread PROVE IInv'
  OBVIOUS
<1>1. /\ Operation /\ pc = "idle" /\ pc' = "filename length" /\ broken' = FALSE
      /\ ret' = 2
      /\ pos' = IF broken THEN Start(file, reads) ELSE pos
      /\ UNCHANGED <<file, recvars, blobvars, reads>>
  BY DEF CallFread, Operation
<1>2. TypeOK /\ reads <= Len(file.records) /\ Progress /\ broken \in BOOLEAN
  BY DEF IInv, TypeOK
<1>3. At(0)'
  <2>1. /\ Start(file, reads) \in Nat /\ Len(file.cells) \in Nat
    BY <1>2, FileFacts
  <2>2. CASE broken
    <3>1. Start(file, reads) <= Len(file.cells)
      BY <1>2, StartInFile
    <3>2. pos' = Start(file, reads) /\ file' = file /\ reads' = reads
      BY <1>1, <2>2
    <3> QED
      BY <2>1, <3>1, <3>2 DEF At
  <2>3. CASE ~broken
    BY <1>1, <1>2, <2>3 DEF At, Progress, Place, Accepted
  <2> QED
    BY <2>2, <2>3
<1>4. pos' \in 0 .. Len(file.cells)
  <2>1. /\ Start(file, reads) \in Nat /\ Len(file.cells) \in Nat
    BY <1>2, FileFacts
  <2>2. pos' = Start(file, reads) + 0 /\ pos' <= Len(file.cells)
    BY <1>1, <1>3 DEF At
  <2> QED
    BY <2>1, <2>2
<1>5. Progress'
  BY <1>1, <1>3 DEF Progress, Place, Accepted
<1>6. BlobsOK'
  BY <1>1, BlobsHold, BlobsKept
<1> QED
  BY <1>1, <1>4, <1>5, <1>6, OperationInv DEF IInv, TypeOK, recvars, PCs

LEMMA Reading ==
  ASSUME IInv, pc \notin {"idle", "freed"}
  PROVE  /\ BlobsOK /\ TypeOK /\ Progress
         /\ file.cells \in Seq(Nat) /\ Len(file.cells) \in Nat
         /\ Start(file, reads) \in Nat /\ pos \in 0 .. Len(file.cells)
         /\ filename \in Nat /\ record_type \in Nat /\ data_type \in Nat
         /\ data \in Scalars \X Nat /\ data_ustr \in Nat
         /\ fault \in BOOLEAN
  BY BlobsHold, FileFacts DEF IInv, TypeOK

LEMMA FilenameLengthInv == IInv /\ FilenameLength => IInv'
<1> SUFFICES ASSUME IInv, FilenameLength PROVE IInv'
  OBVIOUS
<1>1. /\ pc = "filename length" /\ Get /\ UNCHANGED <<file, recvars, blobvars, fault, ops>>
      /\ IF Cell = 0 THEN Refuse ELSE Continue("filename")
  BY DEF FilenameLength
<1>2. At(0)
  BY <1>1, Reading DEF Progress, Place, Accepted
<1>3. Cell = CellOf(1) /\ pos' = Start(file, reads) + 1 /\ pos' \in 0 .. Len(file.cells)
  BY <1>1, <1>2, GetFacts DEF Take
<1>4. CASE Cell = 0
  <2>1. Refuse
    BY <1>1, <1>4
  <2>2. ~Whole(file, Start(file, reads))
    BY <1>3, <1>4 DEF Whole, CellOf
  <2>3. pc' # "freed"
    BY <2>1 DEF Refuse
  <2> QED
    BY <1>1, <1>3, <2>1, <2>2, <2>3, Reading, BlobsKept, RefuseInv DEF recvars
<1>5. CASE Cell # 0
  <2>1. Continue("filename")
    BY <1>1, <1>5
  <2>2. pc' = "filename" /\ ret' = ret /\ reads' = reads /\ broken' = broken
    BY <2>1 DEF Continue
  <2>3. Progress'
    BY <1>1, <1>2, <1>3, <1>5, <2>2, Reading, CellsKept DEF Progress, Place, Accepted
  <2> QED
    BY <1>1, <1>3, <2>1, <2>2, <2>3, Reading, BlobsKept, ContinueInv DEF recvars, PCs
<1> QED
  BY <1>4, <1>5

LEMMA FilenameInv == IInv /\ Filename => IInv'
<1> SUFFICES ASSUME IInv, Filename PROVE IInv'
  OBVIOUS
<1>1. /\ pc = "filename" /\ Get /\ filename' = Cell /\ Continue("record type")
      /\ UNCHANGED <<file, record_type, data_type, data, data_ustr, blobvars, fault, ops>>
  BY DEF Filename
<1>2. At(1)
  BY <1>1, Reading DEF Progress, Place, Accepted
<1>3. /\ Cell = CellOf(2) /\ Cell \in Nat
      /\ pos' = Start(file, reads) + 2 /\ pos' \in 0 .. Len(file.cells)
  BY <1>1, <1>2, GetFacts DEF Take
<1>4. pc' = "record type" /\ ret' = ret /\ reads' = reads /\ broken' = broken
  BY <1>1 DEF Continue
<1>5. Progress'
  BY <1>1, <1>2, <1>3, <1>4, Reading, CellsKept DEF Progress, Place, Accepted
<1> QED
  BY <1>1, <1>3, <1>4, <1>5, Reading, BlobsKept, ContinueInv DEF PCs

LEMMA RecordTypeInv == IInv /\ RecordType => IInv'
<1> SUFFICES ASSUME IInv, RecordType PROVE IInv'
  OBVIOUS
<1>1. /\ pc = "record type" /\ Get /\ record_type' = Cell /\ Continue("data type")
      /\ UNCHANGED <<file, filename, data_type, data, data_ustr, blobvars, fault, ops>>
  BY DEF RecordType
<1>2. At(2)
  BY <1>1, Reading DEF Progress, Place, Accepted
<1>3. /\ Cell = CellOf(3) /\ Cell \in Nat
      /\ pos' = Start(file, reads) + 3 /\ pos' \in 0 .. Len(file.cells)
  BY <1>1, <1>2, GetFacts DEF Take
<1>4. pc' = "data type" /\ ret' = ret /\ reads' = reads /\ broken' = broken
  BY <1>1 DEF Continue
<1>5. Progress'
  BY <1>1, <1>2, <1>3, <1>4, Reading, CellsKept DEF Progress, Place, Accepted
<1> QED
  BY <1>1, <1>3, <1>4, <1>5, Reading, BlobsKept, ContinueInv DEF PCs

LEMMA DataTypeInv == IInv /\ DataType => IInv'
<1> SUFFICES ASSUME IInv, DataType PROVE IInv'
  OBVIOUS
<1>1. /\ pc = "data type" /\ Get /\ data_type' = Cell
      /\ CASE Cell = Shor               -> Continue("leading bytes")
           [] Cell \in Scalars \ {Shor} -> Continue("scalar")
           [] Cell \in {Blob, Ustr}     -> Continue("size")
           [] OTHER                     -> Refuse
      /\ UNCHANGED <<file, filename, record_type, data, data_ustr, blobvars, fault, ops>>
  BY DEF DataType
<1>2. At(3)
  BY <1>1, Reading DEF Progress, Place, Accepted
<1>3. /\ Cell = CellOf(4) /\ Cell \in Nat
      /\ pos' = Start(file, reads) + 4 /\ pos' \in 0 .. Len(file.cells)
  BY <1>1, <1>2, GetFacts DEF Take
<1>4. Shor \in Scalars /\ Shor \notin {Blob, Ustr} /\ \A d \in Scalars : d \notin {Blob, Ustr}
  BY DEF Scalars, Bool, Comp, Dutc, Long, Shor, Type, Blob, Ustr
<1>5. CASE Cell = Shor
  <2>1. Continue("leading bytes")
    BY <1>1, <1>4, <1>5
  <2>2. pc' = "leading bytes" /\ ret' = ret /\ reads' = reads /\ broken' = broken
    BY <2>1 DEF Continue
  <2>3. Progress'
    BY <1>1, <1>2, <1>3, <1>5, <2>2, Reading, CellsKept DEF Progress, Place, Accepted
  <2> QED
    BY <1>1, <1>3, <2>1, <2>2, <2>3, Reading, BlobsKept, ContinueInv DEF PCs
<1>6. CASE Cell \in Scalars \ {Shor}
  <2>1. Continue("scalar")
    BY <1>1, <1>4, <1>6
  <2>2. pc' = "scalar" /\ ret' = ret /\ reads' = reads /\ broken' = broken
    BY <2>1 DEF Continue
  <2>3. Progress'
    BY <1>1, <1>2, <1>3, <1>6, <2>2, Reading, CellsKept DEF Progress, Place, Accepted
  <2> QED
    BY <1>1, <1>3, <2>1, <2>2, <2>3, Reading, BlobsKept, ContinueInv DEF PCs
<1>7. CASE Cell \in {Blob, Ustr}
  <2>1. Continue("size")
    BY <1>1, <1>4, <1>7
  <2>2. pc' = "size" /\ ret' = ret /\ reads' = reads /\ broken' = broken
    BY <2>1 DEF Continue
  <2>3. Progress'
    BY <1>1, <1>2, <1>3, <1>7, <2>2, Reading, CellsKept DEF Progress, Place, Accepted
  <2> QED
    BY <1>1, <1>3, <2>1, <2>2, <2>3, Reading, BlobsKept, ContinueInv DEF PCs
<1>8. CASE Cell \notin Scalars \union {Blob, Ustr}
  <2>1. Refuse
    BY <1>1, <1>4, <1>8
  <2>2. ~Whole(file, Start(file, reads))
    BY <1>3, <1>8 DEF Whole, CellOf
  <2>3. pc' # "freed"
    BY <2>1 DEF Refuse
  <2> QED
    BY <1>1, <1>3, <2>1, <2>2, <2>3, Reading, BlobsKept, RefuseInv
<1> QED
  BY <1>5, <1>6, <1>7, <1>8

LEMMA LeadingBytesInv == IInv /\ LeadingBytes => IInv'
<1> SUFFICES ASSUME IInv, LeadingBytes PROVE IInv'
  OBVIOUS
<1>1. /\ pc = "leading bytes" /\ Get /\ Continue("scalar")
      /\ UNCHANGED <<file, recvars, blobvars, fault, ops>>
  BY DEF LeadingBytes
<1>2. At(4)
  BY <1>1, Reading DEF Progress, Place, Accepted
<1>3. pos' = Start(file, reads) + 5 /\ pos' \in 0 .. Len(file.cells)
  BY <1>1, <1>2, GetFacts DEF Take
<1>4. pc' = "scalar" /\ ret' = ret /\ reads' = reads /\ broken' = broken
  BY <1>1 DEF Continue
<1>5. Shor \in Scalars
  BY DEF Scalars, Bool, Comp, Dutc, Long, Shor, Type
<1>6. Progress'
  BY <1>1, <1>2, <1>3, <1>4, <1>5, Reading, CellsKept DEF Progress, Place, Accepted, recvars
<1> QED
  BY <1>1, <1>3, <1>4, <1>6, Reading, BlobsKept, ContinueInv DEF PCs, recvars

LEMMA SizeInv == IInv /\ Size => IInv'
<1> SUFFICES ASSUME IInv, Size PROVE IInv'
  OBVIOUS
<1>1. /\ pc = "size" /\ Get /\ UNCHANGED <<file, recvars, blobvars, fault, ops>>
      /\ IF Cell = 0 THEN Refuse ELSE Continue("contents")
  BY DEF Size
<1>2. /\ At(4)
      /\ data_type = CellOf(4) /\ data_type \in {Blob, Ustr}
  BY <1>1, Reading DEF Progress, Place, Accepted
<1>3. Cell = CellOf(5) /\ pos' = Start(file, reads) + 5 /\ pos' \in 0 .. Len(file.cells)
  BY <1>1, <1>2, GetFacts DEF Take
<1>4. CASE Cell = 0
  <2>1. Refuse
    BY <1>1, <1>4
  <2>2. ~Whole(file, Start(file, reads))
    BY <1>2, <1>3, <1>4 DEF Whole, CellOf
  <2>3. pc' # "freed"
    BY <2>1 DEF Refuse
  <2> QED
    BY <1>1, <1>3, <2>1, <2>2, <2>3, Reading, BlobsKept, RefuseInv DEF recvars
<1>5. CASE Cell # 0
  <2>1. Continue("contents")
    BY <1>1, <1>5
  <2>2. pc' = "contents" /\ ret' = ret /\ reads' = reads /\ broken' = broken
    BY <2>1 DEF Continue
  <2>3. Progress'
    BY <1>1, <1>2, <1>3, <1>5, <2>2, Reading, CellsKept DEF Progress, Place, Accepted, recvars
  <2> QED
    BY <1>1, <1>3, <2>1, <2>2, <2>3, Reading, BlobsKept, ContinueInv DEF recvars, PCs
<1> QED
  BY <1>4, <1>5

(* At the value, the record is whole. *)
LEMMA ScalarIsWhole ==
  ASSUME IInv, pc = "scalar", Get
  PROVE  /\ Whole(file, Start(file, reads))
         /\ pos' = Start(file, reads) + ValueAt(file, Start(file, reads))
         /\ Cell = CellOf(ValueAt(file, Start(file, reads))) /\ Cell \in Nat
<1>1. /\ CellOf(1) # 0 /\ data_type = CellOf(4) /\ data_type \in Scalars
      /\ IF data_type = Shor THEN At(5) ELSE At(4)
  BY DEF IInv, Progress, Place, Accepted
<1>2. At(4) \/ At(5)
  BY <1>1
<1>3. pos' \in 0 .. Len(file.cells) /\ Cell \in Nat
  BY <1>2, GetFacts
<1>4. /\ Start(file, reads) \in Nat /\ Len(file.cells) \in Nat
  BY Reading
<1>5. \A d \in Scalars : d \notin {Blob, Ustr}
  BY DEF Scalars, Bool, Comp, Dutc, Long, Shor, Type, Blob, Ustr
<1>6. CASE data_type = Shor
  <2>1. ValueAt(file, Start(file, reads)) = 6
    BY <1>1, <1>6 DEF ValueAt, CellOf
  <2>2. Cell = CellOf(6) /\ pos' = Start(file, reads) + 6
    BY <1>1, <1>6, GetFacts DEF Take
  <2> QED
    BY <1>1, <1>3, <1>4, <1>5, <2>1, <2>2 DEF Whole, CellOf
<1>7. CASE data_type # Shor
  <2>1. ValueAt(file, Start(file, reads)) = 5
    BY <1>1, <1>7 DEF ValueAt, CellOf
  <2>2. Cell = CellOf(5) /\ pos' = Start(file, reads) + 5
    BY <1>1, <1>7, GetFacts DEF Take
  <2> QED
    BY <1>1, <1>3, <1>4, <1>5, <2>1, <2>2 DEF Whole, CellOf
<1> QED
  BY <1>6, <1>7

LEMMA ContentsAreWhole ==
  ASSUME IInv, pc = "contents", Get
  PROVE  /\ Whole(file, Start(file, reads))
         /\ pos' = Start(file, reads) + ValueAt(file, Start(file, reads))
         /\ Cell = CellOf(ValueAt(file, Start(file, reads))) /\ Cell \in Nat
<1>1. /\ CellOf(1) # 0 /\ data_type = CellOf(4) /\ data_type \in {Blob, Ustr}
      /\ CellOf(5) # 0 /\ At(5)
  BY DEF IInv, Progress, Place, Accepted
<1>2. pos' \in 0 .. Len(file.cells) /\ Cell \in Nat /\ Cell = CellOf(6) /\ pos' = Start(file, reads) + 6
  BY <1>1, GetFacts DEF Take
<1>3. /\ Start(file, reads) \in Nat /\ Len(file.cells) \in Nat
  BY Reading
<1>4. \A d \in Scalars : d \notin {Blob, Ustr}
  BY DEF Scalars, Bool, Comp, Dutc, Long, Shor, Type, Blob, Ustr
<1>5. ValueAt(file, Start(file, reads)) = 6
  BY <1>1, <1>4 DEF ValueAt, CellOf
<1> QED
  BY <1>1, <1>2, <1>3, <1>5 DEF Whole, CellOf

LEMMA ScalarInv == IInv /\ Scalar => IInv'
<1> SUFFICES ASSUME IInv, Scalar PROVE IInv'
  OBVIOUS
<1>1. /\ pc = "scalar" /\ Get /\ data' = <<data_type, Cell>> /\ Succeed
      /\ UNCHANGED <<file, filename, record_type, data_type, data_ustr, blobvars, fault, ops>>
  BY DEF Scalar
<1> DEFINE at == ValueAt(file, Start(file, reads))
<1>2. /\ filename = CellOf(2) /\ record_type = CellOf(3) /\ data_type = CellOf(4)
      /\ data_type \in Scalars
  BY <1>1 DEF IInv, Progress, Place, Accepted
<1>3. /\ Whole(file, Start(file, reads)) /\ pos' = Start(file, reads) + at
      /\ Cell = CellOf(at) /\ Cell \in Nat
  BY <1>1, ScalarIsWhole
<1>4. data' \in Scalars \X Nat
  BY <1>1, <1>2, <1>3
<1>5. data_type # Blob
  BY <1>2 DEF Scalars, Bool, Comp, Dutc, Long, Shor, Type, Blob
<1>6. data_type # Ustr
  BY <1>2 DEF Scalars, Bool, Comp, Dutc, Long, Shor, Type, Ustr
<1>7. Shown' = [filename |-> CellOf(2), type |-> CellOf(3), data_type |-> CellOf(4),
                data |-> CellOf(at),
                plist |-> IF CellOf(4) = Blob THEN Parsed(CellOf(at)) ELSE NULL]
  BY <1>1, <1>2, <1>3, <1>5, <1>6 DEF Shown
<1>8. pc' # "freed" /\ data_ustr' \in Nat
  BY <1>1, Reading DEF Succeed
<1> QED
  BY <1>1, <1>2, <1>3, <1>4, <1>7, <1>8, Reading, BlobsKept, SucceedInv

LEMMA BlobContentsInv == IInv /\ BlobContents => IInv'
<1> SUFFICES ASSUME IInv, BlobContents PROVE IInv'
  OBVIOUS
<1>1. /\ pc = "contents" /\ data_type = Blob /\ Get /\ SetBlob(Cell) /\ Succeed
      /\ UNCHANGED <<file, recvars, fault, ops>>
  BY DEF BlobContents
<1> DEFINE at == ValueAt(file, Start(file, reads))
<1>2. filename = CellOf(2) /\ record_type = CellOf(3) /\ data_type = CellOf(4)
  BY <1>1 DEF IInv, Progress, Place, Accepted
<1>3. /\ Whole(file, Start(file, reads)) /\ pos' = Start(file, reads) + at
      /\ Cell = CellOf(at) /\ Cell \in Nat
  BY <1>1, ContentsAreWhole
<1>4. pc' # "freed"
  BY <1>1 DEF Succeed
<1>5. BlobsOK'
  BY <1>1, <1>3, <1>4, Reading, SetBlobOK
<1>6. data_blob' = Cell /\ ~byObj'
  BY <1>1 DEF SetBlob
<1>7. Cached' = Parsed(Cell)
  BY <1>5, <1>6 DEF BlobsOK, PlistIsOfBlob, Parsed
<1>8. Blob \notin Scalars
  BY DEF Scalars, Bool, Comp, Dutc, Long, Shor, Type, Blob
<1>9. data_type' = Blob /\ filename' = CellOf(2) /\ record_type' = CellOf(3)
  BY <1>1, <1>2 DEF recvars
<1>10. Shown' = [filename |-> CellOf(2), type |-> CellOf(3), data_type |-> CellOf(4),
                 data |-> CellOf(at),
                 plist |-> IF CellOf(4) = Blob THEN Parsed(CellOf(at)) ELSE NULL]
  BY <1>1, <1>2, <1>3, <1>6, <1>7, <1>8, <1>9 DEF Shown, Blob, Ustr
<1>11. data' \in Scalars \X Nat /\ data_ustr' \in Nat
  BY <1>1, Reading DEF recvars
<1> QED
  BY <1>1, <1>2, <1>3, <1>5, <1>10, <1>11, SucceedInv DEF recvars

LEMMA UstrContentsInv == IInv /\ UstrContents => IInv'
<1> SUFFICES ASSUME IInv, UstrContents PROVE IInv'
  OBVIOUS
<1>1. /\ pc = "contents" /\ data_type = Ustr /\ Get /\ data_ustr' = Cell /\ Succeed
      /\ UNCHANGED <<file, filename, record_type, data_type, data, blobvars, fault, ops>>
  BY DEF UstrContents
<1> DEFINE at == ValueAt(file, Start(file, reads))
<1>2. filename = CellOf(2) /\ record_type = CellOf(3) /\ data_type = CellOf(4)
  BY <1>1 DEF IInv, Progress, Place, Accepted
<1>3. /\ Whole(file, Start(file, reads)) /\ pos' = Start(file, reads) + at
      /\ Cell = CellOf(at) /\ Cell \in Nat
  BY <1>1, ContentsAreWhole
<1>4. pc' # "freed"
  BY <1>1 DEF Succeed
<1>5. Ustr \notin Scalars
  BY DEF Scalars, Bool, Comp, Dutc, Long, Shor, Type, Ustr
<1>6. Shown' = [filename |-> CellOf(2), type |-> CellOf(3), data_type |-> CellOf(4),
                data |-> CellOf(at),
                plist |-> IF CellOf(4) = Blob THEN Parsed(CellOf(at)) ELSE NULL]
  BY <1>1, <1>2, <1>3, <1>5 DEF Shown, Blob, Ustr
<1>7. data' \in Scalars \X Nat
  BY <1>1, Reading
<1> QED
  BY <1>1, <1>2, <1>3, <1>4, <1>6, <1>7, Reading, BlobsKept, SucceedInv

(* A record that is whole can only fail to be read if the device fails. *)
LEMMA FreadFailsInv == IInv /\ FreadFails => IInv'
<1> SUFFICES ASSUME IInv, FreadFails PROVE IInv'
  OBVIOUS
<1>1. /\ pc \notin {"idle", "freed"} /\ fault' = (pos < Len(file.cells)) /\ Refuse
      /\ UNCHANGED <<file, pos, ops>>
  BY DEF FreadFails
<1>2. pc' # "freed" /\ fault' \in BOOLEAN
  BY <1>1 DEF Refuse
<1>3. /\ BlobsOK'
      /\ filename' \in Nat /\ record_type' \in Nat /\ data_type' \in Nat
      /\ data' \in Scalars \X Nat /\ data_ustr' \in Nat
  <2>1. CASE pc = "scalar"
    <3>1. /\ data' \in {data} \union ({data_type} \X Values)
          /\ UNCHANGED <<filename, record_type, data_type, data_ustr, blobvars>>
      BY <2>1 DEF FreadFails
    <3>2. data_type \in Scalars
      BY <2>1 DEF IInv, Progress, Place, Accepted
    <3>3. data' \in Scalars \X Nat
      BY <1>1, <3>1, <3>2, Reading, ValuesAssumption
    <3> QED
      BY <1>1, <1>2, <3>1, <3>3, Reading, BlobsKept
  <2>2. CASE pc = "contents" /\ data_type = Blob
    <3>1. UNCHANGED recvars /\ \E bytes \in Partials : SetBlob(bytes)
      BY <2>2 DEF FreadFails, Blob, Ustr
    <3>2. BlobsOK'
      BY <1>1, <1>2, <3>1, Reading, SetBlobOK, ValuesAssumption
    <3> QED
      BY <1>1, <3>1, <3>2, Reading DEF recvars
  <2>3. CASE pc = "contents" /\ data_type = Ustr
    <3>1. /\ data_ustr' \in Values
          /\ UNCHANGED <<filename, record_type, data_type, data, blobvars>>
      BY <2>3 DEF FreadFails, Blob, Ustr
    <3> QED
      BY <1>1, <1>2, <3>1, Reading, BlobsKept, ValuesAssumption
  <2>4. CASE pc # "scalar" /\ ~(pc = "contents" /\ data_type \in {Blob, Ustr})
    <3>1. UNCHANGED <<recvars, blobvars>>
      BY <2>4 DEF FreadFails
    <3> QED
      BY <1>1, <1>2, <3>1, Reading, BlobsKept DEF recvars
  <2> QED
    BY <2>1, <2>2, <2>3, <2>4
<1>4. ASSUME ~fault' PROVE ~Whole(file, Start(file, reads))
  <2>1. /\ Len(file.cells) \in Nat /\ Start(file, reads) \in Nat
        /\ pos \in 0 .. Len(file.cells) /\ ~(pos < Len(file.cells))
    BY <1>1, <1>4, Reading
  <2>2. CASE At(0) \/ At(1) \/ At(2) \/ At(3) \/ At(4)
    BY <2>1, <2>2 DEF Whole, At
  <2>3. CASE At(5)
    <3>1. ~At(0) /\ ~At(1) /\ ~At(2) /\ ~At(3) /\ ~At(4)
      BY <2>1, <2>3 DEF At
    <3>2. \/ pc = "scalar" /\ data_type = Shor
          \/ pc = "contents" /\ data_type \in {Blob, Ustr}
      BY <1>1, <3>1, Reading DEF Progress, Place, Accepted, TypeOK, PCs
    <3>3. data_type \notin Scalars \ {Shor}
      BY <3>2 DEF Scalars, Bool, Comp, Dutc, Long, Shor, Type, Blob, Ustr
    <3>4. CellOf(4) = data_type
      BY <3>2, Reading DEF Progress, Place, Accepted
    <3>5. ValueAt(file, Start(file, reads)) = 6
      BY <3>3, <3>4 DEF ValueAt, CellOf
    <3> QED
      BY <2>1, <2>3, <3>5 DEF Whole, At
  <2> QED
    BY <1>1, <2>2, <2>3, Reading DEF Progress, Place, Accepted, TypeOK, PCs
<1>5. pos' \in 0 .. Len(file.cells)
  BY <1>1, Reading
<1> QED
  BY <1>1, <1>2, <1>3, <1>4, <1>5, RefuseInv

-----------------------------------------------------------------------------
(* The invariant and what it says.                                         *)

LEMMA StepInv == IInv /\ Next => IInv'
<1> SUFFICES ASSUME IInv, Next PROVE IInv'
  OBVIOUS
<1>1. CASE SetFields
  BY <1>1, SetFieldsInv
<1>2. CASE SetDataAsBlob
  BY <1>2, SetDataAsBlobInv
<1>3. CASE SetDataAsBlobObj
  BY <1>3, SetDataAsBlobObjInv
<1>4. CASE Free
  BY <1>4, FreeInv
<1>5. CASE CallFread
  BY <1>5, CallFreadInv
<1>6. CASE FilenameLength \/ Filename \/ RecordType
  BY <1>6, FilenameLengthInv, FilenameInv, RecordTypeInv
<1>7. CASE DataType \/ LeadingBytes \/ Scalar
  BY <1>7, DataTypeInv, LeadingBytesInv, ScalarInv
<1>8. CASE Size \/ BlobContents \/ UstrContents
  BY <1>8, SizeInv, BlobContentsInv, UstrContentsInv
<1>9. CASE FreadFails
  BY <1>9, FreadFailsInv
<1> QED
  BY <1>1, <1>2, <1>3, <1>4, <1>5, <1>6, <1>7, <1>8, <1>9 DEF Next, Read

LEMMA StutterInv == IInv /\ UNCHANGED vars => IInv'
<1> SUFFICES ASSUME IInv, UNCHANGED vars PROVE IInv'
  OBVIOUS
<1>1. TypeOK'
  BY DEF IInv, TypeOK, vars, recvars, blobvars
<1>2. Progress'
  <2>1. UNCHANGED <<file, pos, reads>>
    BY DEF vars
  <2>2. /\ CellOf(1)' = CellOf(1) /\ CellOf(2)' = CellOf(2) /\ CellOf(3)' = CellOf(3)
        /\ CellOf(4)' = CellOf(4) /\ CellOf(5)' = CellOf(5)
        /\ At(0) => At(0)'
        /\ At(1) => At(1)'
        /\ At(2) => At(2)'
        /\ At(3) => At(3)'
        /\ At(4) => At(4)'
        /\ At(5) => At(5)'
    BY <2>1 DEF CellOf, At
  <2>3. /\ UNCHANGED <<pc, ret, filename, record_type, data_type>>
        /\ broken' <=> broken
    BY DEF vars, recvars
  <2>4. Progress
    BY DEF IInv
  <2>5. Place'
    BY <2>2, <2>3, <2>4 DEF Progress, Place
  <2>6. Accepted'
    BY <2>2, <2>3, <2>4 DEF Progress, Accepted
  <2> QED
    BY <2>3, <2>4, <2>5, <2>6 DEF Progress
<1>3. ReadShowsTheFile'
  BY DEF IInv, ReadShowsTheFile, Shown, Cached, Parsed, vars, recvars, blobvars
<1>4. WholeRecordIsRead' /\ PlistsReleased'
  BY DEF IInv, WholeRecordIsRead, PlistsReleased, vars, recvars, blobvars
<1>5. PlistIsOfBlob'
  BY DEF IInv, PlistIsOfBlob, Cached, Parsed, vars, recvars, blobvars
<1> QED
  BY <1>1, <1>2, <1>3, <1>4, <1>5 DEF IInv, vars, recvars, blobvars

(* The invariant holds in every reachable state. *)
THEOREM Invariance == Spec => []IInv
<1>1. IInv /\ [Next]_vars => IInv'
  BY StepInv, StutterInv
<1> QED
  BY <1>1, InitInv, PTL DEF Spec

(* The reader stays in the file, and every field keeps its type. *)
THEOREM TypeCorrect == Spec => []TypeOK
<1>1. IInv => TypeOK
  BY DEF IInv
<1> QED
  BY <1>1, Invariance, PTL

(* A record that was read shows the next record of the file and nothing of *)
(* what was in it, for files of any length and after any calls.            *)
THEOREM ReadingShowsTheFile == Spec => []ReadShowsTheFile
<1>1. IInv => ReadShowsTheFile
  BY DEF IInv
<1> QED
  BY <1>1, Invariance, PTL

(* A whole record is only refused when the device fails. *)
THEOREM WholeRecordsAreRead == Spec => []WholeRecordIsRead
<1>1. IInv => WholeRecordIsRead
  BY DEF IInv
<1> QED
  BY <1>1, Invariance, PTL

(* However often the blob changes, one property list is kept at most, and  *)
(* none when the record is freed.                                          *)
THEOREM PlistsAreReleased == Spec => []PlistsReleased
<1>1. IInv => PlistsReleased
  BY DEF IInv
<1> QED
  BY <1>1, Invariance, PTL

(* The property list is that of the blob, also of one that was read in     *)
(* part, unless ds_record_set_data_as_blob_obj set the blob.               *)
THEOREM PlistFollowsTheBlob == Spec => []PlistIsOfBlob
<1>1. IInv => PlistIsOfBlob
  BY DEF IInv
<1> QED
  BY <1>1, Invariance, PTL

=============================================================================
