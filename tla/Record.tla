-------------------------------- MODULE Record --------------------------------
(***************************************************************************)
(* A ds_record_t (dsrecord.cpp, dsrecord.mm): its setters, the property    *)
(* list that is cached beside its blob, and ds_record_fread, which may     *)
(* fill a record that was used before and may fail after any field.        *)
(*                                                                         *)
(* A file is a sequence of cells, one for each value that ds_record_fread  *)
(* reads; the bytes of a blob are a number, and Plist says which property  *)
(* list they hold, NULL if none.  Core Foundation objects have numbers, in *)
(* the order in which they are created.                                    *)
(***************************************************************************)
EXTENDS Naturals, Sequences

CONSTANTS
  Files,             \* the files; see FilesAssumption
  Names, Types,      \* what the client sets: filenames, record types,
  Values, Bytes,     \* scalars and strings, blobs
  Partials,          \* the bytes a blob may have after a short read
  Plist,             \* the property list that some bytes hold
  MaxOps             \* how many operations the client performs

NULL == 0

(* ds_record_data_type *)
Bool == 1  Comp == 2  Dutc == 3  Long == 4  Shor == 5  Type == 6
Blob == 7  Ustr == 8

Scalars == {Bool, Comp, Dutc, Long, Shor, Type}

(* A file: cells is what it holds, records what its records say that are   *)
(* whole and legal, with the position where each ends; what follows them   *)
(* is not a record.  The code does not read records.                       *)

(* Where the record behind the k-th begins. *)
Start(f, k) == IF k = 0 THEN 0 ELSE f.records[k].end

(* The cell with the value of the record at b, counted from b. *)
ValueAt(f, b) == IF f.cells[b + 4] \in Scalars \ {Shor} THEN 5 ELSE 6

Whole(f, b) ==
  /\ b + 5 <= Len(f.cells)
  /\ f.cells[b + 1] # 0
  /\ f.cells[b + 4] \in Scalars \union {Blob, Ustr}
  /\ f.cells[b + 4] \in {Blob, Ustr} => f.cells[b + 5] # 0
  /\ b + ValueAt(f, b) <= Len(f.cells)

Contents(f, b) ==
  [filename |-> f.cells[b + 2], type |-> f.cells[b + 3],
   data_type |-> f.cells[b + 4], data |-> f.cells[b + ValueAt(f, b)],
   end |-> b + ValueAt(f, b)]

FileRecord == [filename : Nat, type : Nat, data_type : Nat, data : Nat, end : Nat]

WellFormed(f) ==
  /\ f.cells \in Seq(Nat) /\ f.records \in Seq(FileRecord)
  /\ \A k \in 1 .. Len(f.records) :
       Whole(f, Start(f, k - 1)) /\ f.records[k] = Contents(f, Start(f, k - 1))
  /\ ~Whole(f, Start(f, Len(f.records)))

ASSUME FilesAssumption == \A f \in Files : WellFormed(f)

ASSUME ValuesAssumption ==
  /\ Names \subseteq Nat /\ Types \subseteq Nat /\ Values \subseteq Nat
  /\ Bytes \subseteq Nat /\ Partials \subseteq Nat
  /\ \A b \in DOMAIN Plist : Plist[b] \in Nat
  /\ 0 \notin DOMAIN Plist
  /\ MaxOps \in Nat

VARIABLES
  file, pos,         \* the file and the position in it
  filename, record_type, data_type,
  data,              \* the union: the member that was written last, its value
  data_blob, data_ustr,
  data_plist,        \* NULL or a Core Foundation object
  plistOf,           \* what each object is: a function on 1 .. the last one
  live,              \* the objects that are not released
  pc,                \* "idle", a place in ds_record_fread, or "freed"
  ret,               \* what ds_record_fread returned; 2 before and after
  reads,             \* how often it returned 0 on this file
  broken,            \* the last call on this file failed
  fault,             \* the device failed in it
  byObj,             \* data_blob was set last by ds_record_set_data_as_blob_obj
  ops                \* operations performed

recvars == <<filename, record_type, data_type, data, data_ustr>>
blobvars == <<data_blob, data_plist, plistOf, live, byObj>>
vars == <<file, pos, recvars, blobvars, pc, ret, reads, broken, fault, ops>>

(* The property list that bytes hold. *)
Parsed(bytes) == IF bytes \in DOMAIN Plist THEN Plist[bytes] ELSE NULL

(* The property list of the record. *)
Cached == IF data_plist = NULL THEN NULL ELSE plistOf[data_plist]

(* _ds_record::_ds_record *)
Init ==
  /\ file \in Files /\ pos = 0
  /\ filename = NULL /\ record_type = 0 /\ data_type = 0
  /\ data = <<Long, 0>>
  /\ data_blob = 0 /\ data_ustr = 0
  /\ data_plist = NULL /\ plistOf = <<>> /\ live = {}
  /\ pc = "idle" /\ ret = 2 /\ reads = 0
  /\ broken = FALSE /\ fault = FALSE /\ byObj = FALSE /\ ops = 0

-----------------------------------------------------------------------------
(* The cached property list.                                               *)

(* Mutant: the old list is not released. *)
SetBlob_Leaks(bytes) ==
  /\ data_blob' = bytes
  /\ byObj' = FALSE
  /\ IF Parsed(bytes) = NULL
     THEN data_plist' = NULL /\ UNCHANGED <<plistOf, live>>
     ELSE /\ plistOf' = Append(plistOf, Parsed(bytes))
          /\ data_plist' = Len(plistOf')
          /\ live' = live \union {Len(plistOf')}

(* Mutant: a blob that holds no list leaves the released one in place. *)
SetBlob_Dangles(bytes) ==
  /\ data_blob' = bytes
  /\ byObj' = FALSE
  /\ IF Parsed(bytes) = NULL
     THEN live' = live \ {data_plist} /\ UNCHANGED <<plistOf, data_plist>>
     ELSE /\ plistOf' = Append(plistOf, Parsed(bytes))
          /\ data_plist' = Len(plistOf')
          /\ live' = (live \ {data_plist}) \union {Len(plistOf')}

(* data_blob gets new bytes, and update_plist_ustr is called: the old list *)
(* is released, and one is created if the bytes hold one.                  *)
SetBlob(bytes) ==
  /\ data_blob' = bytes
  /\ byObj' = FALSE
  /\ IF Parsed(bytes) = NULL
     THEN data_plist' = NULL /\ live' = live \ {data_plist} /\ UNCHANGED plistOf
     ELSE /\ plistOf' = Append(plistOf, Parsed(bytes))
          /\ data_plist' = Len(plistOf')
          /\ live' = (live \ {data_plist}) \union {Len(plistOf')}

-----------------------------------------------------------------------------
(* The setters and the destructor.                                         *)

Operation ==
  /\ pc = "idle" /\ ops < MaxOps
  /\ ops' = ops + 1
  /\ ret' = 2 /\ fault' = FALSE

(* ds_record_set_filename, _type, _data_type, the scalars and the strings. *)
SetFields ==
  /\ Operation
  /\ \/ filename' \in Names /\ UNCHANGED <<record_type, data_type, data, data_ustr>>
     \/ record_type' \in Types /\ UNCHANGED <<filename, data_type, data, data_ustr>>
     \/ data_type' \in Scalars \union {Blob, Ustr}
        /\ UNCHANGED <<filename, record_type, data, data_ustr>>
     \/ data' \in Scalars \X Values /\ UNCHANGED <<filename, record_type, data_type, data_ustr>>
     \/ data_ustr' \in Values /\ UNCHANGED <<filename, record_type, data_type, data>>
  /\ UNCHANGED <<file, pos, blobvars, pc, reads, broken>>

(* ds_record_set_data_as_blob *)
SetDataAsBlob ==
  /\ Operation
  /\ \E bytes \in Bytes : SetBlob(bytes)
  /\ UNCHANGED <<file, pos, recvars, pc, reads, broken>>

(* ds_record_set_data_as_blob_obj leaves the property list as it is. *)
SetDataAsBlobObj ==
  /\ Operation
  /\ data_blob' \in Bytes
  /\ byObj' = TRUE
  /\ UNCHANGED <<file, pos, recvars, data_plist, plistOf, live, pc, reads, broken>>

(* ds_record_free *)
Free ==
  /\ Operation
  /\ pc' = "freed"
  /\ live' = live \ {data_plist}
  /\ UNCHANGED <<file, pos, recvars, data_blob, data_plist, plistOf, byObj, reads, broken>>

-----------------------------------------------------------------------------
(* ds_record_fread.                                                        *)

Cell == file.cells[pos + 1]

(* One fread that succeeds. *)
Get == pos < Len(file.cells) /\ pos' = pos + 1

Succeed == pc' = "idle" /\ ret' = 0 /\ reads' = reads + 1 /\ UNCHANGED broken

Refuse == pc' = "idle" /\ ret' = 1 /\ broken' = TRUE /\ UNCHANGED reads

Continue(p) == pc' = p /\ UNCHANGED <<ret, reads, broken>>

(* A client reads one record after the other, and may try one again that   *)
(* could not be read, if it goes back to where it begins.                  *)
CallFread ==
  /\ Operation
  /\ pc' = "filename length"
  /\ pos' = IF broken THEN Start(file, reads) ELSE pos
  /\ broken' = FALSE
  /\ UNCHANGED <<file, recvars, blobvars, reads>>

(* A length of 0 is refused. *)
FilenameLength ==
  /\ pc = "filename length" /\ Get
  /\ IF Cell = 0 THEN Refuse ELSE Continue("filename")
  /\ UNCHANGED <<file, recvars, blobvars, fault, ops>>

Filename ==
  /\ pc = "filename" /\ Get
  /\ filename' = Cell
  /\ Continue("record type")
  /\ UNCHANGED <<file, record_type, data_type, data, data_ustr, blobvars, fault, ops>>

RecordType ==
  /\ pc = "record type" /\ Get
  /\ record_type' = Cell
  /\ Continue("data type")
  /\ UNCHANGED <<file, filename, data_type, data, data_ustr, blobvars, fault, ops>>

(* Mutant: two bytes too few are read for a 'shor'. *)
DataType_Short ==
  /\ pc = "data type" /\ Get
  /\ data_type' = Cell
  /\ CASE Cell \in Scalars      -> Continue("scalar")
       [] Cell \in {Blob, Ustr} -> Continue("size")
       [] OTHER                 -> Refuse
  /\ UNCHANGED <<file, filename, record_type, data, data_ustr, blobvars, fault, ops>>

(* The data type that is expected for the record type is only warned of; a *)
(* data type that is not known is refused.                                 *)
DataType ==
  /\ pc = "data type" /\ Get
  /\ data_type' = Cell
  /\ CASE Cell = Shor            -> Continue("leading bytes")
       [] Cell \in Scalars \ {Shor} -> Continue("scalar")
       [] Cell \in {Blob, Ustr}  -> Continue("size")
       [] OTHER                  -> Refuse
  /\ UNCHANGED <<file, filename, record_type, data, data_ustr, blobvars, fault, ops>>

(* The two bytes before a 'shor', whatever they are. *)
LeadingBytes ==
  /\ pc = "leading bytes" /\ Get
  /\ Continue("scalar")
  /\ UNCHANGED <<file, recvars, blobvars, fault, ops>>

(* Mutant: twice the width is read. *)
Scalar_Wide ==
  /\ pc = "scalar"
  /\ pos < Len(file.cells) /\ pos' = pos + 2
  /\ data' = <<data_type, Cell>>
  /\ Succeed
  /\ UNCHANGED <<file, filename, record_type, data_type, data_ustr, blobvars, fault, ops>>

Scalar ==
  /\ pc = "scalar" /\ Get
  /\ data' = <<data_type, Cell>>
  /\ Succeed
  /\ UNCHANGED <<file, filename, record_type, data_type, data_ustr, blobvars, fault, ops>>

(* A size of 0 is refused. *)
Size ==
  /\ pc = "size" /\ Get
  /\ IF Cell = 0 THEN Refuse ELSE Continue("contents")
  /\ UNCHANGED <<file, recvars, blobvars, fault, ops>>

(* Mutant: the property list is not updated. *)
BlobContents_KeepsPlist ==
  /\ pc = "contents" /\ data_type = Blob /\ Get
  /\ data_blob' = Cell
  /\ byObj' = FALSE
  /\ Succeed
  /\ UNCHANGED <<file, recvars, data_plist, plistOf, live, fault, ops>>

BlobContents ==
  /\ pc = "contents" /\ data_type = Blob /\ Get
  /\ SetBlob(Cell)
  /\ Succeed
  /\ UNCHANGED <<file, recvars, fault, ops>>

UstrContents ==
  /\ pc = "contents" /\ data_type = Ustr /\ Get
  /\ data_ustr' = Cell
  /\ Succeed
  /\ UNCHANGED <<file, filename, record_type, data_type, data, blobvars, fault, ops>>

(* The file ends, or the device fails.  A value that is read into the      *)
(* record directly may be garbled; a blob that is read in part is kept,    *)
(* with its property list; so are the characters of a string.              *)
FreadFails ==
  /\ pc \notin {"idle", "freed"}
  /\ fault' = (pos < Len(file.cells))
  /\ CASE pc = "scalar" ->
            /\ data' \in {data} \union ({data_type} \X Values)
            /\ UNCHANGED <<filename, record_type, data_type, data_ustr, blobvars>>
       [] pc = "contents" /\ data_type = Blob ->
            /\ \E bytes \in Partials : SetBlob(bytes)
            /\ UNCHANGED recvars
       [] pc = "contents" /\ data_type = Ustr ->
            /\ data_ustr' \in Values
            /\ UNCHANGED <<filename, record_type, data_type, data, blobvars>>
       [] OTHER -> UNCHANGED <<recvars, blobvars>>
  /\ Refuse
  /\ UNCHANGED <<file, pos, ops>>

Read ==
  \/ FilenameLength \/ Filename \/ RecordType \/ DataType \/ LeadingBytes
  \/ Scalar \/ Size \/ BlobContents \/ UstrContents \/ FreadFails

Next ==
  \/ SetFields \/ SetDataAsBlob \/ SetDataAsBlobObj \/ Free \/ CallFread
  \/ Read

(* ds_record_fread runs to its end. *)
Spec == Init /\ [][Next]_vars /\ WF_vars(Read)

-----------------------------------------------------------------------------
(* Properties.                                                             *)

PCs == {"idle", "freed", "filename length", "filename", "record type",
        "data type", "leading bytes", "scalar", "size", "contents"}

TypeOK ==
  /\ file \in Files /\ pos \in 0 .. Len(file.cells)
  /\ filename \in Nat /\ record_type \in Nat /\ data_type \in Nat
  /\ data \in Scalars \X Nat /\ data_blob \in Nat /\ data_ustr \in Nat
  /\ plistOf \in Seq(Nat) /\ live \subseteq 1 .. Len(plistOf)
  /\ data_plist \in 0 .. Len(plistOf)
  /\ pc \in PCs
  /\ ret \in {0, 1, 2} /\ reads \in Nat /\ ops \in 0 .. MaxOps
  /\ broken \in BOOLEAN /\ fault \in BOOLEAN /\ byObj \in BOOLEAN

(* What the getters and ds_record_copy_dictionary show of the record. *)
Shown ==
  [filename |-> filename, type |-> record_type, data_type |-> data_type,
   data |-> CASE data_type \in Scalars -> IF data[1] = data_type THEN data[2] ELSE NULL
              [] data_type = Blob      -> data_blob
              [] data_type = Ustr      -> data_ustr
              [] OTHER                 -> NULL,
   plist |-> IF data_type = Blob THEN Cached ELSE NULL]

(* When ds_record_fread has returned 0, the record shows the next record   *)
(* of the file and nothing else, whatever was set or read into it before,  *)
(* in part or in full.                                                     *)
ReadShowsTheFile ==
  ret = 0 =>
    /\ reads \in 1 .. Len(file.records)
    /\ LET r == file.records[reads] IN
         Shown = [filename |-> r.filename, type |-> r.type, data_type |-> r.data_type,
                  data |-> r.data, plist |-> IF r.data_type = Blob THEN Parsed(r.data) ELSE NULL]

(* A record that is whole and legal is read, unless the device fails: one  *)
(* call leaves the file where the next record begins.                      *)
WholeRecordIsRead == ret = 1 /\ ~fault => reads = Len(file.records)

(* The one property list that is not released is that of the record, and   *)
(* with the record it goes.                                                *)
PlistsReleased ==
  live = IF pc = "freed" \/ data_plist = NULL THEN {} ELSE {data_plist}

(* The property list is that of the blob, except where the client has set  *)
(* the blob by ds_record_set_data_as_blob_obj; reading heals that.         *)
PlistIsOfBlob == ~byObj => Cached = Parsed(data_blob)

(* The inductive invariant behind these properties.                        *)

(* The n-th cell of the record that is read, and n cells of it are read.   *)
CellOf(n) == file.cells[Start(file, reads) + n]

At(n) == pos = Start(file, reads) + n /\ pos <= Len(file.cells)

(* Where the file stands. *)
Place ==
  /\ pc = "idle" /\ ~broken => At(0)
  /\ pc = "filename length" => At(0)
  /\ pc = "filename" => At(1)
  /\ pc = "record type" => At(2)
  /\ pc = "data type" => At(3)
  /\ pc \in {"leading bytes", "size"} => At(4)
  /\ pc = "scalar" => IF data_type = Shor THEN At(5) ELSE At(4)
  /\ pc = "contents" => At(5)

(* What of the record was accepted. *)
Accepted ==
  /\ pc \notin {"idle", "freed", "filename length"} => CellOf(1) # 0
  /\ pc \in {"record type", "data type", "leading bytes", "scalar", "size", "contents"} =>
       filename = CellOf(2)
  /\ pc \in {"data type", "leading bytes", "scalar", "size", "contents"} =>
       record_type = CellOf(3)
  /\ pc \in {"leading bytes", "scalar", "size", "contents"} => data_type = CellOf(4)
  /\ pc = "leading bytes" => data_type = Shor
  /\ pc = "scalar" => data_type \in Scalars
  /\ pc \in {"size", "contents"} => data_type \in {Blob, Ustr}
  /\ pc = "contents" => CellOf(5) # 0

Progress ==
  /\ Place /\ Accepted
  /\ pc \notin {"idle", "freed"} => ret = 2 /\ ~broken

IInv ==
  /\ TypeOK
  /\ reads <= Len(file.records)
  /\ Progress
  /\ ReadShowsTheFile
  /\ WholeRecordIsRead
  /\ PlistsReleased
  /\ PlistIsOfBlob

=============================================================================
