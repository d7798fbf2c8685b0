------------------------------ MODULE Commands ------------------------------
(***************************************************************************)
(* The two commands of the library, amg_dump_file (amgdump.c) and          *)
(* amg_convert_file (amgconvert.cpp), with the loading of the store they   *)
(* share, ds_store_fread (dsstore.cpp), and main (cli/main.c).             *)
(*                                                                         *)
(* A process either runs main once or, as testReadableFiles does, calls    *)
(* the library several times.  What is modelled is who owns the FILE * and *)
(* the ds_store_t at each exit, what reaches stdout, and the status that   *)
(* is returned.  The n-th call of the process names its FILE * and its     *)
(* ds_store_t n.  The enumeration is a RecordStream (see BlockEnum).       *)
(***************************************************************************)
EXTENDS Naturals, Sequences

CONSTANTS
  Totals,            \* the numbers of records a store may hold
  Argvs,             \* the arguments main may be run with, without argv[0]
  MaxCalls           \* how often a client of the library calls it

ASSUME TotalsAssumption == Totals \subseteq Nat
ASSUME MaxCallsAssumption == MaxCalls \in Nat \ {0}

VARIABLES
  client,            \* "main" or "library": who calls
  argv,              \* the arguments of main
  calls,             \* the calls made so far
  op, format,        \* the function called last and its format argument
  pc,                \* where it is; see PCs
  file, store,       \* its local variables; NULL or the number of the call
  open,              \* the FILE *s that are open
  live,              \* the ds_store_ts that are allocated
  total, out, status,\* the enumeration of the records
  records,           \* amg_convert_file's array of dictionaries
  printed,           \* the records that the call has printed on stdout
  ret                \* what it returned; see Returned

vars == <<client, argv, calls, op, format, pc, file, store, open, live,
          total, out, status, records, printed, ret>>

stream == <<total, out, status>>

Stream == INSTANCE RecordStream

NULL == 0

(* The steps of ds_store_fread that can fail, in their order. *)
Stages == <<"header", "seek allocator", "allocator", "find DSDB",
            "seek header block", "header block">>

StageSet == {Stages[i] : i \in 1 .. Len(Stages)}

PCs == {"main", "idle", "fopen", "enum", "print", "cleanup", "free", "exited",
        "crashed"} \union StageSet

Init ==
  /\ client \in {"main", "library"}
  /\ argv \in Argvs
  /\ pc = IF client = "main" THEN "main" ELSE "idle"
  /\ calls = 0
  /\ op = "none" /\ format = "none"
  /\ file = NULL /\ store = NULL
  /\ open = {} /\ live = {}
  /\ total = 0 /\ out = <<>> /\ status = "running"
  /\ records = <<>> /\ printed = <<>>
  /\ ret = 0

(* A call begins: the file that is named may be any store. *)
CallFn(o, f) ==
  /\ calls' = calls + 1
  /\ op' = o /\ format' = f
  /\ pc' = "fopen"
  /\ file' = NULL /\ store' = NULL
  /\ total' \in Totals /\ out' = <<>> /\ status' = "running"
  /\ records' = <<>> /\ printed' = <<>>
  /\ ret' = 0

(* The function returns r to its caller; main returns it to the shell. *)
Return(r) ==
  /\ ret' = r
  /\ pc' = IF client = "main" THEN "exited" ELSE "idle"

(* amg_convert_file returns: ~shared_ptr closes the file, ~AMCFTypeRef     *)
(* releases the array, and nothing frees the store.                        *)
ReturnConvert(r) ==
  /\ Return(r)
  /\ open' = open \ {file}
  /\ records' = <<>>

Crash == pc' = "crashed"

locals == <<client, argv, calls, op, format>>

-----------------------------------------------------------------------------
(* main.                                                                   *)

(* amalgamate --dump file *)
MainDump ==
  /\ pc = "main"
  /\ Len(argv) = 2 /\ argv[1] = "--dump"
  /\ CallFn("dump", "none")
  /\ UNCHANGED <<client, argv, open, live>>

(* amalgamate --convert format file *)
MainConvert ==
  /\ pc = "main"
  /\ Len(argv) = 3 /\ argv[1] = "--convert"
  /\ CallFn("convert", argv[2])
  /\ UNCHANGED <<client, argv, open, live>>

(* Any other arguments: nothing is done, and nothing is said. *)
MainOther ==
  /\ pc = "main"
  /\ ~(Len(argv) = 2 /\ argv[1] = "--dump")
  /\ ~(Len(argv) = 3 /\ argv[1] = "--convert")
  /\ Return(0)
  /\ UNCHANGED <<locals, file, store, open, live, stream, records, printed>>

(* A client of the library, testReadableFiles for one, makes the next call. *)
LibraryCall ==
  /\ pc = "idle"
  /\ calls < MaxCalls
  /\ \/ CallFn("dump", "none")
     \/ \E f \in {"json", "plist"} : CallFn("convert", f)
  /\ UNCHANGED <<client, argv, open, live>>

-----------------------------------------------------------------------------
(* Opening and loading.                                                    *)

(* amg_convert_file checks the format before it opens anything. *)
RejectFormat ==
  /\ pc = "fopen" /\ op = "convert" /\ format # "json"
  /\ Return(1)
  /\ UNCHANGED <<locals, file, store, open, live, stream, records, printed>>

Fopen ==
  /\ pc = "fopen"
  /\ op = "convert" => format = "json"
  /\ file' = calls
  /\ open' = open \union {calls}
  /\ pc' = Stages[1]
  /\ UNCHANGED <<locals, store, live, stream, records, printed, ret>>

(* amg_dump_file goes to its cleanup, amg_convert_file returns 1. *)
FopenFails ==
  /\ pc = "fopen"
  /\ op = "convert" => format = "json"
  /\ IF op = "dump" THEN ret' = 1 /\ pc' = "cleanup" ELSE Return(1)
  /\ UNCHANGED <<locals, file, store, open, live, stream, records, printed>>

(* ds_store_fread passes a stage; the first one has created the store, the *)
(* last one returns it.                                                    *)
LoadStage ==
  \E i \in 1 .. Len(Stages) :
    /\ pc = Stages[i]
    /\ live' = live \union {calls}
    /\ IF i < Len(Stages)
       THEN pc' = Stages[i + 1] /\ UNCHANGED store
       ELSE pc' = "enum" /\ store' = calls
    /\ UNCHANGED <<locals, file, open, stream, records, printed, ret>>

(* The stages whose error path calls ds_store_free. *)
Frees == {"header", "allocator", "header block"}

(* Mutant: the store that could not be loaded is returned all the same. *)
LoadFails_Returns ==
  /\ pc \in StageSet
  /\ store' = calls
  /\ live' = live \ {calls}
  /\ pc' = "enum"
  /\ UNCHANGED <<locals, file, open, stream, records, printed, ret>>

(* ds_store_fread returns nullptr.  The file stays open, and the stages    *)
(* that do not free the store leave it allocated.                          *)
LoadFails ==
  /\ pc \in StageSet
  /\ live' = IF pc \in Frees THEN live \ {calls} ELSE live \union {calls}
  /\ IF op = "dump"
     THEN ret' = 1 /\ pc' = "cleanup" /\ UNCHANGED <<open, records>>
     ELSE ReturnConvert(1)
  /\ UNCHANGED <<locals, file, store, stream, printed>>

-----------------------------------------------------------------------------
(* The enumeration.                                                        *)

(* record_func: amg_dump_record prints the record at once, the lambda of   *)
(* amg_convert_file appends its dictionary to the array.                   *)
Take(k) ==
  /\ IF op = "dump"
     THEN printed' = Append(printed, k) /\ UNCHANGED records
     ELSE records' = Append(records, k) /\ UNCHANGED printed
  /\ UNCHANGED <<locals, pc, file, store, open, live, ret>>

(* ds_record_copy_dictionary returns nullptr (a date that cannot be        *)
(* converted): both functions pass it on to Core Foundation, which does    *)
(* not accept it.                                                          *)
TakeNull ==
  Crash /\ UNCHANGED <<locals, file, store, open, live, records, printed, ret>>

(* ds_store_enum_records returns 0. *)
Enumerated ==
  /\ pc' = IF op = "dump" THEN "cleanup" ELSE "print"
  /\ UNCHANGED <<locals, file, store, open, live, records, printed, ret>>

(* Mutant: the records read so far are printed. *)
NotEnumerated_Prints ==
  /\ pc' = IF op = "dump" THEN "cleanup" ELSE "print"
  /\ UNCHANGED <<locals, file, store, open, live, records, printed, ret>>

(* ds_store_enum_records returns 1: amg_dump_file does not look at it.     *)
NotEnumerated ==
  /\ IF op = "dump"
     THEN pc' = "cleanup" /\ UNCHANGED <<open, records, ret>>
     ELSE ReturnConvert(1)
  /\ UNCHANGED <<locals, file, store, live, printed>>

EnumRecord == pc = "enum" /\ Stream!Deliver /\ Take(Len(out) + 1)

EnumNullDictionary == pc = "enum" /\ Stream!Deliver /\ TakeNull

EnumDone == pc = "enum" /\ Stream!Finish /\ Enumerated

EnumFails == pc = "enum" /\ Stream!Fail /\ NotEnumerated

(* The whole array is printed, as one property list.  All that is in it is *)
(* of a type that a property list may have, so there is data to print.     *)
PrintRecords ==
  /\ pc = "print"
  /\ printed' = records
  /\ ReturnConvert(0)
  /\ UNCHANGED <<locals, file, store, live, stream>>

-----------------------------------------------------------------------------
(* The cleanup of amg_dump_file.                                           *)

(* Mutant: the error paths of the function skip fclose. *)
CloseFile_OnSuccess ==
  /\ pc = "cleanup"
  /\ file # NULL
  /\ open' = IF ret = 0 THEN open \ {file} ELSE open
  /\ pc' = "free"
  /\ UNCHANGED <<locals, file, store, live, stream, records, printed, ret>>

CloseFile ==
  /\ pc = "cleanup"
  /\ file # NULL
  /\ open' = open \ {file}
  /\ pc' = "free"
  /\ UNCHANGED <<locals, file, store, live, stream, records, printed, ret>>

(* fclose(NULL) is undefined: it may return, and it may not. *)
CloseNull ==
  /\ pc = "cleanup"
  /\ file = NULL
  /\ pc' = "free" \/ Crash
  /\ UNCHANGED <<locals, file, store, open, live, stream, records, printed, ret>>

(* Mutant: the store is not freed. *)
FreeStore_Forgets ==
  /\ pc = "free"
  /\ Return(ret)
  /\ UNCHANGED <<locals, file, store, open, live, stream, records, printed>>

(* ds_store_free(store), where store may be NULL; return ret. *)
FreeStore ==
  /\ pc = "free"
  /\ live' = live \ {store}
  /\ Return(ret)
  /\ UNCHANGED <<locals, file, store, open, stream, records, printed>>

-----------------------------------------------------------------------------
(* All that the process does by itself. *)
Step ==
  \/ MainDump \/ MainConvert \/ MainOther
  \/ RejectFormat \/ Fopen \/ FopenFails \/ LoadStage \/ LoadFails
  \/ EnumRecord \/ EnumNullDictionary \/ EnumDone \/ EnumFails \/ PrintRecords
  \/ CloseFile \/ CloseNull \/ FreeStore

Next == Step \/ LibraryCall

(* One thread runs a call to its end, and the enumeration ends (BlockEnum, *)
(* Terminates); a client of the library need not call again.               *)
SafeSpec == Init /\ [][Next]_vars

Spec == SafeSpec /\ WF_vars(Step)

-----------------------------------------------------------------------------
(* Properties.                                                             *)

TypeOK ==
  /\ client \in {"main", "library"}
  /\ argv \in Argvs
  /\ calls \in 0 .. MaxCalls
  /\ op \in {"none", "dump", "convert"}
  /\ pc \in PCs
  /\ file \in {NULL, calls} /\ store \in {NULL, calls}
  /\ open \subseteq {calls}
  /\ live \subseteq 1 .. calls
  /\ total \in Nat /\ out \in Seq(Nat) /\ status \in Stream!Status
  /\ records \in Seq(Nat) /\ printed \in Seq(Nat)
  /\ ret \in {0, 1}

Returned == calls > 0 /\ pc \in {"idle", "exited"}

All == [k \in 1 .. total |-> k]

(* No call, whichever way it ends, leaves a FILE * open: a process may     *)
(* make any number of calls.                                               *)
FilesClosed == pc \in {"idle", "exited"} => open = {}

(* The file is read while it is open and the store used while it is        *)
(* allocated; neither is closed or freed twice.                            *)
UsedWhileOwned ==
  /\ pc \in StageSet \union {"enum", "print"} => file \in open
  /\ pc \in {"enum", "print"} => store \in live
  /\ pc = "cleanup" /\ file # NULL => file \in open
  /\ pc \in {"cleanup", "free"} /\ store # NULL => store \in live

(* A store that ds_store_fread has returned to amg_dump_file is gone when  *)
(* amg_dump_file returns.                                                  *)
DumpFreesStore == Returned /\ op = "dump" => store \notin live

(* amg_convert_file prints every record, in order, and returns 0, or       *)
(* prints none and returns 1.                                              *)
ConvertAllOrNothing ==
  /\ op = "convert" /\ ~Returned => printed = <<>>
  /\ op = "convert" /\ Returned => printed = IF ret = 0 THEN All ELSE <<>>
  /\ op = "convert" /\ Returned /\ ret = 0 => status = "ok"

(* testReadableFiles takes the status for the answer to whether the file   *)
(* can be read: 0 means that all of it was.                                *)
DumpStatusTellsReadable ==
  op = "dump" /\ Returned /\ ret = 0 => printed = All

(* Every call returns, unless the process crashes in it. *)
EveryCallReturns ==
  pc \notin {"main", "idle", "exited", "crashed"} ~> pc \in {"idle", "exited", "crashed"}

(* The inductive invariant behind these properties.                        *)

(* Which FILE * is open, and which store is in hand, at each step. *)
Ownership ==
  /\ pc \in {"main", "idle", "exited", "fopen", "free"} => open = {}
  /\ pc \in StageSet \union {"enum", "print"} => file = calls /\ open = {calls}
  /\ pc = "cleanup" => open = IF file = NULL THEN {} ELSE {file}
  /\ pc \in {"enum", "print"} => store = calls /\ calls \in live
  /\ pc \in {"cleanup", "free"} /\ store # NULL => store \in live
  /\ pc \in StageSet \union {"main", "fopen"} => store = NULL
  /\ pc \in {"main", "fopen"} => file = NULL

(* Which function may be at which step. *)
Control ==
  /\ pc = "main" => calls = 0
  /\ calls = 0 => op = "none"
  /\ pc \notin {"main", "idle", "exited"} => calls > 0
  /\ pc \in StageSet \union {"fopen", "enum"} => op # "none"
  /\ pc \in {"cleanup", "free"} => op = "dump"
  /\ pc = "print" => op = "convert"

(* What has become of the records handed over so far. *)
Output ==
  /\ out = [k \in 1 .. Len(out) |-> k]
  /\ pc \in StageSet \union {"fopen"} => out = <<>> /\ printed = <<>> /\ records = <<>>
  /\ op = "convert" /\ pc \in {"enum", "print"} => records = out
  /\ pc = "print" => status = "ok" /\ Len(out) = total

IInv ==
  /\ TypeOK
  /\ Ownership
  /\ Control
  /\ Output
  /\ DumpFreesStore
  /\ ConvertAllOrNothing

=============================================================================
