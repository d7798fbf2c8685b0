--------------------------- MODULE CommandsProofs ---------------------------
(***************************************************************************)
(* Theorems about Commands, for any stores, any command lines and any      *)
(* number of calls.  The inductive invariant IInv says, for each step of   *)
(* the two functions, which FILE * is open, which store is in hand and     *)
(* where the records handed over so far have gone.                         *)
(***************************************************************************)
EXTENDS Commands, TLAPS

(* The stages of ds_store_fread are named apart from all other steps. *)
LEMMA StageFacts ==
  /\ StageSet = {"header", "seek allocator", "allocator", "find DSDB",
                 "seek header block", "header block"}
  /\ \A i \in 1 .. Len(Stages) : Stages[i] \in StageSet
  /\ Stages[1] \in StageSet
  /\ \A i \in 1 .. Len(Stages) : i < Len(Stages) => i + 1 \in 1 .. Len(Stages)
<1>1. Len(Stages) = 6
  BY DEF Stages
<1>2. 1 .. 6 = {1, 2, 3, 4, 5, 6}
  OBVIOUS
<1>3. StageSet = {Stages[1], Stages[2], Stages[3], Stages[4], Stages[5], Stages[6]}
  BY <1>1, <1>2 DEF StageSet
<1>4. /\ Stages[1] = "header" /\ Stages[2] = "seek allocator"
      /\ Stages[3] = "allocator" /\ Stages[4] = "find DSDB"
      /\ Stages[5] = "seek header block" /\ Stages[6] = "header block"
  BY DEF Stages
<1>5. \A i \in 1 .. 6 : i < 6 => i + 1 \in 1 .. 6
  OBVIOUS
<1> QED
  BY <1>1, <1>3, <1>4, <1>5 DEF StageSet

LEMMA PCsFacts ==
  PCs = {"main", "idle", "fopen", "enum", "print", "cleanup", "free", "exited",
         "crashed", "header", "seek allocator", "allocator", "find DSDB",
         "seek header block", "header block"}
BY StageFacts DEF PCs

LEMMA InitInv == Init => IInv
<1> SUFFICES ASSUME Init PROVE IInv
  OBVIOUS
<1>1. pc \in {"main", "idle"}
  BY DEF Init
<1>2. TypeOK
  <2>1. calls = 0 /\ 0 \in 0 .. MaxCalls
    BY MaxCallsAssumption DEF Init
  <2>2. pc \in PCs
    BY <1>1, PCsFacts
  <2>3. out = <<>> /\ records = <<>> /\ printed = <<>> /\ <<>> \in Seq(Nat)
    BY DEF Init
  <2>4. total \in Nat /\ status \in Stream!Status
    BY DEF Init, Stream!Status
  <2> QED
    BY <2>1, <2>2, <2>3, <2>4 DEF Init, TypeOK, NULL
<1>3. Ownership /\ Control
  BY <1>1, StageFacts DEF Init, Ownership, Control, NULL
<1>4. Output
  <2>1. out = <<>> /\ Len(out) = 0 /\ pc \notin StageSet /\ op = "none"
    BY <1>1, StageFacts DEF Init
  <2> QED
    BY <1>1, <2>1 DEF Output
<1>5. DumpFreesStore /\ ConvertAllOrNothing
  BY DEF Init, DumpFreesStore, ConvertAllOrNothing, Returned
<1> QED
  BY <1>2, <1>3, <1>4, <1>5 DEF IInv

(* A call begins with nothing open, nothing read and nothing printed. *)
LEMMA CallInv ==
  ASSUME IInv, NEW o \in {"dump", "convert"}, NEW f, CallFn(o, f),
         calls < MaxCalls, pc \in {"main", "idle"},
         UNCHANGED <<client, argv, open, live>>
  PROVE  IInv'
<1>1. /\ TypeOK /\ open = {} /\ live \subseteq 1 .. calls /\ calls \in Nat
  BY MaxCallsAssumption DEF IInv, TypeOK, Ownership
<1>2. /\ calls' = calls + 1 /\ op' = o /\ pc' = "fopen" /\ file' = NULL
      /\ store' = NULL /\ total' \in Totals /\ out' = <<>> /\ status' = "running"
      /\ records' = <<>> /\ printed' = <<>> /\ ret' = 0 /\ open' = {} /\ live' = live
      /\ client' = client /\ argv' = argv
  BY <1>1 DEF CallFn
<1>3. calls' \in 0 .. MaxCalls /\ live' \subseteq 1 .. calls' /\ calls' > 0
  BY <1>1, <1>2, MaxCallsAssumption
<1>4. TypeOK'
  <2>1. pc' \in PCs
    BY <1>2, PCsFacts
  <2>2. out' \in Seq(Nat) /\ records' \in Seq(Nat) /\ printed' \in Seq(Nat)
    BY <1>2
  <2>3. total' \in Nat /\ status' \in Stream!Status
    BY <1>2, TotalsAssumption DEF Stream!Status
  <2>4. TypeOK
    BY DEF IInv
  <2> QED
    BY <1>2, <1>3, <2>1, <2>2, <2>3, <2>4 DEF TypeOK
<1>5. Ownership' /\ Control'
  <2>1. pc' = "fopen" /\ pc' \notin StageSet
    BY <1>2, StageFacts
  <2>2. Ownership'
    BY <1>2, <2>1 DEF Ownership
  <2>3. Control'
    BY <1>2, <1>3, <2>1 DEF Control
  <2> QED
    BY <2>2, <2>3
<1>6. Output'
  BY <1>2 DEF Output
<1>7. DumpFreesStore' /\ ConvertAllOrNothing'
  BY <1>2 DEF DumpFreesStore, ConvertAllOrNothing, Returned
<1> QED
  BY <1>4, <1>5, <1>6, <1>7 DEF IInv

-----------------------------------------------------------------------------
(* The other steps, one lemma each.                                        *)

(* The names of the steps that are not stages. *)
LEMMA PcFacts ==
  \A p \in {"main", "idle", "fopen", "enum", "print", "cleanup", "free",
            "exited", "crashed"} : p \notin StageSet /\ p \in PCs
BY StageFacts, PCsFacts

(* Arguments that main does not know: it returns without calling anything. *)
LEMMA MainOtherInv ==
  ASSUME IInv, MainOther
  PROVE  IInv'
<1>1. /\ TypeOK /\ Ownership /\ Control /\ Output
      /\ DumpFreesStore /\ ConvertAllOrNothing
  BY DEF IInv
<1>2. /\ pc = "main" /\ pc' \in {"idle", "exited"} /\ ret' = 0
      /\ UNCHANGED <<client, argv, calls, op, format, file, store, open, live, total, out,
                      status, records, printed>>
  BY <1>1, PcFacts, StageFacts DEF MainOther, Return, locals, stream
<1>3. TypeOK'
  BY <1>1, <1>2, PcFacts DEF TypeOK, Ownership, Control, Stream!Status
<1>4. Ownership'
  BY <1>1, <1>2, PcFacts DEF TypeOK, Ownership, Control, NULL
<1>5. Control'
  BY <1>1, <1>2, PcFacts DEF Control
<1>6. Output'
  BY <1>1, <1>2, PcFacts DEF Output
<1>7. DumpFreesStore' /\ ConvertAllOrNothing'
  BY <1>1, <1>2, PcFacts
  DEF TypeOK, Ownership, Control, Output, DumpFreesStore,
      ConvertAllOrNothing, Returned, All
<1> QED
  BY <1>3, <1>4, <1>5, <1>6, <1>7 DEF IInv

(* A format that is not supported: nothing was opened. *)
LEMMA RejectFormatInv ==
  ASSUME IInv, RejectFormat
  PROVE  IInv'
<1>1. /\ TypeOK /\ Ownership /\ Control /\ Output
      /\ DumpFreesStore /\ ConvertAllOrNothing
  BY DEF IInv
<1>2. /\ pc = "fopen" /\ op = "convert" /\ pc' \in {"idle", "exited"} /\ ret' = 1
      /\ UNCHANGED <<client, argv, calls, op, format, file, store, open, live, total, out,
                      status, records, printed>>
  BY <1>1, PcFacts, StageFacts DEF RejectFormat, Return, locals, stream
<1>3. TypeOK'
  BY <1>1, <1>2, PcFacts DEF TypeOK, Ownership, Control, Stream!Status
<1>4. Ownership'
  BY <1>1, <1>2, PcFacts DEF TypeOK, Ownership, Control, NULL
<1>5. Control'
  BY <1>1, <1>2, PcFacts DEF Control
<1>6. Output'
  BY <1>1, <1>2, PcFacts DEF Output
<1>7. DumpFreesStore' /\ ConvertAllOrNothing'
  BY <1>1, <1>2, PcFacts
  DEF TypeOK, Ownership, Control, Output, DumpFreesStore,
      ConvertAllOrNothing, Returned, All
<1> QED
  BY <1>3, <1>4, <1>5, <1>6, <1>7 DEF IInv

(* The file of this call is the only one that is open. *)
LEMMA FopenInv ==
  ASSUME IInv, Fopen
  PROVE  IInv'
<1>1. /\ TypeOK /\ Ownership /\ Control /\ Output
      /\ DumpFreesStore /\ ConvertAllOrNothing
  BY DEF IInv
<1>2. /\ pc = "fopen" /\ pc' \in StageSet /\ pc' \in PCs
      /\ file' = calls /\ open' = {calls}
      /\ UNCHANGED <<client, argv, calls, op, format, store, live, total, out, status,
                      records, printed, ret>>
  BY <1>1, PcFacts, StageFacts DEF Fopen, Ownership, PCs, locals, stream
<1>3. TypeOK'
  BY <1>1, <1>2, PcFacts DEF TypeOK, Ownership, Control, Stream!Status
<1>4. Ownership'
  BY <1>1, <1>2, PcFacts DEF TypeOK, Ownership, Control, NULL
<1>5. Control'
  BY <1>1, <1>2, PcFacts DEF Control
<1>6. Output'
  BY <1>1, <1>2, PcFacts DEF Output
<1>7. DumpFreesStore' /\ ConvertAllOrNothing'
  BY <1>1, <1>2, PcFacts
  DEF TypeOK, Ownership, Control, Output, DumpFreesStore,
      ConvertAllOrNothing, Returned, All
<1> QED
  BY <1>3, <1>4, <1>5, <1>6, <1>7 DEF IInv

(* amg_dump_file goes on to its cleanup without a FILE *. *)
LEMMA FopenFailsInv ==
  ASSUME IInv, FopenFails
  PROVE  IInv'
<1>1. /\ TypeOK /\ Ownership /\ Control /\ Output
      /\ DumpFreesStore /\ ConvertAllOrNothing
  BY DEF IInv
<1>2. /\ pc = "fopen"
      /\ \/ op = "dump" /\ pc' = "cleanup"
         \/ op = "convert" /\ pc' \in {"idle", "exited"}
      /\ ret' = 1
      /\ UNCHANGED <<client, argv, calls, op, format, file, store, open, live, total, out,
                      status, records, printed>>
  BY <1>1, PcFacts, StageFacts DEF FopenFails, Return, Control, TypeOK, locals, stream
<1>3. TypeOK'
  BY <1>1, <1>2, PcFacts DEF TypeOK, Ownership, Control, Stream!Status
<1>4. Ownership'
  BY <1>1, <1>2, PcFacts DEF TypeOK, Ownership, Control, NULL
<1>5. Control'
  BY <1>1, <1>2, PcFacts DEF Control
<1>6. Output'
  BY <1>1, <1>2, PcFacts DEF Output
<1>7. DumpFreesStore' /\ ConvertAllOrNothing'
  BY <1>1, <1>2, PcFacts
  DEF TypeOK, Ownership, Control, Output, DumpFreesStore,
      ConvertAllOrNothing, Returned, All
<1> QED
  BY <1>3, <1>4, <1>5, <1>6, <1>7 DEF IInv

(* Each stage of ds_store_fread keeps what the call owns. *)
LEMMA LoadStageInv ==
  ASSUME IInv, LoadStage
  PROVE  IInv'
<1>1. /\ TypeOK /\ Ownership /\ Control /\ Output
      /\ DumpFreesStore /\ ConvertAllOrNothing
  BY DEF IInv
<1>2. /\ pc \in StageSet
      /\ \/ pc' \in StageSet /\ pc' \in PCs /\ store' = store
         \/ pc' = "enum" /\ store' = calls
      /\ live' = live \union {calls}
      /\ UNCHANGED <<client, argv, calls, op, format, file, open, total, out, status,
                      records, printed, ret>>
  <2>1. PICK i \in 1 .. Len(Stages) :
           /\ pc = Stages[i]
           /\ live' = live \union {calls}
           /\ IF i < Len(Stages)
              THEN pc' = Stages[i + 1] /\ UNCHANGED store
              ELSE pc' = "enum" /\ store' = calls
           /\ UNCHANGED <<locals, file, open, stream, records, printed, ret>>
    BY DEF LoadStage
  <2>2. i < Len(Stages) => i + 1 \in 1 .. Len(Stages)
    BY StageFacts
  <2>3. \A j \in 1 .. Len(Stages) : Stages[j] \in StageSet /\ Stages[j] \in PCs
    BY StageFacts DEF PCs
  <2> QED
    BY <2>1, <2>2, <2>3 DEF locals, stream
<1>3. TypeOK'
  BY <1>1, <1>2, PcFacts DEF TypeOK, Ownership, Control, Stream!Status
<1>4. Ownership'
  BY <1>1, <1>2, PcFacts DEF TypeOK, Ownership, Control, NULL
<1>5. Control'
  BY <1>1, <1>2, PcFacts DEF Control
<1>6. Output'
  BY <1>1, <1>2, PcFacts DEF Output
<1>7. DumpFreesStore' /\ ConvertAllOrNothing'
  BY <1>1, <1>2, PcFacts
  DEF TypeOK, Ownership, Control, Output, DumpFreesStore,
      ConvertAllOrNothing, Returned, All
<1> QED
  BY <1>3, <1>4, <1>5, <1>6, <1>7 DEF IInv

(* ds_store_fread returns nullptr: the call is left without a store. *)
LEMMA LoadFailsInv ==
  ASSUME IInv, LoadFails
  PROVE  IInv'
<1>1. /\ TypeOK /\ Ownership /\ Control /\ Output
      /\ DumpFreesStore /\ ConvertAllOrNothing
  BY DEF IInv
<1>2. /\ pc \in StageSet
      /\ live' \subseteq live \union {calls}
      /\ \/ op = "dump" /\ pc' = "cleanup" /\ UNCHANGED <<open, records>>
         \/ op = "convert" /\ pc' \in {"idle", "exited"} /\ open' = {} /\ records' = <<>>
      /\ ret' = 1
      /\ UNCHANGED <<client, argv, calls, op, format, file, store, total, out, status, printed>>
  BY <1>1, PcFacts, StageFacts DEF LoadFails, ReturnConvert, Return, Control, Ownership, TypeOK, locals, stream
<1>3. TypeOK'
  <2>1. records \in Seq(Nat) /\ <<>> \in Seq(Nat)
    BY <1>1 DEF TypeOK
  <2>2. records' \in Seq(Nat)
    BY <1>2, <2>1
  <2>3. pc' \in PCs
    BY <1>2, PcFacts
  <2>4. calls \in Nat /\ calls > 0 /\ live \subseteq 1 .. calls
    <3>1. pc \notin {"main", "idle", "exited"}
      BY <1>2, PcFacts
    <3>2. calls > 0
      BY <1>1, <3>1 DEF Control
    <3>3. calls \in 0 .. MaxCalls /\ live \subseteq 1 .. calls
      BY <1>1 DEF TypeOK
    <3> QED
      BY <3>2, <3>3, MaxCallsAssumption
  <2>5. calls \in 1 .. calls
    BY <2>4
  <2>6. live' \subseteq 1 .. calls
    BY <1>2, <2>4, <2>5
  <2>7. open' \subseteq {calls}
    BY <1>1, <1>2 DEF TypeOK
  <2> QED
    BY <1>1, <1>2, <2>2, <2>3, <2>6, <2>7 DEF TypeOK, Stream!Status
<1>4. Ownership'
  BY <1>1, <1>2, PcFacts DEF TypeOK, Ownership, Control, NULL
<1>5. Control'
  BY <1>1, <1>2, PcFacts DEF Control
<1>6. Output'
  BY <1>1, <1>2, PcFacts DEF Output
<1>7. DumpFreesStore' /\ ConvertAllOrNothing'
  BY <1>1, <1>2, PcFacts
  DEF TypeOK, Ownership, Control, Output, DumpFreesStore,
      ConvertAllOrNothing, Returned, All
<1> QED
  BY <1>3, <1>4, <1>5, <1>6, <1>7 DEF IInv

(* The next record goes to stdout or into the array. *)
LEMMA EnumRecordInv ==
  ASSUME IInv, EnumRecord
  PROVE  IInv'
<1>1. /\ TypeOK /\ Ownership /\ Control /\ Output
      /\ DumpFreesStore /\ ConvertAllOrNothing
  BY DEF IInv
<1>2. /\ pc = "enum" /\ status = "running"
      /\ out' = Append(out, Len(out) + 1)
      /\ \/ op = "dump" /\ printed' = Append(printed, Len(out) + 1) /\ records' = records
         \/ /\ op = "convert" /\ records' = Append(records, Len(out) + 1)
            /\ printed' = printed
      /\ UNCHANGED <<client, argv, calls, op, format, pc, file, store, open, live, total,
                      status, ret>>
  BY <1>1, PcFacts, StageFacts DEF EnumRecord, Take, Stream!Deliver, Control, TypeOK, locals
<1>3. TypeOK'
  <2>1. out \in Seq(Nat) /\ records \in Seq(Nat) /\ printed \in Seq(Nat)
    BY <1>1 DEF TypeOK
  <2>2. Len(out) + 1 \in Nat
    BY <2>1
  <2>3. /\ out' \in Seq(Nat)
        /\ Append(printed, Len(out) + 1) \in Seq(Nat)
        /\ Append(records, Len(out) + 1) \in Seq(Nat)
    BY <1>2, <2>1, <2>2
  <2>4. records' \in Seq(Nat) /\ printed' \in Seq(Nat)
    BY <1>2, <2>1, <2>3
  <2> QED
    BY <1>1, <1>2, <2>3, <2>4 DEF TypeOK
<1>4. Ownership'
  BY <1>1, <1>2, PcFacts DEF TypeOK, Ownership, Control, NULL
<1>5. Control'
  BY <1>1, <1>2, PcFacts DEF Control
<1>6. Output'
  BY <1>1, <1>2, PcFacts DEF Output
<1>7. DumpFreesStore' /\ ConvertAllOrNothing'
  BY <1>1, <1>2, PcFacts
  DEF TypeOK, Ownership, Control, Output, DumpFreesStore,
      ConvertAllOrNothing, Returned, All
<1> QED
  BY <1>3, <1>4, <1>5, <1>6, <1>7 DEF IInv

LEMMA EnumNullDictionaryInv ==
  ASSUME IInv, EnumNullDictionary
  PROVE  IInv'
<1>1. /\ TypeOK /\ Ownership /\ Control /\ Output
      /\ DumpFreesStore /\ ConvertAllOrNothing
  BY DEF IInv
<1>2. /\ pc = "enum" /\ pc' = "crashed"
      /\ out' = Append(out, Len(out) + 1)
      /\ UNCHANGED <<client, argv, calls, op, format, file, store, open, live, total,
                      status, records, printed, ret>>
  BY <1>1, PcFacts, StageFacts DEF EnumNullDictionary, TakeNull, Stream!Deliver, Crash, locals
<1>3. TypeOK'
  BY <1>1, <1>2, PcFacts DEF TypeOK, Ownership, Control, Stream!Status
<1>4. Ownership'
  BY <1>1, <1>2, PcFacts DEF TypeOK, Ownership, Control, NULL
<1>5. Control'
  BY <1>1, <1>2, PcFacts DEF Control
<1>6. Output'
  BY <1>1, <1>2, PcFacts DEF Output
<1>7. DumpFreesStore' /\ ConvertAllOrNothing'
  BY <1>1, <1>2, PcFacts
  DEF TypeOK, Ownership, Control, Output, DumpFreesStore,
      ConvertAllOrNothing, Returned, All
<1> QED
  BY <1>3, <1>4, <1>5, <1>6, <1>7 DEF IInv

(* The enumeration is complete. *)
LEMMA EnumDoneInv ==
  ASSUME IInv, EnumDone
  PROVE  IInv'
<1>1. /\ TypeOK /\ Ownership /\ Control /\ Output
      /\ DumpFreesStore /\ ConvertAllOrNothing
  BY DEF IInv
<1>2. /\ pc = "enum" /\ status' = "ok" /\ Len(out) = total
      /\ \/ op = "dump" /\ pc' = "cleanup"
         \/ op = "convert" /\ pc' = "print"
      /\ UNCHANGED <<client, argv, calls, op, format, file, store, open, live, total, out,
                      records, printed, ret>>
  BY <1>1, PcFacts, StageFacts DEF EnumDone, Enumerated, Stream!Finish, Control, TypeOK, locals
<1>3. TypeOK'
  BY <1>1, <1>2, PcFacts DEF TypeOK, Ownership, Control, Stream!Status
<1>4. Ownership'
  BY <1>1, <1>2, PcFacts DEF TypeOK, Ownership, Control, NULL
<1>5. Control'
  BY <1>1, <1>2, PcFacts DEF Control
<1>6. Output'
  BY <1>1, <1>2, PcFacts DEF Output
<1>7. DumpFreesStore' /\ ConvertAllOrNothing'
  BY <1>1, <1>2, PcFacts
  DEF TypeOK, Ownership, Control, Output, DumpFreesStore,
      ConvertAllOrNothing, Returned, All
<1> QED
  BY <1>3, <1>4, <1>5, <1>6, <1>7 DEF IInv

(* The enumeration has failed: amg_convert_file drops the array. *)
LEMMA EnumFailsInv ==
  ASSUME IInv, EnumFails
  PROVE  IInv'
<1>1. /\ TypeOK /\ Ownership /\ Control /\ Output
      /\ DumpFreesStore /\ ConvertAllOrNothing
  BY DEF IInv
<1>2. /\ pc = "enum" /\ status' = "error"
      /\ \/ op = "dump" /\ pc' = "cleanup" /\ UNCHANGED <<open, records, ret>>
         \/ /\ op = "convert" /\ pc' \in {"idle", "exited"} /\ ret' = 1
            /\ open' = {} /\ records' = <<>>
      /\ UNCHANGED <<client, argv, calls, op, format, file, store, live, total, out, printed>>
  BY <1>1, PcFacts, StageFacts DEF EnumFails, NotEnumerated, Stream!Fail, ReturnConvert, Return, Control, Ownership, TypeOK, locals
<1>3. TypeOK'
  <2>1. records \in Seq(Nat) /\ <<>> \in Seq(Nat)
    BY <1>1 DEF TypeOK
  <2>2. records' \in Seq(Nat)
    BY <1>2, <2>1
  <2>3. pc' \in PCs
    BY <1>2, PcFacts
  <2>4. open' \subseteq {calls} /\ live' \subseteq 1 .. calls
    BY <1>1, <1>2, PcFacts DEF TypeOK, Control
  <2> QED
    BY <1>1, <1>2, <2>2, <2>3, <2>4 DEF TypeOK, Stream!Status
<1>4. Ownership'
  BY <1>1, <1>2, PcFacts DEF TypeOK, Ownership, Control, NULL
<1>5. Control'
  BY <1>1, <1>2, PcFacts DEF Control
<1>6. Output'
  BY <1>1, <1>2, PcFacts DEF Output
<1>7. DumpFreesStore' /\ ConvertAllOrNothing'
  BY <1>1, <1>2, PcFacts
  DEF TypeOK, Ownership, Control, Output, DumpFreesStore,
      ConvertAllOrNothing, Returned, All
<1> QED
  BY <1>3, <1>4, <1>5, <1>6, <1>7 DEF IInv

LEMMA PrintInv ==
  ASSUME IInv, PrintRecords
  PROVE  IInv'
<1>1. /\ TypeOK /\ Ownership /\ Control /\ Output
      /\ DumpFreesStore /\ ConvertAllOrNothing
  BY DEF IInv
<1>2. /\ pc = "print" /\ op = "convert" /\ pc' \in {"idle", "exited"} /\ ret' = 0
      /\ printed' = records /\ open' = {} /\ records' = <<>>
      /\ UNCHANGED <<client, argv, calls, op, format, file, store, live, total, out, status>>
  BY <1>1, PcFacts, StageFacts DEF PrintRecords, ReturnConvert, Return, Control, Ownership, locals, stream
<1>3. TypeOK'
  BY <1>1, <1>2, PcFacts DEF TypeOK, Ownership, Control, Stream!Status
<1>4. Ownership'
  BY <1>1, <1>2, PcFacts DEF TypeOK, Ownership, Control, NULL
<1>5. Control'
  BY <1>1, <1>2, PcFacts DEF Control
<1>6. Output'
  BY <1>1, <1>2, PcFacts DEF Output
<1>7. DumpFreesStore' /\ ConvertAllOrNothing'
  BY <1>1, <1>2, PcFacts
  DEF TypeOK, Ownership, Control, Output, DumpFreesStore,
      ConvertAllOrNothing, Returned, All
<1> QED
  BY <1>3, <1>4, <1>5, <1>6, <1>7 DEF IInv

(* The cleanup of amg_dump_file. *)
LEMMA CloseFileInv ==
  ASSUME IInv, CloseFile
  PROVE  IInv'
<1>1. /\ TypeOK /\ Ownership /\ Control /\ Output
      /\ DumpFreesStore /\ ConvertAllOrNothing
  BY DEF IInv
<1>2. /\ pc = "cleanup" /\ file # NULL /\ pc' = "free" /\ open' = open \ {file}
      /\ UNCHANGED <<client, argv, calls, op, format, file, store, live, total, out,
                      status, records, printed, ret>>
  BY <1>1, PcFacts, StageFacts DEF CloseFile, locals, stream
<1>3. TypeOK'
  BY <1>1, <1>2, PcFacts DEF TypeOK, Ownership, Control, Stream!Status
<1>4. Ownership'
  BY <1>1, <1>2, PcFacts DEF TypeOK, Ownership, Control, NULL
<1>5. Control'
  BY <1>1, <1>2, PcFacts DEF Control
<1>6. Output'
  BY <1>1, <1>2, PcFacts DEF Output
<1>7. DumpFreesStore' /\ ConvertAllOrNothing'
  BY <1>1, <1>2, PcFacts
  DEF TypeOK, Ownership, Control, Output, DumpFreesStore,
      ConvertAllOrNothing, Returned, All
<1> QED
  BY <1>3, <1>4, <1>5, <1>6, <1>7 DEF IInv

LEMMA CloseNullInv ==
  ASSUME IInv, CloseNull
  PROVE  IInv'
<1>1. /\ TypeOK /\ Ownership /\ Control /\ Output
      /\ DumpFreesStore /\ ConvertAllOrNothing
  BY DEF IInv
<1>2. /\ pc = "cleanup" /\ file = NULL /\ pc' \in {"free", "crashed"}
      /\ UNCHANGED <<client, argv, calls, op, format, file, store, open, live, total, out,
                      status, records, printed, ret>>
  BY <1>1, PcFacts, StageFacts DEF CloseNull, Crash, locals, stream
<1>3. TypeOK'
  BY <1>1, <1>2, PcFacts DEF TypeOK, Ownership, Control, Stream!Status
<1>4. Ownership'
  BY <1>1, <1>2, PcFacts DEF TypeOK, Ownership, Control, NULL
<1>5. Control'
  BY <1>1, <1>2, PcFacts DEF Control
<1>6. Output'
  BY <1>1, <1>2, PcFacts DEF Output
<1>7. DumpFreesStore' /\ ConvertAllOrNothing'
  BY <1>1, <1>2, PcFacts
  DEF TypeOK, Ownership, Control, Output, DumpFreesStore,
      ConvertAllOrNothing, Returned, All
<1> QED
  BY <1>3, <1>4, <1>5, <1>6, <1>7 DEF IInv

LEMMA FreeStoreInv ==
  ASSUME IInv, FreeStore
  PROVE  IInv'
<1>1. /\ TypeOK /\ Ownership /\ Control /\ Output
      /\ DumpFreesStore /\ ConvertAllOrNothing
  BY DEF IInv
<1>2. /\ pc = "free" /\ op = "dump" /\ pc' \in {"idle", "exited"} /\ live' = live \ {store}
      /\ ret' = ret
      /\ UNCHANGED <<client, argv, calls, op, format, file, store, open, total, out,
                      status, records, printed>>
  BY <1>1, PcFacts, StageFacts DEF FreeStore, Return, Control, locals, stream
<1>3. TypeOK'
  BY <1>1, <1>2, PcFacts DEF TypeOK, Ownership, Control, Stream!Status
<1>4. Ownership'
  BY <1>1, <1>2, PcFacts DEF TypeOK, Ownership, Control, NULL
<1>5. Control'
  BY <1>1, <1>2, PcFacts DEF Control
<1>6. Output'
  BY <1>1, <1>2, PcFacts DEF Output
<1>7. DumpFreesStore' /\ ConvertAllOrNothing'
  BY <1>1, <1>2, PcFacts
  DEF TypeOK, Ownership, Control, Output, DumpFreesStore,
      ConvertAllOrNothing, Returned, All
<1> QED
  BY <1>3, <1>4, <1>5, <1>6, <1>7 DEF IInv

-----------------------------------------------------------------------------
(* The theorems.                                                           *)

LEMMA StepInv ==
  ASSUME IInv, Next
  PROVE  IInv'
<1>1. CASE MainDump
  <2>1. pc = "main" /\ CallFn("dump", "none") /\ UNCHANGED <<client, argv, open, live>>
    BY <1>1 DEF MainDump
  <2>2. calls < MaxCalls
    BY <2>1, MaxCallsAssumption DEF IInv, Control
  <2> QED
    BY <2>1, <2>2, CallInv
<1>2. CASE MainConvert
  <2>1. pc = "main" /\ CallFn("convert", argv[2]) /\ UNCHANGED <<client, argv, open, live>>
    BY <1>2 DEF MainConvert
  <2>2. calls < MaxCalls
    BY <2>1, MaxCallsAssumption DEF IInv, Control
  <2> QED
    BY <2>1, <2>2, CallInv
<1>3. CASE LibraryCall
  <2>1. /\ pc = "idle" /\ calls < MaxCalls /\ UNCHANGED <<client, argv, open, live>>
        /\ \E o \in {"dump", "convert"}, f \in {"none", "json", "plist"} : CallFn(o, f)
    BY <1>3 DEF LibraryCall
  <2> QED
    BY <2>1, CallInv
<1>4. CASE Step /\ ~MainDump /\ ~MainConvert
  BY <1>4, MainOtherInv, RejectFormatInv, FopenInv, FopenFailsInv, LoadStageInv,
     LoadFailsInv, EnumRecordInv, EnumNullDictionaryInv, EnumDoneInv,
     EnumFailsInv, PrintInv, CloseFileInv, CloseNullInv, FreeStoreInv
  DEF Step
<1> QED
  BY <1>1, <1>2, <1>3, <1>4 DEF Next

LEMMA StutterInv ==
  ASSUME IInv, UNCHANGED vars
  PROVE  IInv'
<1>1. UNCHANGED <<client, argv, calls, op, format, pc, file, store, open, live,
                  total, out, status, records, printed, ret>>
  BY DEF vars
<1>2. TypeOK'
  BY <1>1 DEF IInv, TypeOK
<1>3. Ownership' /\ Control' /\ Output'
  <2>1. Ownership'
    BY <1>1 DEF IInv, Ownership
  <2>2. Control'
    BY <1>1 DEF IInv, Control
  <2>3. Output'
    BY <1>1 DEF IInv, Output
  <2> QED
    BY <2>1, <2>2, <2>3
<1>4. DumpFreesStore'
  BY <1>1 DEF IInv, DumpFreesStore, Returned
<1>5. ConvertAllOrNothing'
  BY <1>1 DEF IInv, ConvertAllOrNothing, Returned, All
<1> QED
  BY <1>2, <1>3, <1>4, <1>5 DEF IInv

(* The invariant holds in every reachable state, also of a program that    *)
(* implements the commands and has a fairness of its own.                  *)
THEOREM SafeInvariance == SafeSpec => []IInv
<1>1. Init => IInv
  BY InitInv
<1>2. IInv /\ [Next]_vars => IInv'
  BY StepInv, StutterInv
<1> QED
  BY <1>1, <1>2, PTL DEF SafeSpec

(* The invariant holds in every reachable state. *)
THEOREM Invariance == Spec => []IInv
BY SafeInvariance, PTL DEF Spec

(* No more than the running call's FILE * is ever open, a store is that of *)
(* a call made, and the rest keeps its type.                               *)
THEOREM TypeCorrect == Spec => []TypeOK
<1>1. IInv => TypeOK
  BY DEF IInv
<1> QED
  BY <1>1, Invariance, PTL

(* However many calls are made and however they end, each closes its file. *)
THEOREM FilesAlwaysClosed == Spec => []FilesClosed
<1>1. IInv => FilesClosed
  BY DEF IInv, Ownership, FilesClosed
<1> QED
  BY <1>1, Invariance, PTL

(* No FILE * is read or closed after it was closed, and no store is used   *)
(* or freed after it was freed.                                            *)
THEOREM NothingUsedAfterRelease == Spec => []UsedWhileOwned
<1>1. IInv => UsedWhileOwned
  BY DEF IInv, Ownership, UsedWhileOwned
<1> QED
  BY <1>1, Invariance, PTL

(* amg_dump_file frees the store it was given on every path. *)
THEOREM DumpReleasesStore == Spec => []DumpFreesStore
<1>1. IInv => DumpFreesStore
  BY DEF IInv
<1> QED
  BY <1>1, Invariance, PTL

(* The output of amg_convert_file is complete when it returns 0 and empty  *)
(* when it does not, for any number of records and any failure.            *)
THEOREM ConvertIsAtomic == Spec => []ConvertAllOrNothing
<1>1. IInv => ConvertAllOrNothing
  BY DEF IInv
<1> QED
  BY <1>1, Invariance, PTL

=============================================================================
