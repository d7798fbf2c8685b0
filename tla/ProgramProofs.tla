---------------------------- MODULE ProgramProofs ----------------------------
(***************************************************************************)
(* The commands with the real walk implement the commands with a record    *)
(* stream: what CommandsProofs proves of the one holds of the other.       *)
(***************************************************************************)
EXTENDS Program, TLAPS

(* The walk with what is proved of it.  Its definitions are those of Walk, *)
(* which the first lemmas say where it matters.                            *)
WP == INSTANCE BlockEnumProofs WITH file <- tree, ret <- enumret

LEMMA WalkAssumption == \A f \in Files : WP!WellFormed(f)
  BY FilesAssumption DEF Walk!WellFormed, WP!WellFormed, Walk!Nodes,
     WP!Nodes, Walk!NodeType, WP!NodeType, Walk!RecordCount, WP!RecordCount,
     Walk!IsLeaf, WP!IsLeaf, Walk!Child, WP!Child, Walk!Valid, WP!Valid,
     Walk!LeafOK, WP!LeafOK, Walk!InternalOK, WP!InternalOK

(* A step that the command does not see is one of the walk; the activation *)
(* it ends in runs.                                                        *)
LEMMA WalkStepIsWalk ==
  ASSUME WalkStep
  PROVE  /\ WP!Next /\ stack # <<>> /\ enumret' = "none" /\ UNCHANGED <<tree, out>>
         /\ pc = "enum" /\ UNCHANGED command
<1>1. Walk!SeekToBlock => WP!SeekToBlock
  BY DEF Walk!SeekToBlock, WP!SeekToBlock, Walk!At, WP!At, Walk!Top, WP!Top,
     Walk!SetTop, WP!SetTop
<1>2. Walk!ReadNodeType => WP!ReadNodeType
  BY DEF Walk!ReadNodeType, WP!ReadNodeType, Walk!At, WP!At, Walk!Top, WP!Top,
     Walk!SetTop, WP!SetTop, Walk!Cell, WP!Cell, Walk!Advance, WP!Advance
<1>3. Walk!ReadRecordCount => WP!ReadRecordCount
  BY DEF Walk!ReadRecordCount, WP!ReadRecordCount, Walk!At, WP!At, Walk!Top,
     WP!Top, Walk!SetTop, WP!SetTop, Walk!Cell, WP!Cell, Walk!Advance,
     WP!Advance
<1>4. Walk!ReadChild => WP!ReadChild
  BY DEF Walk!ReadChild, WP!ReadChild, Walk!At, WP!At, Walk!Top, WP!Top,
     Walk!SetTop, WP!SetTop, Walk!Cell, WP!Cell, Walk!Advance, WP!Advance,
     Walk!Call, WP!Call, Walk!NewFrame, WP!NewFrame
<1>5. Walk!ChildDone => WP!ChildDone
  BY DEF Walk!ChildDone, WP!ChildDone, Walk!Back, WP!Back, Walk!Top, WP!Top,
     Walk!SetTop, WP!SetTop
<1>6. Walk!ReadRecord => WP!ReadRecord
  BY DEF Walk!ReadRecord, WP!ReadRecord, Walk!AtRecord, WP!AtRecord, Walk!At,
     WP!At, Walk!Top, WP!Top, Walk!SetTop, WP!SetTop, Walk!Cell, WP!Cell,
     Walk!Advance, WP!Advance
<1>7. Walk!CallLast => WP!CallLast
  BY DEF Walk!CallLast, WP!CallLast, Walk!At, WP!At, Walk!Top, WP!Top,
     Walk!SetTop, WP!SetTop, Walk!Call, WP!Call, Walk!NewFrame, WP!NewFrame
<1>8. Walk!LastDone => WP!LastDone
  BY DEF Walk!LastDone, WP!LastDone, Walk!Back, WP!Back, Walk!Top, WP!Top,
     Walk!SetTop, WP!SetTop
<1>9. pc = "enum" /\ UNCHANGED command
  BY DEF WalkStep
<1>10. WP!Next
  BY <1>1, <1>2, <1>3, <1>4, <1>5, <1>6, <1>7, <1>8 DEF WalkStep, WP!Next
<1>11. stack # <<>> /\ enumret' = "none" /\ UNCHANGED <<tree, out>>
  BY DEF WalkStep, Walk!SeekToBlock, Walk!ReadNodeType, Walk!ReadRecordCount,
     Walk!ReadChild, Walk!ChildDone, Walk!ReadRecord, Walk!CallLast,
     Walk!LastDone, Walk!AtRecord, Walk!At, Walk!Back, Walk!Call
<1> QED
  BY <1>9, <1>10, <1>11

(* A step with which an activation returns is one of the walk, too. *)
LEMMA WalkReturnsIsWalk ==
  ASSUME WalkReturns
  PROVE  /\ WP!Next /\ stack # <<>> /\ UNCHANGED <<tree, out>> /\ pc = "enum"
<1>1. Walk!RestoreOffset => WP!RestoreOffset
  BY DEF Walk!RestoreOffset, WP!RestoreOffset, Walk!AtRestore, WP!AtRestore,
     Walk!At, WP!At, Walk!Top, WP!Top, Walk!Return, WP!Return
<1>2. Walk!RejectRoot => WP!RejectRoot
  BY DEF Walk!RejectRoot, WP!RejectRoot, Walk!At, WP!At, Walk!Top, WP!Top,
     Walk!Return, WP!Return
<1>3. Walk!ReadRecordFails => WP!ReadRecordFails
  BY DEF Walk!ReadRecordFails, WP!ReadRecordFails, Walk!AtRecord, WP!AtRecord,
     Walk!At, WP!At, Walk!Top, WP!Top, Walk!Return, WP!Return, Walk!NoRecord,
     WP!NoRecord
<1>4. Walk!Propagate => WP!Propagate
  BY DEF Walk!Propagate, WP!Propagate, Walk!Back, WP!Back, Walk!Top, WP!Top,
     Walk!Return, WP!Return
<1>5. Walk!IOError => WP!IOError
  BY DEF Walk!IOError, WP!IOError, Walk!AtRestore, WP!AtRestore, Walk!At,
     WP!At, Walk!Top, WP!Top, Walk!Return, WP!Return
<1>6. WP!Next
  BY <1>1, <1>2, <1>3, <1>4, <1>5 DEF WalkReturns, WP!Next
<1>7. stack # <<>> /\ UNCHANGED <<tree, out>>
  BY DEF WalkReturns, Walk!RestoreOffset, Walk!RejectRoot,
     Walk!ReadRecordFails, Walk!Propagate, Walk!IOError, Walk!AtRecord,
     Walk!AtRestore, Walk!At, Walk!Back
<1> QED
  BY <1>6, <1>7 DEF WalkReturns

(* And so is the delivery of the record in hand. *)
LEMMA WalkDeliversIsWalk ==
  ASSUME WalkDelivers
  PROVE  /\ WP!Next /\ stack # <<>> /\ enumret' = "none" /\ pc = "enum"
         /\ WP!Top.pc = "deliver" /\ UNCHANGED tree /\ out' = Append(out, record)
<1>1. Walk!DeliverRecord /\ pc = "enum"
  BY DEF WalkDelivers
<1>2. WP!DeliverRecord
  BY <1>1 DEF Walk!DeliverRecord, WP!DeliverRecord, Walk!At, WP!At, Walk!Top,
     WP!Top, Walk!SetTop, WP!SetTop, Walk!NoRecord, WP!NoRecord
<1> QED
  BY <1>1, <1>2 DEF WP!DeliverRecord, WP!At, WP!Next

-----------------------------------------------------------------------------
(* The invariant: that of the walk, whatever the command does, and no      *)
(* command is under way before the first call.                             *)
PInv ==
  /\ WP!IInv
  /\ calls \in Nat
  /\ calls = 0 => pc \in {"main", "idle", "exited"}

(* What the command sees of the walk. *)
Total == IF calls = 0 THEN 0 ELSE tree.records

Status == IF stack = <<>> THEN enumret ELSE "running"

LEMMA InitPInv == Init => PInv /\ Cmd!Init
<1> SUFFICES ASSUME Init PROVE PInv /\ Cmd!Init
  OBVIOUS
<1>1. Walk!Init /\ Cmd!Init
  BY DEF Init
<1>2. WP!Init
  BY <1>1 DEF Walk!Init, WP!Init, Walk!HeaderBlockEnd, WP!HeaderBlockEnd,
     Walk!NewFrame, WP!NewFrame, Walk!NoRecord, WP!NoRecord
<1>3. WP!IInv
  BY <1>2, WalkAssumption, WP!InitInv
<1>4. calls = 0 /\ pc \in {"main", "idle"}
  BY <1>1 DEF Cmd!Init
<1> QED
  BY <1>1, <1>3, <1>4 DEF PInv

(* A call starts a walk anew. *)
LEMMA NewWalkInv == NewWalk => WP!IInv'
<1>1. WP!Init => WP!IInv
  BY WalkAssumption, WP!InitInv
<1>2. WP!Init' => WP!IInv'
  BY <1>1, PTL
<1>3. NewWalk => WP!Init'
  BY DEF NewWalk, WP!Init, Walk!HeaderBlockEnd, WP!HeaderBlockEnd,
     Walk!NewFrame, WP!NewFrame, Walk!NoRecord, WP!NoRecord
<1> QED
  BY <1>2, <1>3

LEMMA CallStep ==
  ASSUME PInv, Call
  PROVE  PInv' /\ Cmd!Next
<1>1. NewWalk /\ (Cmd!MainDump \/ Cmd!MainConvert \/ Cmd!LibraryCall)
  BY DEF Call
<1>2. calls' = calls + 1
  BY <1>1 DEF Cmd!MainDump, Cmd!MainConvert, Cmd!LibraryCall, Cmd!CallFn
<1>3. calls' \in Nat /\ calls' # 0
  BY <1>2 DEF PInv
<1>4. Cmd!Next
  BY <1>1 DEF Cmd!Next, Cmd!Step
<1> QED
  BY <1>1, <1>3, <1>4, NewWalkInv DEF PInv

LEMMA CommandStepStep ==
  ASSUME PInv, CommandStep
  PROVE  PInv' /\ Cmd!Next
<1>1. UNCHANGED walk
  BY DEF CommandStep
<1>2. WP!IInv'
  BY <1>1, WalkAssumption, WP!StutterInv DEF PInv, walk, WP!vars
<1>3. Cmd!Next
  BY DEF CommandStep, Cmd!Next, Cmd!Step
<1>4. calls' = calls
  BY DEF CommandStep, Cmd!MainOther, Cmd!RejectFormat, Cmd!Fopen, Cmd!FopenFails,
     Cmd!LoadStage, Cmd!LoadFails, Cmd!PrintRecords, Cmd!CloseFile, Cmd!CloseNull,
     Cmd!FreeStore, Cmd!locals
<1>5. calls = 0 => pc' \in {"main", "idle", "exited"}
  <2> SUFFICES ASSUME calls = 0, pc \in {"main", "idle", "exited"}
               PROVE  pc' \in {"main", "idle", "exited"}
    BY DEF PInv
  <2>1. Len(Cmd!Stages) = 6
    BY DEF Cmd!Stages
  <2>2. \A i \in 1 .. 6 : Cmd!Stages[i] \notin {"main", "idle", "exited"}
    <3>1. 1 .. 6 = {1, 2, 3, 4, 5, 6}
      OBVIOUS
    <3>2. /\ Cmd!Stages[1] = "header" /\ Cmd!Stages[2] = "seek allocator"
          /\ Cmd!Stages[3] = "allocator" /\ Cmd!Stages[4] = "find DSDB"
          /\ Cmd!Stages[5] = "seek header block" /\ Cmd!Stages[6] = "header block"
      BY DEF Cmd!Stages
    <3> QED
      BY <3>1, <3>2
  <2>3. ~Cmd!LoadStage /\ ~Cmd!LoadFails
    BY <2>1, <2>2 DEF Cmd!LoadStage, Cmd!LoadFails, Cmd!StageSet
  <2>4. Cmd!MainOther
    BY <2>3 DEF CommandStep, Cmd!RejectFormat, Cmd!Fopen, Cmd!FopenFails,
       Cmd!PrintRecords, Cmd!CloseFile, Cmd!CloseNull, Cmd!FreeStore
  <2> QED
    BY <2>4 DEF Cmd!MainOther, Cmd!Return
<1> QED
  BY <1>2, <1>3, <1>4, <1>5 DEF PInv

(* The command sees nothing of a step in which the walk neither hands over *)
(* a record nor ends.                                                      *)
LEMMA WalkStepStep ==
  ASSUME PInv, WalkStep
  PROVE  PInv' /\ UNCHANGED Cmd!vars
<1>1. /\ WP!Next /\ stack # <<>> /\ enumret' = "none" /\ UNCHANGED <<tree, out>>
      /\ UNCHANGED command
  BY WalkStepIsWalk
<1>2. WP!IInv'
  BY <1>1, WalkAssumption, WP!StepInv DEF PInv
<1>3. stack' # <<>>
  BY <1>1, <1>2 DEF WP!IInv, WP!RetOK
<1>4. Total' = Total /\ Status' = Status
  BY <1>1, <1>3 DEF Total, Status, command
<1>5. UNCHANGED Cmd!vars
  BY <1>1, <1>4 DEF Cmd!vars, command, Total, Status
<1> QED
  BY <1>1, <1>2, <1>5 DEF PInv, command

(* The outermost activation returns to the command: the stream is over, or *)
(* has failed.                                                             *)
LEMMA WalkReturnsStep ==
  ASSUME PInv, WalkReturns
  PROVE  PInv' /\ [Cmd!Next]_(Cmd!vars)
<1>1. WP!Next /\ stack # <<>> /\ UNCHANGED <<tree, out>> /\ pc = "enum"
  BY WalkReturnsIsWalk
<1>2. WP!IInv'
  BY <1>1, WalkAssumption, WP!StepInv DEF PInv
<1>3. calls # 0
  BY <1>1 DEF PInv
<1>4. CASE stack' # <<>>
  <2>1. UNCHANGED command
    BY <1>4 DEF WalkReturns
  <2>2. Total' = Total /\ Status' = Status
    BY <1>1, <1>4, <2>1 DEF Total, Status, command
  <2>3. UNCHANGED Cmd!vars
    BY <1>1, <2>1, <2>2 DEF Cmd!vars, command, Total, Status
  <2> QED
    BY <1>2, <2>1, <2>3 DEF PInv, command
<1>5. CASE stack' = <<>> /\ enumret' = "ok"
  <2>1. Cmd!Enumerated
    BY <1>5 DEF WalkReturns
  <2>2. calls' = calls
    BY <2>1 DEF Cmd!Enumerated, Cmd!locals
  <2>3. Len(out) = tree.records
    <3>1. tree' = tree /\ out' = out
      BY <1>1
    <3>2. WP!Valid(tree)
      BY <1>2, <1>5, <3>1 DEF WP!IInv, WP!Valid
    <3> QED
      BY <1>2, <1>5, <3>1, <3>2 DEF WP!IInv, WP!RankOK, WP!Valid
  <2>4. Cmd!Stream!Finish
    BY <1>1, <1>3, <1>5, <2>2, <2>3 DEF Cmd!Stream!Finish
  <2>5. Cmd!Next
    BY <1>1, <2>1, <2>4 DEF Cmd!EnumDone, Cmd!Next, Cmd!Step
  <2> QED
    BY <1>2, <1>3, <2>2, <2>5 DEF PInv
<1>6. CASE stack' = <<>> /\ enumret' = "error"
  <2>1. Cmd!NotEnumerated
    BY <1>6 DEF WalkReturns
  <2>2. calls' = calls
    BY <2>1 DEF Cmd!NotEnumerated, Cmd!locals
  <2>3. Cmd!Stream!Fail
    BY <1>1, <1>3, <1>6, <2>2 DEF Cmd!Stream!Fail
  <2>4. Cmd!Next
    BY <1>1, <2>1, <2>3 DEF Cmd!EnumFails, Cmd!Next, Cmd!Step
  <2> QED
    BY <1>2, <1>3, <2>2, <2>4 DEF PInv
<1>7. stack' = <<>> => enumret' \in {"ok", "error"}
  BY <1>2 DEF WP!IInv, WP!RetOK, WP!TypeOK
<1> QED
  BY <1>4, <1>5, <1>6, <1>7

(* The record in hand is the next one of the stream, and there is one.     *)
LEMMA WalkDeliversStep ==
  ASSUME PInv, WalkDelivers
  PROVE  PInv' /\ Cmd!Next
<1>1. /\ WP!Next /\ stack # <<>> /\ enumret' = "none" /\ pc = "enum"
      /\ WP!Top.pc = "deliver" /\ UNCHANGED tree /\ out' = Append(out, record)
  BY WalkDeliversIsWalk
<1>2. /\ WP!IInv'
      /\ out' # out => Len(out) < tree.records
  BY <1>1, WalkAssumption, WP!StepInv DEF PInv
<1>3. stack' # <<>>
  BY <1>1, <1>2 DEF WP!IInv, WP!RetOK
<1>4. calls # 0
  BY <1>1 DEF PInv
<1>5. record = Len(out) + 1
  BY <1>1 DEF PInv, WP!IInv, WP!RecordOK
<1>6. Len(out) < tree.records
  <2>1. out \in Seq(Nat) /\ record \in Nat
    BY DEF PInv, WP!IInv, WP!TypeOK
  <2>2. Len(out') = Len(out) + 1 /\ Len(out) \in Nat
    BY <1>1, <2>1
  <2> QED
    BY <1>2, <2>2
<1>7. Cmd!Take(record) \/ Cmd!TakeNull
  BY DEF WalkDelivers
<1>8. calls' = calls
  BY <1>7 DEF Cmd!Take, Cmd!TakeNull, Cmd!locals
<1>9. Cmd!Stream!Deliver
  BY <1>1, <1>3, <1>4, <1>5, <1>6, <1>8 DEF Cmd!Stream!Deliver
<1>10. Cmd!Next
  BY <1>1, <1>5, <1>7, <1>9 DEF Cmd!EnumRecord, Cmd!EnumNullDictionary, Cmd!Next, Cmd!Step
<1> QED
  BY <1>2, <1>4, <1>8, <1>10 DEF PInv

LEMMA StutterStep ==
  ASSUME PInv, UNCHANGED vars
  PROVE  PInv' /\ UNCHANGED Cmd!vars
<1>1. WP!IInv'
  BY WalkAssumption, WP!StutterInv DEF PInv, vars, walk, WP!vars
<1>2. UNCHANGED Cmd!vars
  BY DEF vars, walk, command, Cmd!vars
<1> QED
  BY <1>1, <1>2 DEF PInv, vars, command

LEMMA StepRefines == PInv /\ [Next]_vars => PInv' /\ [Cmd!Next]_(Cmd!vars)
<1> SUFFICES ASSUME PInv, [Next]_vars PROVE PInv' /\ [Cmd!Next]_(Cmd!vars)
  OBVIOUS
<1>1. CASE Call
  BY <1>1, CallStep
<1>2. CASE CommandStep
  BY <1>2, CommandStepStep
<1>3. CASE WalkStep
  BY <1>3, WalkStepStep
<1>4. CASE WalkReturns
  BY <1>4, WalkReturnsStep
<1>5. CASE WalkDelivers
  BY <1>5, WalkDeliversStep
<1>6. CASE UNCHANGED vars
  BY <1>6, StutterStep
<1> QED
  BY <1>1, <1>2, <1>3, <1>4, <1>5, <1>6 DEF Next, Step

-----------------------------------------------------------------------------
(* The walk keeps its invariant through all the calls of the program: each *)
(* begins it anew, wherever the one before it has ended.                   *)
THEOREM Invariance == Spec => []PInv
<1>1. Init => PInv
  BY InitPInv
<1>2. PInv /\ [Next]_vars => PInv'
  BY StepRefines
<1> QED
  BY <1>1, <1>2, PTL DEF Spec

(* For every set of stores that are trees, of any shape and size, and any  *)
(* number of calls, the whole program behaves as the commands do over a    *)
(* record stream.                                                          *)
THEOREM CommandsImplemented == Spec => ImplementsCommands
<1>1. Init => Cmd!Init
  BY DEF Init
<1>2. PInv /\ [Next]_vars => [Cmd!Next]_(Cmd!vars)
  BY StepRefines
<1> QED
  BY <1>1, <1>2, Invariance, PTL DEF Spec, ImplementsCommands, Cmd!SafeSpec

-----------------------------------------------------------------------------
(* What is proved of the commands.                                         *)

CP == INSTANCE CommandsProofs
        WITH Totals <- {f.records : f \in Files},
             total <- IF calls = 0 THEN 0 ELSE tree.records,
             status <- IF stack = <<>> THEN enumret ELSE "running"

LEMMA CommandsAssumptions ==
  {f.records : f \in Files} \subseteq Nat /\ MaxCalls \in Nat \ {0}
  BY FilesAssumption, MaxCallsAssumption DEF Walk!WellFormed

LEMMA CommandsInit == Cmd!Init => CP!Init
  BY DEF Cmd!Init, CP!Init, Cmd!NULL, CP!NULL

LEMMA CommandsNext == Cmd!Next => CP!Next
<1>1. Cmd!MainDump => CP!MainDump
  BY DEF Cmd!MainDump, CP!MainDump, Cmd!CallFn, CP!CallFn, Cmd!NULL,
     CP!NULL
<1>2. Cmd!MainConvert => CP!MainConvert
  BY DEF Cmd!MainConvert, CP!MainConvert, Cmd!CallFn, CP!CallFn, Cmd!NULL,
     CP!NULL
<1>3. Cmd!MainOther => CP!MainOther
  BY DEF Cmd!MainOther, CP!MainOther, Cmd!Return, CP!Return, Cmd!locals,
     CP!locals, Cmd!stream, CP!stream
<1>4. Cmd!LibraryCall => CP!LibraryCall
  BY DEF Cmd!LibraryCall, CP!LibraryCall, Cmd!CallFn, CP!CallFn, Cmd!NULL,
     CP!NULL
<1>5. Cmd!RejectFormat => CP!RejectFormat
  BY DEF Cmd!RejectFormat, CP!RejectFormat, Cmd!Return, CP!Return,
     Cmd!locals, CP!locals, Cmd!stream, CP!stream
<1>6. Cmd!Fopen => CP!Fopen
  BY DEF Cmd!Fopen, CP!Fopen, Cmd!Stages, CP!Stages, Cmd!locals, CP!locals,
     Cmd!stream, CP!stream
<1>7. Cmd!FopenFails => CP!FopenFails
  BY DEF Cmd!FopenFails, CP!FopenFails, Cmd!Return, CP!Return, Cmd!locals,
     CP!locals, Cmd!stream, CP!stream
<1>8. Cmd!LoadStage => CP!LoadStage
  BY DEF Cmd!LoadStage, CP!LoadStage, Cmd!Stages, CP!Stages, Cmd!locals,
     CP!locals, Cmd!stream, CP!stream
<1>9. Cmd!LoadFails => CP!LoadFails
  BY DEF Cmd!LoadFails, CP!LoadFails, Cmd!Stages, CP!Stages, Cmd!StageSet,
     CP!StageSet, Cmd!Frees, CP!Frees, Cmd!ReturnConvert, CP!ReturnConvert,
     Cmd!Return, CP!Return, Cmd!locals, CP!locals, Cmd!stream, CP!stream
<1>10. Cmd!EnumRecord => CP!EnumRecord
  BY DEF Cmd!EnumRecord, CP!EnumRecord, Cmd!Stream!Deliver,
     CP!Stream!Deliver, Cmd!Take, CP!Take, Cmd!locals, CP!locals
<1>11. Cmd!EnumNullDictionary => CP!EnumNullDictionary
  BY DEF Cmd!EnumNullDictionary, CP!EnumNullDictionary, Cmd!Stream!Deliver,
     CP!Stream!Deliver, Cmd!TakeNull, CP!TakeNull, Cmd!Crash, CP!Crash,
     Cmd!locals, CP!locals
<1>12. Cmd!EnumDone => CP!EnumDone
  BY DEF Cmd!EnumDone, CP!EnumDone, Cmd!Stream!Finish, CP!Stream!Finish,
     Cmd!Enumerated, CP!Enumerated, Cmd!locals, CP!locals
<1>13. Cmd!EnumFails => CP!EnumFails
  BY DEF Cmd!EnumFails, CP!EnumFails, Cmd!Stream!Fail, CP!Stream!Fail,
     Cmd!NotEnumerated, CP!NotEnumerated, Cmd!ReturnConvert,
     CP!ReturnConvert, Cmd!Return, CP!Return, Cmd!locals, CP!locals
<1>14. Cmd!PrintRecords => CP!PrintRecords
  BY DEF Cmd!PrintRecords, CP!PrintRecords, Cmd!ReturnConvert,
     CP!ReturnConvert, Cmd!Return, CP!Return, Cmd!locals, CP!locals,
     Cmd!stream, CP!stream
<1>15. Cmd!CloseFile => CP!CloseFile
  BY DEF Cmd!CloseFile, CP!CloseFile, Cmd!NULL, CP!NULL, Cmd!locals,
     CP!locals, Cmd!stream, CP!stream
<1>16. Cmd!CloseNull => CP!CloseNull
  BY DEF Cmd!CloseNull, CP!CloseNull, Cmd!NULL, CP!NULL, Cmd!Crash,
     CP!Crash, Cmd!locals, CP!locals, Cmd!stream, CP!stream
<1>17. Cmd!FreeStore => CP!FreeStore
  BY DEF Cmd!FreeStore, CP!FreeStore, Cmd!Return, CP!Return, Cmd!locals,
     CP!locals, Cmd!stream, CP!stream
<1> QED
  BY <1>1, <1>2, <1>3, <1>4, <1>5, <1>6, <1>7, <1>8, <1>9, <1>10, <1>11,
     <1>12, <1>13, <1>14, <1>15, <1>16, <1>17 DEF Cmd!Next, CP!Next,
     Cmd!Step, CP!Step

(* The whole program, over trees of any shape and size and whatever fails  *)
(* in whichever call: files are closed, nothing is used after its release, *)
(* amg_dump_file frees its store, and amg_convert_file prints all records  *)
(* or none.                                                                *)
THEOREM CommandsCorrect ==
  Spec => [](/\ Cmd!FilesClosed /\ Cmd!UsedWhileOwned
             /\ Cmd!DumpFreesStore /\ Cmd!ConvertAllOrNothing)
<1>1. Spec => []CP!IInv
  <2>1. UNCHANGED Cmd!vars => UNCHANGED CP!vars
    BY DEF Cmd!vars, CP!vars
  <2>2. CP!SafeSpec => []CP!IInv
    BY CommandsAssumptions, CP!SafeInvariance
  <2> QED
    BY <2>1, <2>2, CommandsInit, CommandsNext, CommandsImplemented, PTL
       DEF ImplementsCommands, Cmd!SafeSpec, CP!SafeSpec
<1>2. ASSUME CP!IInv
      PROVE  /\ Cmd!FilesClosed /\ Cmd!UsedWhileOwned
             /\ Cmd!DumpFreesStore /\ Cmd!ConvertAllOrNothing
  <2>1. CP!Ownership /\ CP!DumpFreesStore /\ CP!ConvertAllOrNothing
    BY <1>2 DEF CP!IInv
  <2>2. Cmd!FilesClosed
    BY <2>1 DEF CP!Ownership, Cmd!FilesClosed
  <2>3. Cmd!UsedWhileOwned
    BY <2>1 DEF CP!Ownership, Cmd!UsedWhileOwned, CP!StageSet, Cmd!StageSet,
       CP!Stages, Cmd!Stages, CP!NULL, Cmd!NULL
  <2>4. Cmd!DumpFreesStore
    BY <2>1 DEF CP!DumpFreesStore, Cmd!DumpFreesStore, CP!Returned, Cmd!Returned
  <2>5. Cmd!ConvertAllOrNothing
    BY <2>1 DEF CP!ConvertAllOrNothing, Cmd!ConvertAllOrNothing,
       CP!Returned, Cmd!Returned, CP!All, Cmd!All
  <2> QED
    BY <2>2, <2>3, <2>4, <2>5
<1> QED
  BY <1>1, <1>2, PTL

=============================================================================
