------------------------------- MODULE Program -------------------------------
(***************************************************************************)
(* The commands with ds_store_enum_records itself in place of the abstract *)
(* stream: Commands and BlockEnum share the enumeration's control and the  *)
(* FILE *, and nothing else.  Each call of a command begins a new walk,    *)
(* over the tree of the store that it loads, and the walk moves while the  *)
(* command waits for it.                                                   *)
(***************************************************************************)
EXTENDS Naturals, Sequences

CONSTANTS
  Files,             \* the stores; see BlockEnum
  Argvs, MaxCalls    \* see Commands

VARIABLES
  client, argv, calls, op, format, pc, file, store, open, live, records,
  printed, ret,      \* the variables of Commands
  tree,              \* the store that the call finds in the file
  pos, stack, enumret, record, out
                     \* the variables of BlockEnum; enumret is its ret

command == <<client, argv, calls, op, format, pc, file, store, open, live,
             records, printed, ret>>
walk == <<tree, pos, stack, enumret, record, out>>
vars == <<command, walk>>

Walk == INSTANCE BlockEnum WITH file <- tree, ret <- enumret

ASSUME FilesAssumption == \A f \in Files : Walk!WellFormed(f)
ASSUME MaxCallsAssumption == MaxCalls \in Nat \ {0}

(* Before the first call there is no store. *)
Cmd == INSTANCE Commands
         WITH Totals <- {f.records : f \in Files},
              total <- IF calls = 0 THEN 0 ELSE tree.records,
              status <- IF stack = <<>> THEN enumret ELSE "running"

Init == Walk!Init /\ Cmd!Init

-----------------------------------------------------------------------------
(* The locals of a walk as it will begin. *)
NewWalk ==
  /\ tree' \in Files
  /\ pos' = Walk!HeaderBlockEnd
  /\ stack' = <<Walk!NewFrame(tree'.root)>>
  /\ enumret' = "none"
  /\ record' = Walk!NoRecord
  /\ out' = <<>>

(* A command is called. *)
Call ==
  NewWalk /\ (Cmd!MainDump \/ Cmd!MainConvert \/ Cmd!LibraryCall)

(* Steps of the command outside of the enumeration. *)
CommandStep ==
  /\ UNCHANGED walk
  /\ \/ Cmd!MainOther \/ Cmd!RejectFormat \/ Cmd!Fopen \/ Cmd!FopenFails
     \/ Cmd!LoadStage \/ Cmd!LoadFails \/ Cmd!PrintRecords
     \/ Cmd!CloseFile \/ Cmd!CloseNull \/ Cmd!FreeStore

(* Steps of the walk that the command does not see. *)
WalkStep ==
  /\ pc = "enum"
  /\ \/ Walk!SeekToBlock \/ Walk!ReadNodeType \/ Walk!ReadRecordCount
     \/ Walk!ReadChild \/ Walk!ChildDone \/ Walk!ReadRecord
     \/ Walk!CallLast \/ Walk!LastDone
  /\ UNCHANGED command

(* A step with which an activation returns: the outermost one returns to   *)
(* the command.                                                            *)
WalkReturns ==
  /\ pc = "enum"
  /\ \/ Walk!RestoreOffset \/ Walk!RejectRoot \/ Walk!ReadRecordFails
     \/ Walk!Propagate \/ Walk!IOError
  /\ CASE stack' # <<>>     -> UNCHANGED command
       [] stack' = <<>> /\ enumret' = "ok"    -> Cmd!Enumerated
       [] stack' = <<>> /\ enumret' = "error" -> Cmd!NotEnumerated

(* record_func *)
WalkDelivers ==
  /\ pc = "enum"
  /\ Walk!DeliverRecord
  /\ Cmd!Take(record) \/ Cmd!TakeNull

Step == CommandStep \/ WalkStep \/ WalkReturns \/ WalkDelivers

Next == Call \/ Step

(* One thread runs a call to its end. *)
Spec == Init /\ [][Next]_vars /\ WF_vars(Step)

-----------------------------------------------------------------------------
(* Properties.                                                             *)

(* The commands see of the walk what they see of a record stream: records  *)
(* in order, the success only after the last of them, a failure at any     *)
(* time.  So what holds of Commands holds of the whole program.            *)
ImplementsCommands == Cmd!SafeSpec

(* Every call returns, or the process crashes in it: the walk of the       *)
(* command ends, over a tree of any shape and after a failure at any       *)
(* depth.                                                                  *)
EveryCallReturns == Cmd!EveryCallReturns

=============================================================================
