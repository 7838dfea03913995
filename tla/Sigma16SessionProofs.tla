------------------------ MODULE Sigma16SessionProofs -------------------------
(***************************************************************************)
(* What surrounds a debugging session: the prompt that reads, parses, runs *)
(* and releases commands, and the process from main to its end.  Proofs    *)
(* about Sigma16Commands, for all lines, and Sigma16Process, for all       *)
(* failures.                                                               *)
(***************************************************************************)
EXTENDS Sigma16Commands, Sigma16Process, Sigma16DebuggerProofs

-----------------------------------------------------------------------------
(***************************************************************************)
(* The inductive invariant: what is allocated at each step of a prompt.    *)
(***************************************************************************)
LiveInv ==
  /\ live \in [Kinds -> Nat]
  /\ live["line"] = empty + (IF step = "parse" THEN 1 ELSE 0)
  /\ live["command"] = IF step = "run" THEN 1 ELSE 0
  /\ live["arguments"] =
       IF step = "run" /\ Arguments(input) # << >> THEN 1 ELSE 0

InputInv ==
  /\ step \in {"readline", "parse", "run"}
  /\ input \in Lines \cup {NoLine}
  /\ empty \in Nat
  /\ step # "readline" => input \in Lines
  /\ step = "run" => ~Refused(input) /\ ~Malformed(input)

PromptInv == InputInv /\ LiveInv

LEMMA PromptInitInv == CommandsInit => PromptInv
BY DEF CommandsInit, PromptInv, InputInv, LiveInv, Kinds

LEMMA InputKeeps ==
  ASSUME PromptInv, [CommandsNext]_commandsVars
  PROVE  InputInv'
BY DEF PromptInv, InputInv, CommandsNext, Prompt, commandsVars, promptVars,
       readline_empty, readline, readline_eof, parse_cmd_null, parse_cmd_dies,
       parse_cmd, debugger_interactive

LEMMA LiveKeeps ==
  ASSUME PromptInv, [CommandsNext]_commandsVars
  PROVE  LiveInv'
<1>1. /\ live \in [Kinds -> Nat] /\ empty \in Nat
      /\ live["line"] = empty + (IF step = "parse" THEN 1 ELSE 0)
      /\ live["command"] = IF step = "run" THEN 1 ELSE 0
      /\ live["arguments"] =
           IF step = "run" /\ Arguments(input) # << >> THEN 1 ELSE 0
  BY DEF PromptInv, InputInv, LiveInv
<1>2. CASE readline_empty
  <2>1. /\ step = "readline" /\ step' = step /\ input' = input
        /\ empty' = empty + 1 /\ live' = [live EXCEPT !["line"] = @ + 1]
    BY <1>2 DEF readline_empty
  <2> QED BY <1>1, <2>1 DEF LiveInv, Kinds
<1>3. ASSUME NEW l \in Lines, readline(l)
      PROVE  LiveInv'
  <2>1. /\ step = "readline" /\ step' = "parse"
        /\ empty' = empty /\ live' = [live EXCEPT !["line"] = @ + 1]
    BY <1>3 DEF readline
  <2> QED BY <1>1, <2>1 DEF LiveInv, Kinds
<1>4. CASE parse_cmd_null
  <2>1. /\ step = "parse" /\ step' = "readline"
        /\ empty' = empty /\ live' = [live EXCEPT !["line"] = @ - 1]
    BY <1>4 DEF parse_cmd_null
  <2> QED BY <1>1, <2>1 DEF LiveInv, Kinds
<1>5. CASE parse_cmd
  <2> DEFINE n == IF Arguments(input) = << >> THEN 0 ELSE 1
  <2>1. /\ step = "parse" /\ step' = "run" /\ input' = input /\ empty' = empty
        /\ live' = [live EXCEPT !["line"] = @ - 1, !["command"] = @ + 1,
                                !["arguments"] = @ + n]
    BY <1>5 DEF parse_cmd
  <2>2. n \in {0, 1} /\ (Arguments(input) # << >> <=> n = 1)
    OBVIOUS
  <2>3. Arguments(input)' = Arguments(input)
    BY <2>1 DEF Arguments
  <2> HIDE DEF n
  <2> QED BY <1>1, <2>1, <2>2, <2>3 DEF LiveInv, Kinds
<1>6. CASE debugger_interactive
  <2> DEFINE n == IF Arguments(input) = << >> THEN 0 ELSE 1
  <2>1. /\ step = "run" /\ step' = "readline" /\ input' = input
        /\ empty' = empty
        /\ live' = [live EXCEPT !["command"] = @ - 1, !["arguments"] = @ - n]
    BY <1>6 DEF debugger_interactive, destroy_cmd
  <2>2. n \in {0, 1} /\ (Arguments(input) # << >> <=> n = 1)
    OBVIOUS
  <2> HIDE DEF n
  <2> QED BY <1>1, <2>1, <2>2 DEF LiveInv, Kinds
<1>7. CASE UNCHANGED promptVars
  <2>1. UNCHANGED <<step, input, empty, live>>
    BY <1>7 DEF promptVars
  <2>2. Arguments(input)' = Arguments(input)
    BY <2>1 DEF Arguments
  <2> QED BY <1>1, <2>1, <2>2 DEF LiveInv
<1> QED BY <1>2, <1>3, <1>4, <1>5, <1>6, <1>7
        DEF CommandsNext, Prompt, readline_eof, parse_cmd_dies, commandsVars

LEMMA PromptInvariant == CommandsSpec => []PromptInv
<1>1. PromptInv /\ [CommandsNext]_commandsVars => PromptInv'
  BY InputKeeps, LiveKeeps DEF PromptInv
<1> QED BY <1>1, PromptInitInv, PTL DEF CommandsSpec

-----------------------------------------------------------------------------
(***************************************************************************)
(* The handler of a parsed command is a command of the debugger.           *)
(***************************************************************************)
LEMMA HandlerIsCommand ==
  ASSUME PromptInv, debugger_interactive
  PROVE  Command
<1> DEFINE a == Arguments(input)
<1>1. step = "run" /\ Handler(input.name, a)
  BY DEF debugger_interactive
<1>2. input \in Lines /\ ~Refused(input) /\ ~Malformed(input)
  BY <1>1 DEF PromptInv, InputInv
<1>3. input.vals \in Seq(Int)
  BY <1>2, CommandsAssumption
<1>4. ASSUME input.name = "n"
      PROVE  a[1] \in StepInputs
  <2>1. a = <<Value(input, 1, 1)>>
    BY <1>4 DEF Arguments
  <2> QED BY <1>2, <1>4, <2>1, LinesAssumption
<1>5. ASSUME input.name = "b"
      PROVE  U16(a[1]) \in BpInputs
  <2>1. a = <<input.vals[1]>>
    BY <1>5 DEF Arguments
  <2>2. Len(input.vals) >= 1
    BY <1>2, <1>3, <1>5 DEF Malformed
  <2> QED BY <1>2, <1>5, <2>1, <2>2, LinesAssumption
<1>6. ASSUME input.name = "i"
      PROVE  a[1] \in RegInputs /\ U16(a[2]) \in ValInputs
  <2>1. a = <<input.vals[1], input.vals[2]>>
    BY <1>6 DEF Arguments
  <2>2. Len(input.vals) >= 2
    BY <1>2, <1>3, <1>6 DEF Refused
  <2> QED BY <1>2, <1>6, <2>1, <2>2, LinesAssumption
<1>7. ASSUME input.name = "o"
      PROVE  a[1] \in RegInputs
  <2>1. a = <<input.vals[1]>>
    BY <1>7 DEF Arguments
  <2>2. Len(input.vals) >= 1
    BY <1>2, <1>3, <1>7 DEF Refused
  <2> QED BY <1>2, <1>7, <2>1, <2>2, LinesAssumption
<1> HIDE DEF a
<1> QED BY <1>1, <1>4, <1>5, <1>6, <1>7 DEF Handler, Command, debugger_dump_mem

(***************************************************************************)
(* Every prompt has the effect of one command of the debugger, and none    *)
(* until it runs it: the refinement that carries the theorems about        *)
(* debugging sessions over to the prompt with its parser and its heap.     *)
(***************************************************************************)
THEOREM CommandsImplementDebugger == CommandsSpec => PromptIsOneStep
<1>1. CommandsInit => DebuggerInit
  BY DEF CommandsInit
<1>2. PromptInv /\ [CommandsNext]_commandsVars => [Session]_vars
  <2> SUFFICES ASSUME PromptInv, [CommandsNext]_commandsVars
               PROVE  [Session]_vars
    OBVIOUS
  <2>1. CASE (Interpret \/ yield_debugger \/ SessionEnded) /\ UNCHANGED promptVars
    BY <2>1 DEF Session
  <2>2. CASE Prompt
    <3>1. CASE debugger_interactive
      BY <3>1, HandlerIsCommand DEF Session
    <3>2. CASE readline_eof \/ parse_cmd_null \/ parse_cmd_dies
      BY <3>2 DEF readline_eof, parse_cmd_null, parse_cmd_dies, Command, Session
    <3>3. ASSUME NEW l \in Lines, readline(l)
          PROVE  UNCHANGED vars
      BY <3>3 DEF readline
    <3>4. CASE readline_empty \/ parse_cmd
      BY <3>4 DEF readline_empty, parse_cmd
    <3> QED BY <2>2, <3>1, <3>2, <3>3, <3>4 DEF Prompt
  <2>3. CASE UNCHANGED commandsVars
    BY <2>3 DEF commandsVars
  <2> QED BY <2>1, <2>2, <2>3 DEF CommandsNext
<1> QED BY <1>1, <1>2, PromptInvariant, PTL
        DEF CommandsSpec, PromptIsOneStep, DebuggerSpec

(***************************************************************************)
(* The prompt's variables keep their types: no line, command or argument   *)
(* array is released more often than it was allocated.                     *)
(***************************************************************************)
THEOREM CommandsTypeCorrect == CommandsSpec => []CommandsTypeOK
<1>1. CommandsSpec => []DebuggerTypeOK
  BY CommandsImplementDebugger, DebuggerTypeCorrect DEF PromptIsOneStep
<1>2. PromptInv /\ DebuggerTypeOK => CommandsTypeOK
  BY DEF PromptInv, InputInv, LiveInv, CommandsTypeOK
<1> QED BY <1>1, <1>2, PromptInvariant, PTL

(***************************************************************************)
(* Whenever a prompt reads a line, everything but the empty lines has been *)
(* released, on every path through the parser and the handlers.            *)
(***************************************************************************)
THEOREM CommandsAreReleased == CommandsSpec => []ReleasedOnce
<1>1. PromptInv => ReleasedOnce
  <2>1. SUFFICES ASSUME PromptInv, step = "readline"
                 PROVE  live = [k \in Kinds |-> IF k = "line" THEN empty ELSE 0]
    BY DEF ReleasedOnce
  <2>2. /\ live \in [Kinds -> Nat] /\ live["line"] = empty
        /\ live["command"] = 0 /\ live["arguments"] = 0
    BY <2>1 DEF PromptInv, InputInv, LiveInv
  <2> QED BY <2>2 DEF Kinds
<1> QED BY <1>1, PromptInvariant, PTL

(***************************************************************************)
(* What is proved of debugging sessions holds of what the user types: of   *)
(* every sequence of lines, with their defaults, their refusals and the    *)
(* ends of the input in between.  A countdown and breakpoints are exact,   *)
(* the program is executed as without a debugger, and only i can write R0  *)
(* (debugger.c:302-592).                                                   *)
(***************************************************************************)
THEOREM LinesDebugExactly ==
  CommandsSpec => /\ []BreakpointStops /\ []StepCount
                  /\ TransparentSession /\ R0OnlyByUser
<1>1. CommandsSpec => DebuggerSpec
  BY CommandsImplementDebugger DEF PromptIsOneStep
<1> QED BY <1>1, BreakpointsAreExact, CountdownIsExact, DebuggerIsTransparent,
           R0StaysInSessions

-----------------------------------------------------------------------------
(***************************************************************************)
(* The process.  What the result of sigma16_vm_exec says is what became of *)
(* the program; and what each stage of main holds.                         *)
(***************************************************************************)
ResultInv ==
  /\ phase = "halted" => isaStatus = "halted"
  /\ phase = "error" => isaStatus = "error"

StageInv ==
  /\ build \in {"normal", "debugger"}
  /\ \/ stage = "main" /\ Unstarted /\ vm = "null" /\ exit = "none"
        /\ message = "none"
     \/ stage = "exec" /\ vm = "ready" /\ exit = "none" /\ message = "none"
     \/ stage = "ended" /\ exit \in {"success", "failure", "signal"}
  /\ build = "normal" => at = "entry" /\ phase # "exited"
  /\ ResultInv

MachineInv == TypeOK /\ CtxTypeOK /\ SessionInv

ProcessInv == MachineInv /\ StageInv /\ ProcessTypeOK /\ ExitStatus /\ EndReleases

(* The steps of main around the execution, which leave the machine alone. *)
Main ==
  \/ main_usage \/ exec_normal_init \/ debugger_init \/ debugger_teardown
  \/ exec_normal_done \/ exec_debugger_done \/ Dies \/ ProcessEnded

(* The machine runs, in either build, only inside sigma16_vm_exec. *)
LEMMA ExecutionIsSession ==
  ASSUME Execution
  PROVE  \/ /\ sigma16_vm_exec \/ sigma16_trace
            /\ build = "normal" /\ UNCHANGED <<ctxVars, historyVars>>
         \/ Session
BY DEF Execution, Session

LEMMA MachineSession ==
  ASSUME MachineInv, [Session]_vars
  PROVE  MachineInv'
<1>1. TypeOK' /\ CtxTypeOK'
  BY SessionData, SessionCtx DEF MachineInv
<1>2. SessionInv'
  BY SessionKeeps, DebuggerTypeSplit DEF MachineInv
<1> QED BY <1>1, <1>2 DEF MachineInv

LEMMA MachineNormal ==
  ASSUME MachineInv, sigma16_vm_exec \/ sigma16_trace, at = "entry",
         UNCHANGED <<ctxVars, historyVars>>
  PROVE  MachineInv'
<1>1. PICK z \in Word : DataInv(z)
  BY TypeData DEF MachineInv
<1>2. TypeOK'
  BY <1>1, DataNext DEF Next, DataInv
<1>3. CtxTypeOK'
  BY DEF MachineInv, CtxTypeOK, ctxVars, historyVars
<1>4. SessionInv'
  BY ControlStep, CoherentStep, ControlReturn, CoherentReturn
     DEF MachineInv, SessionInv
<1> QED BY <1>2, <1>3, <1>4 DEF MachineInv

LEMMA ExecutionResult ==
  ASSUME TypeOK, ResultInv, Execution
  PROVE  ResultInv'
<1>1. CASE sigma16_vm_exec
  <2>1. InterpretDispatch \/ InterpretBody
    BY <1>1, InterpreterStep
  <2> QED BY <2>1 DEF InterpretDispatch, InterpretBody, ResultInv, isaStatus
<1>2. CASE sigma16_trace
  BY <1>2 DEF sigma16_trace, HandlerReturn, trace_rrr_faults, ResultInv, isaStatus
<1>3. CASE UNCHANGED vmVars
  BY <1>3 DEF vmVars, ResultInv, isaStatus
<1>4. CASE Stayed \/ Died
  BY <1>4 DEF Stayed, Died, Prompting, ResultInv
<1> QED BY <1>1, <1>2, <1>3, <1>4, ExecutionIsSession, SessionVM

LEMMA MainLeavesMachine ==
  ASSUME Main
  PROVE  UNCHANGED vars
BY DEF Main, main_usage, exec_normal_init, debugger_init, debugger_teardown,
       exec_normal_done, exec_debugger_done, Dies, ProcessEnded, allVars

LEMMA MachineUnchanged ==
  ASSUME UNCHANGED vars
  PROVE  /\ MachineInv => MachineInv'
         /\ ResultInv => ResultInv'
         /\ Unstarted' <=> Unstarted
         /\ isaStatus' = isaStatus
BY DEF vars, vmVars, ctxVars, historyVars, MachineInv, TypeOK, CtxTypeOK,
       SessionInv, ControlInv, DecodeCoherent, IrMatches, ResultInv, isaStatus,
       Unstarted

LEMMA ProcessInitInv ==
  ASSUME ProcessInit
  PROVE  ProcessInv
<1>1. MachineInv
  BY DebuggerInitTypes, SessionInitInv DEF ProcessInit, MachineInv
<1>2. StageInv
  BY DEF ProcessInit, DebuggerInit, Init, StageInv, ResultInv, Unstarted
<1>3. ProcessTypeOK
  BY <1>1, DebuggerTypeSplit DEF ProcessInit, ProcessTypeOK, MachineInv, Pointee
<1> QED BY <1>1, <1>2, <1>3 DEF ProcessInit, ProcessInv, ExitStatus, EndReleases

LEMMA ExecutionKeeps ==
  ASSUME ProcessInv, Execution
  PROVE  ProcessInv'
<1>1. stage = "exec" /\ UNCHANGED <<build, stage, vm, exit, message>>
  BY DEF Execution, processVars
<1>2. MachineInv'
  <2>1. CASE Session
    BY <2>1, MachineSession DEF ProcessInv
  <2>2. CASE /\ sigma16_vm_exec \/ sigma16_trace
             /\ build = "normal" /\ UNCHANGED <<ctxVars, historyVars>>
    BY <2>2, MachineNormal DEF ProcessInv, StageInv
  <2> QED BY <2>1, <2>2, ExecutionIsSession
<1>3. build = "normal" => at' = "entry" /\ phase' # "exited"
  <2>1. ASSUME build = "normal"
        PROVE  /\ sigma16_vm_exec \/ sigma16_trace
               /\ at' = at
    BY <2>1 DEF Execution, ctxVars
  <2>2. ASSUME sigma16_vm_exec
        PROVE  phase' # "exited"
    BY <2>2, InterpreterStep
       DEF InterpretDispatch, InterpretBody, ProcessInv, MachineInv
  <2>3. ASSUME sigma16_trace
        PROVE  phase' # "exited"
    BY <2>3 DEF sigma16_trace, HandlerReturn, trace_rrr_faults
  <2> QED BY <2>1, <2>2, <2>3 DEF ProcessInv, StageInv
<1>4. StageInv'
  BY <1>1, <1>3, ExecutionResult DEF ProcessInv, StageInv, MachineInv
<1>5. ProcessTypeOK'
  BY <1>1, <1>2, DebuggerTypeSplit
     DEF ProcessInv, MachineInv, ProcessTypeOK, DebuggerTypeOK, CtxTypeOK
<1>6. ExitStatus' /\ EndReleases'
  BY <1>1 DEF ProcessInv, StageInv, ExitStatus, EndReleases
<1> QED BY <1>2, <1>4, <1>5, <1>6 DEF ProcessInv

(* What is left to show of a step of main: stages, types and the two       *)
(* properties, once the machine stays as it was.                           *)
ProcessData ==
  /\ stage \in {"main", "exec", "ended"} /\ vm \in Pointee
  /\ message \in {"none", "usage", "failed to initialise vm",
                  "unable to initialise debugger",
                  "an error occured during execution"}

LEMMA MainKeeps ==
  ASSUME ProcessInv, Main
  PROVE  ProcessInv'
<1>1. UNCHANGED vars
  BY MainLeavesMachine
<1>2. /\ MachineInv' /\ ResultInv' /\ isaStatus' = isaStatus
      /\ Unstarted' <=> Unstarted
      /\ phase' = phase /\ at' = at
  BY <1>1, MachineUnchanged
     DEF ProcessInv, StageInv, vars, vmVars, ctxVars
<1>3. StageInv /\ ProcessData /\ ExitStatus /\ EndReleases
  BY DEF ProcessInv, ProcessTypeOK, ProcessData
<1>4. /\ build' = build
      /\ StageInv' /\ ProcessData' /\ ExitStatus' /\ EndReleases'
  <2>1. CASE main_usage
    BY <1>2, <1>3, <2>1
       DEF main_usage, End, StageInv, ProcessData, ExitStatus, EndReleases
  <2>2. CASE exec_normal_init
    <3>1. PICK o \in sigma16_vm_init :
            /\ vm' = o.vm
            /\ IF o.result < 0
                 THEN End("failure", "failed to initialise vm")
                 ELSE stage' = "exec" /\ UNCHANGED <<exit, message>>
      BY <2>2 DEF exec_normal_init
    <3>2. /\ o.vm \in Pointee /\ (o.result < 0 <=> o.vm # "ready")
          /\ o.vm \in {"null", "struct", "freed", "ready"}
      BY DEF sigma16_vm_init, Pointee
    <3> QED BY <1>2, <1>3, <2>2, <3>1, <3>2
            DEF exec_normal_init, End, StageInv, ProcessData, ExitStatus, EndReleases
  <2>3. CASE debugger_init
    BY <1>2, <1>3, <2>3
       DEF debugger_init, End, StageInv, ProcessData, Pointee, ExitStatus, EndReleases
  <2>4. CASE debugger_teardown
    <3>1. PICK o \in sigma16_vm_init : o.result < 0 /\ vm' = o.vm
      BY <2>4 DEF debugger_teardown
    <3>2. vm' \in Pointee /\ vm' # "ready"
      BY <3>1 DEF sigma16_vm_init, Pointee
    <3> QED BY <1>2, <1>3, <2>4, <3>2
            DEF debugger_teardown, End, StageInv, ProcessData, ExitStatus, EndReleases
  <2>5. CASE exec_normal_done
    <3>1. vm' = "freed"
      BY <1>3, <2>5 DEF exec_normal_done, StageInv, sigma16_vm_del
    <3> QED BY <1>2, <1>3, <2>5, <3>1
            DEF exec_normal_done, End, StageInv, ResultInv, ProcessData, Pointee,
                ExitStatus, EndReleases
  <2>6. CASE exec_debugger_done
    BY <1>2, <1>3, <2>6
       DEF exec_debugger_done, End, StageInv, ResultInv, ProcessData, ExitStatus,
           EndReleases
  <2>7. CASE Dies
    BY <1>2, <1>3, <2>7
       DEF Dies, End, StageInv, ResultInv, ProcessData, ExitStatus, EndReleases
  <2>8. CASE ProcessEnded
    BY <1>2, <1>3, <2>8
       DEF ProcessEnded, allVars, processVars, StageInv, ProcessData, ExitStatus,
           EndReleases
  <2> QED BY <2>1, <2>2, <2>3, <2>4, <2>5, <2>6, <2>7, <2>8 DEF Main
<1>5. ProcessTypeOK'
  <2>1. DebuggerTypeOK'
    BY <1>2 DEF MachineInv, DebuggerTypeOK, CtxTypeOK
  <2> QED BY <1>4, <2>1 DEF ProcessTypeOK, ProcessData, StageInv
<1> QED BY <1>2, <1>4, <1>5 DEF ProcessInv

LEMMA ProcessInvariant == ProcessSpec => []ProcessInv
<1>1. ProcessInv /\ [ProcessNext]_allVars => ProcessInv'
  <2> SUFFICES ASSUME ProcessInv, [ProcessNext]_allVars
               PROVE  ProcessInv'
    OBVIOUS
  <2>1. CASE UNCHANGED allVars
    <3>1. UNCHANGED vars /\ UNCHANGED <<build, stage, vm, exit, message>>
      BY <2>1 DEF allVars, processVars
    <3>2. /\ MachineInv' /\ ResultInv' /\ isaStatus' = isaStatus
          /\ Unstarted' <=> Unstarted
          /\ phase' = phase /\ at' = at
      BY <3>1, MachineUnchanged
         DEF ProcessInv, StageInv, vars, vmVars, ctxVars
    <3>3. StageInv' /\ ExitStatus' /\ EndReleases'
      BY <3>1, <3>2 DEF ProcessInv, StageInv, ExitStatus, EndReleases
    <3>4. DebuggerTypeOK'
      BY <3>2 DEF MachineInv, DebuggerTypeOK, CtxTypeOK
    <3>5. ProcessTypeOK'
      BY <3>1, <3>4 DEF ProcessInv, ProcessTypeOK
    <3> QED BY <3>2, <3>3, <3>5 DEF ProcessInv
  <2> QED BY <2>1, ExecutionKeeps, MainKeeps DEF ProcessNext, Main
<1> QED BY <1>1, ProcessInitInv, PTL DEF ProcessSpec

(***************************************************************************)
(* The command keeps its types from main to its end: in both builds, with  *)
(* every failure of an allocation, a file or a mapping (main.c:12-77).     *)
(***************************************************************************)
THEOREM ProcessTypeCorrect == ProcessSpec => []ProcessTypeOK
<1>1. ProcessInv => ProcessTypeOK
  BY DEF ProcessInv
<1> QED BY <1>1, ProcessInvariant, PTL

(***************************************************************************)
(* The exit status tells what became of the program, for every program and *)
(* every session (main.c:12-77 with the results of sigma16_vm_exec).       *)
(***************************************************************************)
THEOREM ExitStatusIsTrue == ProcessSpec => []ExitStatus
<1>1. ProcessInv => ExitStatus
  BY DEF ProcessInv
<1> QED BY <1>1, ProcessInvariant, PTL

(***************************************************************************)
(* A normal run that ends by itself has released its memory, except for    *)
(* the struct of an executable that does not open (main.c:31-57,           *)
(* vm.c:66-101).                                                           *)
(***************************************************************************)
THEOREM MemoryIsReleased == ProcessSpec => []EndReleases
<1>1. ProcessInv => EndReleases
  BY DEF ProcessInv
<1> QED BY <1>1, ProcessInvariant, PTL

(***************************************************************************)
(* The command, in either build, executes the abstract machine: its steps  *)
(* around the execution leave the machine alone, and no path starts the    *)
(* program again (main.c:12-77, vm.c:129).                                 *)
(***************************************************************************)
THEOREM CommandIsTransparent == ProcessSpec => TransparentSession
<1>1. ProcessInit => ISA!Init
  BY InitImplements DEF ProcessInit, DebuggerInit
<1>2. ProcessInv /\ [ProcessNext]_allVars
        => [ISA!Next \/ RegisterWritten]_(ISA!isaVars)
  <2> SUFFICES ASSUME ProcessInv, [ProcessNext]_allVars
               PROVE  ISA!Next \/ RegisterWritten \/ UNCHANGED ISA!isaVars
    OBVIOUS
  <2>1. /\ DebuggerTypeOK /\ SessionInv
        /\ TypeOK /\ ControlInv /\ DecodeCoherent
    BY DebuggerTypeSplit DEF ProcessInv, MachineInv, SessionInv
  <2>2. CASE Session
    BY <2>1, <2>2, SessionImplements
  <2>3. CASE sigma16_vm_exec \/ sigma16_trace
    BY <2>1, <2>3, StepImplements, ReturnImplements
  <2>4. CASE Main \/ UNCHANGED allVars
    <3>1. UNCHANGED vars
      BY <2>4, MainLeavesMachine DEF allVars
    <3>2. isaStatus' = isaStatus
      BY <3>1, MachineUnchanged
    <3> QED BY <3>1, <3>2 DEF vars, vmVars, ISA!isaVars
  <2> QED BY <2>2, <2>3, <2>4, ExecutionIsSession DEF ProcessNext, Main
<1> QED BY <1>1, <1>2, ProcessInvariant, PTL
        DEF ProcessSpec, TransparentSession

-----------------------------------------------------------------------------
(***************************************************************************)
(* The two builds.  The normal one has no prompt: it is the interpreter.   *)
(***************************************************************************)
LEMMA MainKeepsBuild ==
  ASSUME Main
  PROVE  build' = build
BY DEF Main, main_usage, exec_normal_init, debugger_init, debugger_teardown,
       exec_normal_done, exec_debugger_done, Dies, ProcessEnded, allVars,
       processVars

NormalInv == build = "normal" /\ R0Zero

LEMMA NormalStep ==
  ASSUME ProcessInv, NormalInv, [ProcessNext]_allVars
  PROVE  NormalInv' /\ [Next]_vmVars
<1>1. DataInv(0)
  <2>1. 0 \in Word
    BY WordDef
  <2> QED BY <2>1 DEF ProcessInv, MachineInv, NormalInv, R0Zero, DataInv
<1>2. CASE Execution
  <2>1. [Next]_vmVars /\ build' = build
    BY <1>2 DEF Execution, NormalInv, Next, processVars
  <2>2. DataInv(0)'
    BY <1>1, <2>1, DataNext
  <2> QED BY <2>1, <2>2 DEF NormalInv, DataInv, R0Zero
<1>3. CASE Main \/ UNCHANGED allVars
  <2>1. UNCHANGED vars
    BY <1>3, MainLeavesMachine DEF allVars
  <2>2. build' = build
    BY <1>3, MainKeepsBuild DEF allVars, processVars
  <2> QED BY <2>1, <2>2 DEF vars, vmVars, NormalInv, R0Zero
<1> QED BY <1>2, <1>3 DEF ProcessNext, Main

(***************************************************************************)
(* The normal build runs the program as the abstract machine does, and     *)
(* executes nothing besides: what its end reports is the end of that       *)
(* execution, R0 stays 0, and a division and a comparison are those proved *)
(* of the interpreter (main.c:12-57, vm.c:129).                            *)
(***************************************************************************)
THEOREM NormalBuildIsInterpreter ==
  ProcessSpec /\ build = "normal" =>
    /\ Spec /\ ImplementsISA
    /\ []R0Zero /\ DivisionIdentity /\ CompareDecidesBranch
<1>1. ProcessInit /\ build = "normal" => Init /\ NormalInv
  BY DEF ProcessInit, DebuggerInit, Init, NormalInv, R0Zero, Reg
<1>2. ProcessInv /\ NormalInv /\ [ProcessNext]_allVars => NormalInv' /\ [Next]_vmVars
  BY NormalStep
<1>3. ProcessSpec /\ build = "normal" => Spec
  BY <1>1, <1>2, ProcessInvariant, PTL DEF ProcessSpec, Spec
<1> QED BY <1>3, R0IsZero, InterpreterImplementsISA, DivisionIsExact,
           CompareDecidesJump

(***************************************************************************)
(* The debugger build is a debugging session, from the start of main on:   *)
(* its breakpoints and countdowns are exact, and main neither starts the   *)
(* program again nor changes a register (main.c:12-77, debugger.c:556).    *)
(***************************************************************************)
THEOREM DebuggerBuildIsSession ==
  ProcessSpec /\ build = "debugger" =>
    DebuggerSpec /\ []BreakpointStops /\ []StepCount /\ R0OnlyByUser
<1>1. ProcessInit /\ build = "debugger" => DebuggerInit /\ build = "debugger"
  BY DEF ProcessInit
<1>2. build = "debugger" /\ [ProcessNext]_allVars
        => (build = "debugger")' /\ [Session]_vars
  <2> SUFFICES ASSUME build = "debugger", [ProcessNext]_allVars
               PROVE  build' = "debugger" /\ [Session]_vars
    OBVIOUS
  <2>1. CASE Execution
    BY <2>1 DEF Execution, processVars, Session
  <2>2. CASE Main \/ UNCHANGED allVars
    BY <2>2, MainLeavesMachine, MainKeepsBuild DEF allVars, processVars
  <2> QED BY <2>1, <2>2 DEF ProcessNext, Main
<1>3. ProcessSpec /\ build = "debugger" => DebuggerSpec
  BY <1>1, <1>2, PTL DEF ProcessSpec, DebuggerSpec
<1> QED BY <1>3, BreakpointsAreExact, CountdownIsExact, R0StaysInSessions
=============================================================================
