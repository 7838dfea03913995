--------------------------- MODULE Sigma16Debugger ---------------------------
(***************************************************************************)
(* The interpreter with the interactive debugger as its trace handler      *)
(* (debugger.c).  A handler call may prompt up to three times, at stages   *)
(* in a fixed order: when the countdown of a step command is over, at the  *)
(* start and at the end of execution, and at a breakpoint.  At a prompt    *)
(* the user gives any command; some let the handler go on to its next      *)
(* stage, the others prompt again.                                         *)
(***************************************************************************)
EXTENDS Sigma16VM

CONSTANTS
  StepInputs,      \* arguments of the command n
  BpInputs,        \* addresses given to b, already wrapped to uint16_t
  RegInputs,       \* registers given to i and o
  ValInputs,       \* values given to i, already wrapped to uint16_t
  MaxBreakpoints   \* bound: breakpoints set in a session

ASSUME DebuggerAssumption ==
  /\ StepInputs \subseteq Int
  /\ BpInputs \subseteq Word
  /\ RegInputs \subseteq Reg
  /\ ValInputs \subseteq Word
  /\ MaxBreakpoints \in Nat

VARIABLES
  n_steps,      \* ctx->n_steps, with every negative value as -1
  trace,        \* ctx->trace
  breakpoints,  \* ctx->breakpoints, the addresses with the newest first
  at,           \* the stage of yield_debugger that prompts, or "entry"
  reply         \* the last error message of the prompt

(* What has happened, for the properties only. *)
VARIABLES
  asked,        \* argument of the last n still counting down, or 0
  early,        \* 1 if that n was given before the first instruction
  ran,          \* instructions executed since that n
  prompted      \* the stages this handler call has prompted at

ctxVars == <<n_steps, trace, breakpoints, at, reply>>
historyVars == <<asked, early, ran, prompted>>
vars == <<vmVars, ctxVars, historyVars>>

Stage == {"steps", "event", "breakpoint"}

(* debugger_init; sigma16_vm_exec then calls yield_debugger. *)
DebuggerInit ==
  /\ Init
  /\ n_steps = -1
  /\ trace = TRUE
  /\ breakpoints = << >>
  /\ at = "entry"
  /\ reply = "none"
  /\ asked = 0 /\ early = 0 /\ ran = 0
  /\ prompted = {}

DebuggerTypeOK ==
  /\ TypeOK
  /\ n_steps \in Int /\ n_steps >= -1
  /\ trace \in BOOLEAN
  /\ breakpoints \in Seq(BpInputs)
  /\ at \in Stage \cup {"entry"}
  /\ at # "entry" => phase \in {"handler", "exited", "aborted"}
  /\ reply \in {"none", "invalid command", "invalid register",
                "invalid breakpoint"}
  /\ asked \in Nat /\ early \in {0, 1} /\ ran \in Nat
  /\ prompted \subseteq Stage

-----------------------------------------------------------------------------
(***************************************************************************)
(* yield_debugger.  A countdown that is not running stays negative.        *)
(***************************************************************************)
(* Mutant: the countdown is part of tracing. *)
Countdown_when_traced(n) ==
  IF ~trace THEN n ELSE IF n > 0 THEN n - 1 ELSE -1

Countdown(n) == IF n > 0 THEN n - 1 ELSE -1

BreakpointAt(a) == \E k \in 1..Len(breakpoints) : breakpoints[k] = a

(* Mutant: a breakpoint is only looked for when nothing else prompted. *)
NextStage_exclusive(s, n) ==
  IF s = "entry" /\ n = 0
    THEN "steps"
  ELSE IF s \in {"entry", "steps"} /\ Event(label) \in {"EXEC_START", "EXEC_END"}
    THEN "event"
  ELSE IF s = "entry" /\ BreakpointAt(pc)
    THEN "breakpoint"
  ELSE "return"

(* The stage after s in a handler call that entered with countdown n. *)
NextStage(s, n) ==
  IF s = "entry" /\ n = 0
    THEN "steps"
  ELSE IF s \in {"entry", "steps"} /\ Event(label) \in {"EXEC_START", "EXEC_END"}
    THEN "event"
  ELSE IF s # "breakpoint" /\ BreakpointAt(pc)
    THEN "breakpoint"
  ELSE "return"

(* Prompt at stage s, or return to the interpreter. *)
GoTo(s) ==
  IF s = "return"
    THEN HandlerReturn /\ at' = "entry"
    ELSE at' = s /\ UNCHANGED vmVars

(* While tracing is on sigma16_trace is called first. *)
yield_debugger_faults ==
  /\ at = "entry" /\ trace /\ trace_rrr_faults
  /\ UNCHANGED <<ctxVars, historyVars>>

yield_debugger_counts ==
  /\ phase = "handler" /\ at = "entry"
  /\ n_steps' = Countdown(n_steps)
  /\ LET s == NextStage("entry", n_steps')
     IN  GoTo(s) /\ prompted' = {s} \ {"return"}
  /\ UNCHANGED <<trace, breakpoints, reply, asked, early, ran>>

yield_debugger == yield_debugger_faults \/ yield_debugger_counts

-----------------------------------------------------------------------------
(***************************************************************************)
(* debugger_interactive: the commands.                                     *)
(***************************************************************************)
Prompting == phase = "handler" /\ at # "entry"

(* RESUME: the handler goes on to its next stage. *)
Resume ==
  LET s == NextStage(at, n_steps)
  IN  /\ GoTo(s)
      /\ prompted' = prompted \cup ({s} \ {"return"})
      /\ reply' = "none"
      /\ UNCHANGED <<trace, breakpoints>>

(* Mutant: every countdown is one longer, to make up for a start event. *)
debugger_step_plus(n) ==
  /\ Prompting
  /\ n_steps' = IF n >= 0 THEN n + 1 ELSE -1
  /\ asked' = IF n > 0 THEN n ELSE 0
  /\ early' = IF label = "exec_start" THEN 1 ELSE 0
  /\ ran' = 0
  /\ Resume

debugger_step(n) ==
  /\ Prompting
  /\ n_steps' = IF n >= 0 THEN n ELSE -1
  /\ asked' = IF n > 0 THEN n ELSE 0
  /\ early' = IF label = "exec_start" THEN 1 ELSE 0
  /\ ran' = 0
  /\ Resume

(* A countdown in progress goes on. *)
debugger_continue ==
  /\ Prompting
  /\ asked' = IF n_steps > 0 THEN asked ELSE 0
  /\ Resume
  /\ UNCHANGED <<n_steps, early, ran>>

(* PROMPT: with message m, and the handler where it was. *)
Reprompt(m) ==
  /\ Prompting
  /\ reply' = m
  /\ UNCHANGED <<n_steps, at, historyVars>>

debugger_trace ==
  /\ Reprompt("none")
  /\ trace' = ~trace
  /\ UNCHANGED <<vmVars, breakpoints>>

InvalidRegister(r) == 0 < r /\ r < 15

debugger_write_reg(r, v) ==
  /\ IF InvalidRegister(r)
       THEN Reprompt("invalid register") /\ UNCHANGED regs
       ELSE Reprompt("none") /\ regs' = [regs EXCEPT ![r] = v]
  /\ UNCHANGED <<ir, pc, adr, mem, stdout, phase, label, trace, breakpoints>>

debugger_read_reg(r) ==
  /\ Reprompt(IF InvalidRegister(r) THEN "invalid register" ELSE "none")
  /\ UNCHANGED <<vmVars, trace, breakpoints>>

(* Mutant: the breakpoint is a trap planted in the program. *)
debugger_set_breakpoint_trap(a) ==
  /\ Len(breakpoints) < MaxBreakpoints
  /\ Reprompt("none")
  /\ breakpoints' = <<a>> \o breakpoints
  /\ mem' = Poke(mem, a, 208)
  /\ UNCHANGED <<regs, ir, pc, adr, stdout, phase, label, trace>>

debugger_set_breakpoint(a) ==
  /\ Len(breakpoints) < MaxBreakpoints
  /\ Reprompt("none")
  /\ breakpoints' = <<a>> \o breakpoints
  /\ UNCHANGED <<vmVars, trace>>

(* ?, d and m only print. *)
debugger_display ==
  /\ Reprompt("none")
  /\ UNCHANGED <<vmVars, trace, breakpoints>>

(* An unknown command, an i or o without its arguments, no memory. *)
invalid_command ==
  /\ Reprompt("invalid command")
  /\ UNCHANGED <<vmVars, trace, breakpoints>>

(***************************************************************************)
(* The prompt ends the process: exit(0), or abort() when there is no       *)
(* memory for the breakpoint.                                              *)
(***************************************************************************)
Die(p, m) ==
  /\ Prompting
  /\ phase' = p
  /\ reply' = m
  /\ UNCHANGED <<regs, ir, pc, adr, mem, stdout, label, n_steps, trace,
                 breakpoints, at, historyVars>>

debugger_exit == Die("exited", "none")

debugger_error == Len(breakpoints) < MaxBreakpoints /\ Die("aborted", "none")

(* b without an argument: a message, then strtol of NULL. *)
parse_cmd_set_breakpoint == Die("aborted", "invalid breakpoint")

(* End of the input: add_history of NULL; later ones are invalid commands. *)
parse_cmd_eof == Die("aborted", reply)

(* The command has no memory for its arguments, and writes to NULL. *)
create_arg_null == Die("aborted", reply)

(* m reads past the mapping. *)
debugger_dump_mem_fault == Die("aborted", reply)

Command ==
  \/ \E n \in StepInputs : debugger_step(n)
  \/ debugger_continue
  \/ debugger_trace
  \/ \E r \in RegInputs, v \in ValInputs : debugger_write_reg(r, v)
  \/ \E r \in RegInputs : debugger_read_reg(r)
  \/ \E a \in BpInputs : debugger_set_breakpoint(a)
  \/ debugger_display
  \/ invalid_command
  \/ debugger_exit
  \/ debugger_error
  \/ parse_cmd_set_breakpoint
  \/ parse_cmd_eof
  \/ create_arg_null
  \/ debugger_dump_mem_fault

-----------------------------------------------------------------------------
(* The interpreter between two handler calls.  One instruction more than   *)
(* the number asked for is counted, and no further one.                    *)
Interpret ==
  /\ sigma16_vm_exec
  /\ ran' = IF /\ phase = "execute" /\ phase' # "crashed"
               /\ 0 < asked /\ ran <= asked
              THEN ran + 1 ELSE ran
  /\ UNCHANGED <<ctxVars, asked, early, prompted>>

SessionEnded == phase \in Final /\ UNCHANGED vars

Session == Interpret \/ yield_debugger \/ Command \/ SessionEnded

DebuggerSpec == DebuggerInit /\ [][Session]_vars

(***************************************************************************)
(* The program is never blocked outside a prompt.  Nothing is assumed of   *)
(* the user.                                                               *)
(***************************************************************************)
FairDebuggerSpec == DebuggerSpec /\ WF_vars(Interpret \/ yield_debugger)

-----------------------------------------------------------------------------
(***************************************************************************)
(* The debugger does not change what the program does: apart from          *)
(* registers that the user writes at a prompt, a session is an execution   *)
(* of the abstract machine, wherever it stops and whatever is set there    *)
(* (debugger.c:560 against vm.c:129).                                      *)
(***************************************************************************)
RegisterWritten ==
  /\ Prompting
  /\ \E r \in Reg : regs' = [regs EXCEPT ![r] = regs'[r]]
  /\ UNCHANGED <<pc, mem, stdout, isaStatus>>

TransparentSession ==
  ISA!Init /\ [][ISA!Next \/ RegisterWritten]_(ISA!isaVars)

(***************************************************************************)
(* n k stops after k instructions, neither early nor late, whatever other  *)
(* prompts and commands come between (debugger.c:569, 470).  Given before  *)
(* the first instruction it stops after k - 1, for the start event has     *)
(* been counted already.                                                   *)
(***************************************************************************)
StepCount ==
  asked > 0 => /\ ran <= asked - early
               /\ at = "steps" => ran = asked - early

(***************************************************************************)
(* An instruction runs after a breakpoint prompt if and only if there is a *)
(* breakpoint at its address by the end of its handler call: also when the *)
(* countdown or the start of execution prompted there too, and when the    *)
(* breakpoint was set at that earlier prompt (debugger.c:580).             *)
(***************************************************************************)
BreakpointStops ==
  phase = "execute" => (BreakpointAt(pc) <=> "breakpoint" \in prompted)

(***************************************************************************)
(* A countdown in progress ends at a prompt or with the process, even in a *)
(* program that never ends (debugger.c:569).                               *)
(***************************************************************************)
StepReturns ==
  n_steps > 0 /\ ~Prompting ~> Prompting \/ phase \in Final

(***************************************************************************)
(* "n (int): execute n steps" (README.md:51): at the prompt that ends the  *)
(* countdown, the number of instructions asked for has been executed.      *)
(***************************************************************************)
ExecutesNSteps == asked > 0 /\ at = "steps" => ran = asked
=============================================================================
