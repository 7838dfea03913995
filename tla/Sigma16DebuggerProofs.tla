------------------------ MODULE Sigma16DebuggerProofs ------------------------
(***************************************************************************)
(* Type correctness of a debugging session, the exactness of a countdown   *)
(* and of breakpoints, the transparency of the debugger, and what becomes  *)
(* of R0 and of the results of instructions, for all programs, all         *)
(* commands and sessions of any length.                                    *)
(***************************************************************************)
EXTENDS Sigma16Debugger, Sigma16VMProofs

-----------------------------------------------------------------------------
(* The steps of a session, by what they do to control and to the context. *)

LEMMA TypeData == TypeOK <=> \E z \in Word : DataInv(z)
BY DEF TypeOK, DataInv, Reg

(* A command lets the handler go on, prompts again, or ends the process. *)
Resumed ==
  /\ Prompting /\ Resume
  /\ \/ \E n \in StepInputs :
          /\ n_steps' = IF n >= 0 THEN n ELSE -1
          /\ asked' = IF n > 0 THEN n ELSE 0
          /\ early' = IF label = "exec_start" THEN 1 ELSE 0
          /\ ran' = 0
     \/ /\ asked' = IF n_steps > 0 THEN asked ELSE 0
        /\ UNCHANGED <<n_steps, early, ran>>

Stayed ==
  /\ Prompting
  /\ \/ UNCHANGED regs
     \/ \E r \in RegInputs, v \in ValInputs : regs' = [regs EXCEPT ![r] = v]
  /\ \/ UNCHANGED breakpoints
     \/ \E a \in BpInputs : breakpoints' = <<a>> \o breakpoints
  /\ trace' \in {trace, ~trace}
  /\ reply' \in {"none", "invalid register", "invalid command"}
  /\ UNCHANGED <<ir, pc, adr, mem, stdout, phase, label, n_steps, at,
                 historyVars>>

Died ==
  /\ Prompting
  /\ phase' \in {"exited", "aborted"}
  /\ reply' \in {"none", "invalid breakpoint", reply}
  /\ UNCHANGED <<regs, ir, pc, adr, mem, stdout, label, n_steps, trace,
                 breakpoints, at, historyVars>>

LEMMA CommandStep ==
  ASSUME Command
  PROVE  Resumed \/ Stayed \/ Died
<1>1. CASE (\E n \in StepInputs : debugger_step(n)) \/ debugger_continue
  BY <1>1 DEF debugger_step, debugger_continue, Resumed
<1>2. CASE \E r \in RegInputs, v \in ValInputs : debugger_write_reg(r, v)
  BY <1>2 DEF debugger_write_reg, Reprompt, Stayed
<1>3. CASE \E a \in BpInputs : debugger_set_breakpoint(a)
  BY <1>3 DEF debugger_set_breakpoint, Reprompt, Stayed, vmVars
<1>4. CASE \/ debugger_trace \/ \E r \in RegInputs : debugger_read_reg(r)
           \/ debugger_display \/ invalid_command
  BY <1>4 DEF debugger_trace, debugger_read_reg, debugger_display,
              invalid_command, Reprompt, Stayed, vmVars
<1>5. CASE \/ debugger_exit \/ debugger_error \/ parse_cmd_set_breakpoint
           \/ parse_cmd_eof \/ create_arg_null \/ debugger_dump_mem_fault
  BY <1>5 DEF debugger_exit, debugger_error, parse_cmd_set_breakpoint,
              parse_cmd_eof, create_arg_null, debugger_dump_mem_fault, Die, Died
<1> QED BY <1>1, <1>2, <1>3, <1>4, <1>5 DEF Command

(* The stages come in order. *)
LEMMA StageOrder ==
  ASSUME NEW s, NEW n
  PROVE  /\ NextStage(s, n) \in Stage \cup {"return"}
         /\ NextStage(s, n) = "steps" => s = "entry" /\ n = 0
         /\ NextStage(s, n) = "return" =>
              ~(s = "entry" /\ n = 0) /\ (s = "breakpoint" \/ ~BreakpointAt(pc))
         /\ NextStage(s, n) = "breakpoint" => BreakpointAt(pc)
         /\ s = "breakpoint" => NextStage(s, n) = "return"
BY DEF NextStage, Stage

LEMMA GoToStep ==
  ASSUME phase = "handler", NEW s \in Stage \cup {"return"}, GoTo(s)
  PROVE  /\ UNCHANGED <<regs, ir, pc, adr, mem, stdout, label>>
         /\ s \in Stage => at' = s /\ phase' = "handler"
         /\ s = "return" =>
              /\ at' = "entry"
              /\ phase' = IF label = "exec_start"       THEN "dispatch"
                          ELSE IF label = "end_hotloop" THEN "halted"
                          ELSE "execute"
BY DEF GoTo, HandlerReturn, Stage, vmVars

(* The stage a handler call goes on to, with the steps it takes. *)
LEMMA YieldStep ==
  ASSUME yield_debugger_counts
  PROVE  \E s \in Stage \cup {"return"} :
           s = NextStage("entry", Countdown(n_steps)) /\ GoTo(s)
           /\ prompted' = {s} \ {"return"}
BY StageOrder DEF yield_debugger_counts

(* A handler call that dies while it traces leaves all but the phase. *)
LEMMA FaultStep ==
  ASSUME yield_debugger_faults
  PROVE  /\ at = "entry" /\ phase = "handler" /\ phase' = "aborted"
         /\ UNCHANGED <<regs, ir, pc, adr, mem, stdout, label, n_steps, trace,
                        breakpoints, at, reply, asked, early, ran, prompted>>
BY DEF yield_debugger_faults, trace_rrr_faults, ctxVars, historyVars

LEMMA ResumeStep ==
  ASSUME Resume
  PROVE  \E s \in Stage \cup {"return"} :
           s = NextStage(at, n_steps) /\ GoTo(s)
           /\ prompted' = prompted \cup ({s} \ {"return"})
BY StageOrder DEF Resume

-----------------------------------------------------------------------------
(* Types. *)

CtxTypeOK ==
  /\ n_steps \in Int /\ n_steps >= -1
  /\ trace \in BOOLEAN
  /\ breakpoints \in Seq(BpInputs)
  /\ at \in Stage \cup {"entry"}
  /\ at # "entry" => phase \in {"handler", "exited", "aborted"}
  /\ reply \in {"none", "invalid command", "invalid register",
                "invalid breakpoint"}
  /\ asked \in Nat /\ early \in {0, 1} /\ ran \in Nat
  /\ prompted \subseteq Stage

LEMMA DebuggerTypeSplit == DebuggerTypeOK <=> TypeOK /\ CtxTypeOK
BY DEF DebuggerTypeOK, CtxTypeOK

LEMMA SessionData ==
  ASSUME TypeOK, [Session]_vars
  PROVE  TypeOK'
<1>1. PICK z \in Word : DataInv(z)
  BY TypeData
<1>2. CASE Interpret
  <2>1. DataInv(z)'
    BY <1>1, <1>2, DataNext DEF Interpret, Next
  <2> QED BY <2>1 DEF DataInv
<1>3. ASSUME NEW s \in Stage \cup {"return"}, phase = "handler", GoTo(s)
      PROVE  TypeOK'
  <2>1. phase' \in Phase /\ UNCHANGED <<regs, ir, pc, adr, mem, stdout, label>>
    BY <1>3, GoToStep DEF Phase, Final
  <2> QED BY <2>1 DEF TypeOK
<1>4. CASE yield_debugger
  <2>1. CASE yield_debugger_faults
    BY <2>1, FaultStep DEF TypeOK, Phase, Final
  <2>2. CASE yield_debugger_counts
    BY <1>3, <2>2, YieldStep DEF yield_debugger_counts
  <2> QED BY <1>4, <2>1, <2>2 DEF yield_debugger
<1>5. CASE Resumed
  BY <1>3, <1>5, ResumeStep DEF Resumed, Prompting
<1>6. CASE Stayed
  <2>1. regs' \in [Reg -> Word]
    BY <1>6, DebuggerAssumption DEF Stayed, TypeOK
  <2> QED BY <1>6, <2>1 DEF Stayed, TypeOK
<1>7. CASE Died
  BY <1>7 DEF Died, TypeOK, Phase, Final
<1>8. CASE SessionEnded \/ UNCHANGED vars
  BY <1>8 DEF SessionEnded, vars, vmVars, TypeOK
<1> QED BY <1>2, <1>4, <1>5, <1>6, <1>7, <1>8, CommandStep DEF Session

(* The list of breakpoints grows at its head. *)
LEMMA PrependSeq ==
  ASSUME NEW b \in Seq(BpInputs), NEW a \in BpInputs
  PROVE  /\ <<a>> \o b \in Seq(BpInputs)
         /\ Len(<<a>> \o b) = Len(b) + 1
         /\ \A k \in 1..Len(b) : (<<a>> \o b)[k + 1] = b[k]
<1>1. <<a>> \in Seq(BpInputs) /\ Len(<<a>>) = 1
  OBVIOUS
<1> QED BY <1>1, ConcatProperties

LEMMA SessionCtx ==
  ASSUME TypeOK, CtxTypeOK, [Session]_vars
  PROVE  CtxTypeOK'
<1>1. CASE Interpret
  <2>1. ran' \in Nat
    <3>1. ran' = ran \/ ran' = ran + 1
      BY <1>1 DEF Interpret
    <3>2. ran \in Nat
      BY DEF CtxTypeOK
    <3> QED BY <3>1, <3>2
  <2>2. at = "entry"
    BY <1>1, InterpreterStep
       DEF Interpret, InterpretDispatch, InterpretBody, CtxTypeOK
  <2> QED BY <1>1, <2>1, <2>2 DEF Interpret, ctxVars, CtxTypeOK
<1>2. CASE yield_debugger_counts
  <2>1. PICK s \in Stage \cup {"return"} :
          GoTo(s) /\ prompted' = {s} \ {"return"}
    BY <1>2, YieldStep
  <2>2. n_steps' \in Int /\ n_steps' >= -1
    <3>1. n_steps \in Int /\ n_steps' = Countdown(n_steps)
      BY <1>2 DEF yield_debugger_counts, CtxTypeOK
    <3> QED BY <3>1 DEF Countdown
  <2>3. at' \in Stage \cup {"entry"} /\ (at' # "entry" => phase' = "handler")
    BY <1>2, <2>1, GoToStep DEF yield_debugger_counts, Stage
  <2>4. prompted' \subseteq Stage
    BY <2>1
  <2> QED BY <1>2, <2>2, <2>3, <2>4 DEF yield_debugger_counts, CtxTypeOK
<1>3. CASE Resumed
  <2>1. PICK s \in Stage \cup {"return"} :
          GoTo(s) /\ prompted' = prompted \cup ({s} \ {"return"})
    BY <1>3, ResumeStep DEF Resumed
  <2>2. /\ n_steps' \in Int /\ n_steps' >= -1
        /\ asked' \in Nat /\ early' \in {0, 1} /\ ran' \in Nat
    <3>1. CASE \E n \in StepInputs :
                 /\ n_steps' = IF n >= 0 THEN n ELSE -1
                 /\ asked' = IF n > 0 THEN n ELSE 0
                 /\ early' = IF label = "exec_start" THEN 1 ELSE 0
                 /\ ran' = 0
      <4>1. PICK n \in Int :
              /\ n_steps' = IF n >= 0 THEN n ELSE -1
              /\ asked' = IF n > 0 THEN n ELSE 0
        BY <3>1, DebuggerAssumption
      <4>2. n_steps' \in Int /\ n_steps' >= -1 /\ asked' \in Nat
        BY <4>1
      <4> QED BY <3>1, <4>2
    <3>2. CASE /\ asked' = IF n_steps > 0 THEN asked ELSE 0
               /\ UNCHANGED <<n_steps, early, ran>>
      <4>1. asked' \in Nat
        BY <3>2 DEF CtxTypeOK
      <4> QED BY <3>2, <4>1 DEF CtxTypeOK
    <3> QED BY <1>3, <3>1, <3>2 DEF Resumed
  <2>3. at' \in Stage \cup {"entry"} /\ (at' # "entry" => phase' = "handler")
    BY <1>3, <2>1, GoToStep DEF Resumed, Prompting, Stage
  <2>4. prompted' \subseteq Stage
    BY <2>1 DEF CtxTypeOK
  <2> QED BY <1>3, <2>2, <2>3, <2>4 DEF Resumed, Resume, CtxTypeOK
<1>4. CASE Stayed
  <2>1. breakpoints' \in Seq(BpInputs)
    BY <1>4, PrependSeq DEF Stayed, CtxTypeOK
  <2> QED BY <1>4, <2>1 DEF Stayed, historyVars, CtxTypeOK
<1>5. CASE Died
  BY <1>5 DEF Died, historyVars, CtxTypeOK
<1>6. CASE SessionEnded \/ UNCHANGED vars
  BY <1>6 DEF SessionEnded, vars, vmVars, ctxVars, historyVars, CtxTypeOK
<1>7. CASE yield_debugger_faults
  BY <1>7, FaultStep DEF CtxTypeOK
<1> QED BY <1>1, <1>2, <1>3, <1>4, <1>5, <1>6, <1>7, CommandStep
        DEF Session, yield_debugger

LEMMA DebuggerInitTypes ==
  ASSUME DebuggerInit
  PROVE  TypeOK /\ CtxTypeOK
<1>1. TypeOK
  BY DataInit DEF DebuggerInit, DataInv
<1>2. CtxTypeOK
  BY DEF DebuggerInit, CtxTypeOK
<1> QED BY <1>1, <1>2

(***************************************************************************)
(* Machine and debugger keep their types through every session, also when  *)
(* the user overwrites R0 or R15 (debugger.c, all of it).                  *)
(***************************************************************************)
THEOREM DebuggerTypeCorrect == DebuggerSpec => []DebuggerTypeOK
<1>1. DebuggerInit => DebuggerTypeOK
  BY DebuggerInitTypes, DebuggerTypeSplit
<1>2. DebuggerTypeOK /\ [Session]_vars => DebuggerTypeOK'
  <2> SUFFICES ASSUME DebuggerTypeOK, [Session]_vars
               PROVE  DebuggerTypeOK'
    OBVIOUS
  <2>1. TypeOK /\ CtxTypeOK
    BY DebuggerTypeSplit
  <2>2. TypeOK' /\ CtxTypeOK'
    BY <2>1, SessionData, SessionCtx
  <2> QED BY <2>2 DEF DebuggerTypeOK, CtxTypeOK
<1> QED BY <1>1, <1>2, PTL DEF DebuggerSpec

-----------------------------------------------------------------------------
(***************************************************************************)
(* Breakpoints.  While the handler prompts, the stages it has prompted at  *)
(* include "breakpoint" exactly if it is the present one: it is the last.  *)
(***************************************************************************)
BreakpointInv ==
  /\ Prompting => /\ "breakpoint" \in prompted <=> at = "breakpoint"
                  /\ at = "breakpoint" => BreakpointAt(pc)
  /\ BreakpointStops

LEMMA BreakpointYield ==
  ASSUME BreakpointInv, [Session]_vars, yield_debugger_counts
  PROVE  BreakpointInv'
<1>1. PICK s \in Stage \cup {"return"} :
        /\ s = NextStage("entry", Countdown(n_steps))
        /\ GoTo(s)
        /\ prompted' = {s} \ {"return"}
  BY YieldStep
<1>2. BreakpointAt(pc)' <=> BreakpointAt(pc)
  BY <1>1, GoToStep DEF yield_debugger_counts, BreakpointAt
<1>3. CASE s = "return"
  BY <1>1, <1>2, <1>3, StageOrder, GoToStep
     DEF yield_debugger_counts, BreakpointInv, BreakpointStops, Prompting
<1>4. CASE s # "return"
  BY <1>1, <1>2, <1>4, StageOrder, GoToStep
     DEF yield_debugger_counts, BreakpointInv, BreakpointStops, Prompting
<1> QED BY <1>3, <1>4

LEMMA BreakpointResumed ==
  ASSUME BreakpointInv, Resumed
  PROVE  BreakpointInv'
<1>1. PICK s \in Stage \cup {"return"} :
        /\ s = NextStage(at, n_steps)
        /\ GoTo(s)
        /\ prompted' = prompted \cup ({s} \ {"return"})
  BY ResumeStep DEF Resumed
<1>2. BreakpointAt(pc)' <=> BreakpointAt(pc)
  BY <1>1, GoToStep DEF Resumed, Resume, Prompting, BreakpointAt
<1>3. CASE s = "return"
  <2>1. BreakpointAt(pc) <=> "breakpoint" \in prompted
    BY <1>1, <1>3, StageOrder DEF Resumed, BreakpointInv
  <2>2. prompted' = prompted /\ at' = "entry"
    BY <1>1, <1>3, GoToStep DEF Resumed, Prompting
  <2> QED BY <1>2, <2>1, <2>2 DEF BreakpointInv, BreakpointStops, Prompting
<1>4. CASE s # "return"
  BY <1>1, <1>2, <1>4, StageOrder, GoToStep
     DEF Resumed, BreakpointInv, BreakpointStops, Prompting
<1> QED BY <1>3, <1>4

LEMMA BreakpointStayed ==
  ASSUME CtxTypeOK, BreakpointInv, Stayed
  PROVE  BreakpointInv'
<1>1. BreakpointAt(pc) => BreakpointAt(pc)'
  <2> SUFFICES ASSUME NEW k \in 1..Len(breakpoints), breakpoints[k] = pc
               PROVE  \E j \in 1..Len(breakpoints') : breakpoints'[j] = pc
    BY DEF BreakpointAt, Stayed
  <2>1. CASE UNCHANGED breakpoints
    BY <2>1
  <2>2. CASE \E a \in BpInputs : breakpoints' = <<a>> \o breakpoints
    <3>1. PICK a \in BpInputs : breakpoints' = <<a>> \o breakpoints
      BY <2>2
    <3>2. breakpoints \in Seq(BpInputs)
      BY DEF CtxTypeOK
    <3>3. /\ Len(breakpoints') = Len(breakpoints) + 1
          /\ breakpoints'[k + 1] = breakpoints[k]
      BY <3>1, <3>2, PrependSeq
    <3>4. Len(breakpoints) \in Nat
      BY <3>2
    <3>5. k + 1 \in 1..Len(breakpoints')
      BY <3>3, <3>4
    <3> QED BY <3>3, <3>5
  <2> QED BY <2>1, <2>2 DEF Stayed
<1> QED BY <1>1 DEF Stayed, BreakpointInv, BreakpointStops, Prompting, historyVars

(***************************************************************************)
(* An instruction runs after a breakpoint prompt exactly if a breakpoint   *)
(* is set at its address (debugger.c:580), whatever else prompted there    *)
(* and however many breakpoints there are.                                 *)
(***************************************************************************)
THEOREM BreakpointsAreExact == DebuggerSpec => []BreakpointStops
<1>1. DebuggerInit => BreakpointInv
  BY DEF DebuggerInit, Init, BreakpointInv, BreakpointStops, Prompting
<1>2. DebuggerTypeOK /\ BreakpointInv /\ [Session]_vars => BreakpointInv'
  <2> SUFFICES ASSUME DebuggerTypeOK, BreakpointInv, [Session]_vars
               PROVE  BreakpointInv'
    OBVIOUS
  <2>1. TypeOK /\ CtxTypeOK
    BY DebuggerTypeSplit
  <2>2. CASE Interpret
    <3>1. InterpretDispatch \/ InterpretBody
      BY <2>1, <2>2, InterpreterStep DEF Interpret
    <3>2. at = "entry" /\ at' = "entry" /\ phase' # "execute"
      BY <2>1, <2>2, <3>1
         DEF InterpretDispatch, InterpretBody, CtxTypeOK, Interpret, ctxVars
    <3> QED BY <3>2 DEF BreakpointInv, BreakpointStops, Prompting
  <2>3. CASE yield_debugger
    <3>1. CASE yield_debugger_faults
      BY <3>1, FaultStep DEF BreakpointInv, BreakpointStops, Prompting
    <3> QED BY <2>3, <3>1, BreakpointYield DEF yield_debugger
  <2>4. CASE Command
    <3>1. CASE Died
      BY <3>1 DEF Died, BreakpointInv, BreakpointStops, Prompting
    <3> QED BY <2>1, <2>4, <3>1, CommandStep, BreakpointResumed, BreakpointStayed
  <2>5. CASE SessionEnded \/ UNCHANGED vars
    BY <2>5 DEF SessionEnded, vars, vmVars, ctxVars, historyVars,
                BreakpointInv, BreakpointStops, Prompting, BreakpointAt
  <2> QED BY <2>2, <2>3, <2>4, <2>5 DEF Session
<1>3. BreakpointInv => BreakpointStops
  BY DEF BreakpointInv
<1> QED BY <1>1, <1>2, <1>3, DebuggerTypeCorrect, PTL DEF DebuggerSpec

-----------------------------------------------------------------------------
(***************************************************************************)
(* Countdowns.  While one is running, the countdown is the number of       *)
(* instructions still to come, plus one until the handler call of the next *)
(* instruction has counted it; the call at the start of execution counts   *)
(* for nothing once the command was given in it.                           *)
(***************************************************************************)
Due == asked - early - ran

Counted ==
  \/ phase = "execute"
  \/ phase = "handler" /\ at # "entry" /\ label # "exec_start"

Starting == phase = "handler" /\ label = "exec_start"

CountInv ==
  /\ Starting => at # "steps" /\ (at = "entry" => n_steps = -1 /\ asked = 0)
  /\ asked > 0 /\ phase \notin Final =>
       /\ n_steps = IF Counted THEN Due ELSE Due + 1
       /\ n_steps >= 0
       /\ n_steps = 0 <=> at = "steps"
  /\ StepCount

(* What the invariant says of a state outside a final one. *)
LEMMA CountInterpret ==
  ASSUME TypeOK, CtxTypeOK, CountInv, Interpret
  PROVE  CountInv'
<1>1. InterpretDispatch \/ InterpretBody
  BY InterpreterStep DEF Interpret
<1>2. /\ at = "entry" /\ at' = "entry" /\ n_steps' = n_steps
      /\ asked' = asked /\ early' = early
  BY <1>1 DEF InterpretDispatch, InterpretBody, CtxTypeOK, Interpret, ctxVars
<1>3. asked \in Nat /\ early \in {0, 1} /\ ran \in Nat /\ n_steps \in Int
  BY DEF CtxTypeOK
<1>4. ~Starting'
  BY <1>1 DEF InterpretDispatch, InterpretBody, Starting, InstLabels,
              RRRLabels, RXLabels
<1>5. CASE InterpretDispatch
  <2>1. ~Counted /\ ~Counted' /\ phase \notin Final
    BY <1>2, <1>5 DEF InterpretDispatch, Counted, Final
  <2>2. ran' = ran
    BY <1>5 DEF InterpretDispatch, Interpret
  <2> QED BY <1>2, <1>3, <1>4, <2>1, <2>2 DEF CountInv, StepCount, Due
<1>6. CASE InterpretBody
  <2>1. Counted /\ ~Counted' /\ phase \notin Final
    BY <1>2, <1>6 DEF InterpretBody, Counted, Final
  <2>2. CASE asked > 0
    <3>1. n_steps = Due /\ n_steps > 0
      BY <1>2, <1>3, <2>1, <2>2 DEF CountInv
    <3>2. ran <= asked
      BY <1>3, <3>1 DEF Due
    <3>3. IF phase' = "crashed" THEN ran' = ran ELSE ran' = ran + 1
      BY <1>6, <2>2, <3>2 DEF InterpretBody, Interpret
    <3>4. CASE phase' = "crashed"
      BY <1>2, <1>3, <1>4, <3>1, <3>3, <3>4 DEF CountInv, StepCount, Due, Final
    <3>5. CASE phase' # "crashed"
      BY <1>2, <1>3, <1>4, <2>1, <3>1, <3>3, <3>5
         DEF CountInv, StepCount, Due
    <3> QED BY <3>4, <3>5
  <2>3. CASE ~(asked > 0)
    BY <1>2, <1>4, <2>3 DEF CountInv, StepCount
  <2> QED BY <2>2, <2>3
<1> QED BY <1>1, <1>5, <1>6

LEMMA CountYield ==
  ASSUME CtxTypeOK, CountInv, yield_debugger_counts
  PROVE  CountInv'
<1>1. PICK s \in Stage \cup {"return"} :
        s = NextStage("entry", Countdown(n_steps)) /\ GoTo(s)
  BY YieldStep
<1>2. /\ phase = "handler" /\ at = "entry" /\ label' = label
      /\ n_steps' = Countdown(n_steps)
      /\ asked' = asked /\ early' = early /\ ran' = ran
  BY <1>1, GoToStep DEF yield_debugger_counts
<1>3. asked \in Nat /\ early \in {0, 1} /\ ran \in Nat /\ n_steps \in Int
  BY DEF CtxTypeOK
<1>4. /\ s = "steps" => n_steps' = 0
      /\ s = "return" => n_steps' # 0
  BY <1>1, <1>2, StageOrder
<1>5. CASE Starting
  <2>1. n_steps' = -1 /\ asked = 0 /\ s # "steps"
    BY <1>2, <1>4, <1>5 DEF CountInv, Countdown
  <2>2. at' # "steps" /\ (at' = "entry" => ~Starting')
    BY <1>1, <1>2, <1>5, <2>1, GoToStep DEF Starting, Stage
  <2> QED BY <1>2, <2>1, <2>2 DEF CountInv, StepCount
<1>6. CASE ~Starting
  <2>1. label # "exec_start" /\ ~Starting'
    BY <1>2, <1>6 DEF Starting
  <2>2. CASE asked > 0
    <3>1. n_steps = Due + 1 /\ n_steps > 0
      BY <1>2, <1>3, <2>2 DEF CountInv, Counted, Final
    <3>2. n_steps' = Due' /\ n_steps' >= 0
      BY <1>2, <1>3, <3>1 DEF Countdown, Due
    <3>3. phase' \in Final \/ Counted'
      BY <1>1, <1>2, <2>1, GoToStep DEF Counted, Stage, Final
    <3>4. at' = "steps" <=> n_steps' = 0
      <4>1. n_steps' = 0 => s = "steps"
        BY <1>1, <1>2 DEF NextStage
      <4>2. at' = "steps" <=> s = "steps"
        BY <1>1, <1>2, GoToStep DEF Stage
      <4> QED BY <1>4, <4>1, <4>2
    <3> QED BY <1>2, <1>3, <2>1, <2>2, <3>2, <3>3, <3>4
            DEF CountInv, StepCount, Due
  <2>3. CASE ~(asked > 0)
    BY <1>2, <2>1, <2>3 DEF CountInv, StepCount
  <2> QED BY <2>2, <2>3
<1> QED BY <1>5, <1>6

(* A command that resumes keeps the countdown, stops or starts one. *)
LEMMA CountResumed ==
  ASSUME CtxTypeOK, CountInv, Resumed
  PROVE  CountInv'
<1>1. PICK s \in Stage \cup {"return"} :
        s = NextStage(at, n_steps) /\ GoTo(s)
  BY ResumeStep DEF Resumed
<1>2. phase = "handler" /\ at # "entry" /\ label' = label /\ s # "steps"
  BY <1>1, StageOrder, GoToStep DEF Resumed, Prompting
<1>3. /\ asked \in Nat /\ early \in {0, 1} /\ ran \in Nat /\ n_steps \in Int
      /\ n_steps >= -1
  BY DEF CtxTypeOK
<1>4. at' # "steps" /\ (at' = "entry" => ~Starting')
  BY <1>1, <1>2, GoToStep DEF Starting, Stage
<1>5. phase' \in Final \/ (Counted' <=> label # "exec_start")
  BY <1>1, <1>2, GoToStep DEF Counted, Stage, Final
<1>6. CASE \E n \in StepInputs :
             /\ n_steps' = IF n >= 0 THEN n ELSE -1
             /\ asked' = IF n > 0 THEN n ELSE 0
             /\ early' = IF label = "exec_start" THEN 1 ELSE 0
             /\ ran' = 0
  <2>1. PICK n \in Int :
          /\ n_steps' = IF n >= 0 THEN n ELSE -1
          /\ asked' = IF n > 0 THEN n ELSE 0
          /\ early' = IF label = "exec_start" THEN 1 ELSE 0
          /\ ran' = 0
    BY <1>6, DebuggerAssumption
  <2>2. CASE n > 0
    <3>1. n_steps' = n /\ asked' = n
      BY <2>1, <2>2
    <3>2. /\ n_steps' > 0 /\ 0 <= asked' - early'
          /\ n_steps' = IF label # "exec_start" THEN Due' ELSE Due' + 1
      BY <2>1, <2>2, <3>1 DEF Due
    <3>3. phase' \in Final \/ n_steps' = IF Counted' THEN Due' ELSE Due' + 1
      BY <1>5, <3>2
    <3>4. n_steps' >= 0 /\ n_steps' # 0 /\ ran' <= asked' - early'
      BY <2>1, <2>2, <3>2
    <3> QED BY <1>4, <3>3, <3>4 DEF CountInv, StepCount
  <2>3. CASE ~(n > 0)
    <3>1. asked' = 0
      BY <2>1, <2>3
    <3> QED BY <1>4, <3>1 DEF CountInv, StepCount
  <2> QED BY <2>2, <2>3
<1>7. CASE /\ asked' = IF n_steps > 0 THEN asked ELSE 0
           /\ UNCHANGED <<n_steps, early, ran>>
  <2>1. CASE asked > 0 /\ n_steps > 0
    <3>1. n_steps = IF label # "exec_start" THEN Due ELSE Due + 1
      BY <1>2, <2>1 DEF CountInv, Counted, Final
    <3>2. asked' = asked /\ Due' = Due
      BY <1>7, <2>1 DEF Due
    <3>3. ran <= asked - early
      BY <2>1 DEF CountInv, StepCount
    <3>4. phase' \in Final \/ n_steps' = IF Counted' THEN Due' ELSE Due' + 1
      BY <1>5, <1>7, <3>1, <3>2
    <3>5. n_steps' >= 0 /\ n_steps' # 0 /\ ran' <= asked' - early'
      BY <1>3, <1>7, <2>1, <3>2, <3>3
    <3> QED BY <1>4, <3>4, <3>5 DEF CountInv, StepCount
  <2>2. CASE ~(asked > 0 /\ n_steps > 0)
    <3>1. ~(asked' > 0)
      BY <1>3, <1>7, <2>2
    <3> QED BY <1>4, <3>1 DEF CountInv, StepCount
  <2> QED BY <2>1, <2>2
<1> QED BY <1>6, <1>7 DEF Resumed

(***************************************************************************)
(* n k stops after k instructions, or k - 1 if it was given before the     *)
(* first one, whatever commands and prompts come between (debugger.c:569,  *)
(* 470), for every k.                                                      *)
(***************************************************************************)
THEOREM CountdownIsExact == DebuggerSpec => []StepCount
<1>1. DebuggerInit => CountInv
  BY DEF DebuggerInit, Init, CountInv, StepCount, Starting
<1>2. DebuggerTypeOK /\ CountInv /\ [Session]_vars => CountInv'
  <2> SUFFICES ASSUME DebuggerTypeOK, CountInv, [Session]_vars
               PROVE  CountInv'
    OBVIOUS
  <2>1. TypeOK /\ CtxTypeOK
    BY DebuggerTypeSplit
  <2>2. CASE Interpret
    BY <2>1, <2>2, CountInterpret
  <2>3. CASE yield_debugger
    <3>1. CASE yield_debugger_faults
      BY <3>1, FaultStep DEF CountInv, StepCount, Starting, Counted, Due, Final
    <3> QED BY <2>1, <2>3, <3>1, CountYield DEF yield_debugger
  <2>4. CASE Resumed
    BY <2>1, <2>4, CountResumed
  <2>5. CASE Stayed
    BY <2>5 DEF Stayed, historyVars, CountInv, StepCount, Starting, Counted, Due
  <2>6. CASE Died
    BY <2>6 DEF Died, historyVars, CountInv, StepCount, Starting, Final
  <2>7. CASE SessionEnded \/ UNCHANGED vars
    BY <2>7 DEF SessionEnded, vars, vmVars, ctxVars, historyVars,
                CountInv, StepCount, Starting, Counted, Due
  <2> QED BY <2>2, <2>3, <2>4, <2>5, <2>6, <2>7, CommandStep DEF Session
<1>3. CountInv => StepCount
  BY DEF CountInv
<1> QED BY <1>1, <1>2, <1>3, DebuggerTypeCorrect, PTL DEF DebuggerSpec

-----------------------------------------------------------------------------
(***************************************************************************)
(* Transparency.  The handler leaves the decoded instruction, the memory   *)
(* and the program counter alone, so the invariants of the interpreter     *)
(* hold in a session too.                                                  *)
(***************************************************************************)
LEMMA GoToControl ==
  ASSUME NEW s, GoTo(s)
  PROVE  sigma16_trace \/ UNCHANGED vmVars
BY DEF GoTo, sigma16_trace

LEMMA SessionVM ==
  ASSUME [Session]_vars
  PROVE  sigma16_vm_exec \/ sigma16_trace \/ UNCHANGED vmVars \/ Stayed \/ Died
<1>1. CASE Interpret
  BY <1>1 DEF Interpret
<1>2. CASE yield_debugger
  BY <1>2, YieldStep, GoToControl
     DEF yield_debugger, yield_debugger_faults, sigma16_trace
<1>3. CASE Resumed
  BY <1>3, ResumeStep, GoToControl DEF Resumed
<1>4. CASE SessionEnded \/ UNCHANGED vars
  BY <1>4 DEF SessionEnded, vars
<1> QED BY <1>1, <1>2, <1>3, <1>4, CommandStep DEF Session

SessionInv == ControlInv /\ DecodeCoherent

LEMMA SessionKeeps ==
  ASSUME DebuggerTypeOK, SessionInv, [Session]_vars
  PROVE  SessionInv'
<1>1. CASE sigma16_vm_exec
  BY <1>1, ControlStep, CoherentStep DEF DebuggerTypeOK, SessionInv
<1>2. CASE sigma16_trace
  BY <1>2, ControlReturn, CoherentReturn DEF SessionInv
<1>3. CASE UNCHANGED vmVars
  BY <1>3 DEF vmVars, SessionInv, ControlInv, DecodeCoherent, IrMatches
<1>4. CASE Stayed
  BY <1>4 DEF Stayed, SessionInv, ControlInv, DecodeCoherent, IrMatches
<1>5. CASE Died
  BY <1>5 DEF Died, SessionInv, ControlInv, DecodeCoherent, IrMatches
<1> QED BY <1>1, <1>2, <1>3, <1>4, <1>5, SessionVM

LEMMA SessionInitInv ==
  ASSUME DebuggerInit
  PROVE  SessionInv
BY DEF DebuggerInit, Init, SessionInv, ControlInv, DecodeCoherent, InstLabels,
       RRRLabels, RXLabels

LEMMA SessionInvariant == DebuggerSpec => []SessionInv
<1>1. DebuggerTypeOK /\ SessionInv /\ [Session]_vars => SessionInv'
  BY SessionKeeps
<1> QED BY <1>1, SessionInitInv, DebuggerTypeCorrect, PTL DEF DebuggerSpec

LEMMA SessionImplements ==
  ASSUME DebuggerTypeOK, SessionInv, [Session]_vars
  PROVE  ISA!Next \/ RegisterWritten \/ UNCHANGED ISA!isaVars
<1>1. CASE sigma16_vm_exec
  BY <1>1, StepImplements DEF DebuggerTypeOK, SessionInv
<1>2. CASE sigma16_trace
  BY <1>2, ReturnImplements
<1>3. CASE UNCHANGED vmVars
  BY <1>3 DEF vmVars, isaStatus, ISA!isaVars
<1>4. CASE Stayed
  <2>1. isaStatus' = isaStatus
    BY <1>4 DEF Stayed, isaStatus
  <2>2. CASE UNCHANGED regs
    BY <1>4, <2>1, <2>2 DEF Stayed, ISA!isaVars
  <2>3. CASE \E r \in RegInputs, v \in ValInputs : regs' = [regs EXCEPT ![r] = v]
    <3>1. PICK r \in Reg, v \in Word : regs' = [regs EXCEPT ![r] = v]
      BY <2>3, DebuggerAssumption
    <3>2. regs'[r] = v
      BY <3>1 DEF DebuggerTypeOK, TypeOK
    <3> QED BY <1>4, <2>1, <3>1, <3>2 DEF Stayed, RegisterWritten
  <2> QED BY <1>4, <2>2, <2>3 DEF Stayed
<1>5. CASE Died
  BY <1>5 DEF Died, Prompting, isaStatus, ISA!isaVars
<1> QED BY <1>1, <1>2, <1>3, <1>4, <1>5, SessionVM

(***************************************************************************)
(* A session is an execution of the abstract machine, apart from the       *)
(* registers the user writes at a prompt (debugger.c:560 against           *)
(* vm.c:129).                                                              *)
(***************************************************************************)
THEOREM DebuggerIsTransparent == DebuggerSpec => TransparentSession
<1>1. DebuggerInit => ISA!Init
  BY InitImplements DEF DebuggerInit
<1>2. DebuggerTypeOK /\ SessionInv /\ [Session]_vars
        => [ISA!Next \/ RegisterWritten]_(ISA!isaVars)
  BY SessionImplements
<1> QED BY <1>1, <1>2, DebuggerTypeCorrect, SessionInvariant, PTL
        DEF DebuggerSpec, TransparentSession

-----------------------------------------------------------------------------
(***************************************************************************)
(* What the debugger does not disturb.                                     *)
(***************************************************************************)
(* Between the handler and DISPATCH nothing but the interpreter runs. *)
LEMMA ExecutesInSession ==
  ASSUME [Session]_vars, phase = "execute"
  PROVE  [sigma16_vm_exec]_vmVars
<1>1. ~yield_debugger /\ ~Command
  <2>1. ~Prompting
    BY DEF Prompting
  <2> QED BY <2>1, CommandStep, FaultStep
          DEF yield_debugger, yield_debugger_counts, Resumed, Stayed, Died
<1> QED BY <1>1 DEF Session, Interpret, SessionEnded, vars

(***************************************************************************)
(* The results of the instructions are those of a run without a debugger:  *)
(* what the user writes to a register at a prompt is an operand like any   *)
(* other (vm.c:111-127, 178-192, debugger.c:433).                          *)
(***************************************************************************)
THEOREM SessionsComputeExactly ==
  DebuggerSpec => DivisionIdentity /\ CompareDecidesBranch /\ []DecodeCoherent
<1>1. TypeOK /\ [Session]_vars =>
        [/\ phase = "execute" /\ label = "do_div"
         /\ B # 0 /\ ir.d \notin {0, 15}
         => A = B * regs'[ir.d] + regs'[15] /\ regs'[15] < B]_vmVars
  <2> SUFFICES ASSUME TypeOK, [Session]_vars, ~UNCHANGED vmVars,
                      phase = "execute", label = "do_div",
                      B # 0, ir.d \notin {0, 15}
               PROVE  A = B * regs'[ir.d] + regs'[15] /\ regs'[15] < B
    OBVIOUS
  <2>1. [Next]_vmVars
    BY ExecutesInSession DEF Next
  <2> QED BY <2>1, AtDiv, DivisionStep
<1>2. TypeOK /\ [Session]_vars
        => [phase = "execute" /\ label = "do_cmp" /\ ir.sa # 15 /\ ir.sb # 15
              => \A alias \in Aliases :
                   Branches(alias)' <=> Relation(alias, Int16(A), Int16(B))]_vmVars
  BY ExecutesInSession, AtCmp, CompareStep DEF Next
<1>3. DebuggerTypeOK => TypeOK
  BY DebuggerTypeSplit
<1>4. SessionInv => DecodeCoherent
  BY DEF SessionInv
<1> QED BY <1>1, <1>2, <1>3, <1>4, DebuggerTypeCorrect, SessionInvariant, PTL
        DEF DebuggerSpec, DivisionIdentity, CompareDecidesBranch

(***************************************************************************)
(* R0 changes only where the user writes it: i 0 v at a prompt gives it    *)
(* the value v (debugger.c:433 has no SAFE_UPDATE), no instruction ever    *)
(* changes it again, and without such a command it stays 0.                *)
(***************************************************************************)
R0OnlyByUser ==
  [][regs'[0] # regs[0]
       => Prompting /\ 0 \in RegInputs /\ regs'[0] \in ValInputs]_vars

THEOREM R0StaysInSessions ==
  DebuggerSpec => R0OnlyByUser /\ (0 \notin RegInputs => []R0Zero)
<1>1. TypeOK /\ [Session]_vars
        => [regs'[0] # regs[0]
              => Prompting /\ 0 \in RegInputs /\ regs'[0] \in ValInputs]_vars
  <2> SUFFICES ASSUME TypeOK, [Session]_vars, regs'[0] # regs[0]
               PROVE  Prompting /\ 0 \in RegInputs /\ regs'[0] \in ValInputs
    OBVIOUS
  <2>1. DataInv(regs[0]) /\ regs \in [Reg -> Word] /\ 0 \in Reg
    BY DEF DataInv, TypeOK, Reg
  <2>2. ~sigma16_vm_exec
    <3>1. ASSUME NEW z \in Word, DataInv(z), sigma16_vm_exec
          PROVE  regs'[0] = regs[0]
      BY <3>1, DataNext DEF Next, DataInv
    <3> QED BY <2>1, <3>1
  <2>3. ~sigma16_trace /\ ~UNCHANGED vmVars /\ ~Died
    BY DEF sigma16_trace, HandlerReturn, trace_rrr_faults, vmVars, Died
  <2>4. Stayed
    BY <2>2, <2>3, SessionVM
  <2>5. PICK r \in RegInputs, v \in ValInputs : regs' = [regs EXCEPT ![r] = v]
    BY <2>4 DEF Stayed
  <2>6. r = 0 /\ regs'[0] = v
    BY <2>1, <2>5
  <2> QED BY <2>4, <2>5, <2>6 DEF Stayed
<1>2. DebuggerInit => R0Zero
  BY DEF DebuggerInit, Init, R0Zero, Reg
<1>3. ASSUME 0 \notin RegInputs
      PROVE  R0Zero /\ TypeOK /\ [Session]_vars => R0Zero'
  BY <1>1, <1>3 DEF R0Zero, vars, vmVars
<1>4. DebuggerTypeOK => TypeOK
  BY DebuggerTypeSplit
<1>5. DebuggerSpec => R0OnlyByUser
  BY <1>1, <1>4, DebuggerTypeCorrect, PTL DEF DebuggerSpec, R0OnlyByUser
<1>6. ASSUME 0 \notin RegInputs
      PROVE  DebuggerSpec => []R0Zero
  <2>1. R0Zero /\ TypeOK /\ [Session]_vars => R0Zero'
    BY <1>3, <1>6
  <2> QED BY <1>2, <2>1, <1>4, DebuggerTypeCorrect, PTL DEF DebuggerSpec
<1> QED BY <1>5, <1>6
=============================================================================
