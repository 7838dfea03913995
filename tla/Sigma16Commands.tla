--------------------------- MODULE Sigma16Commands ---------------------------
(***************************************************************************)
(* The prompt of the debugger as the code has it: a line is read, parsed   *)
(* into a command that lives on the heap, run and released.  In            *)
(* Sigma16Debugger all this is one step, which this module implements.  A  *)
(* line is its first word and the numbers that follow (strtol).            *)
(***************************************************************************)
EXTENDS Sigma16Debugger

CONSTANTS
  Lines,      \* lines of the user: records with name and vals
  MaxEmpty    \* bound: empty lines in a session

ASSUME CommandsAssumption ==
  /\ \A l \in Lines : l.name \in STRING /\ l.vals \in Seq(Int)
  /\ MaxEmpty \in Nat

VARIABLES
  step,    \* "readline", "parse" or "run"
  input,   \* the line being handled
  empty,   \* empty lines so far
  live     \* how many of each kind of object are allocated

promptVars == <<step, input, empty, live>>
commandsVars == <<vars, promptVars>>

Kinds == {"line", "command", "arguments"}

NoLine == [name |-> "", vals |-> << >>]

CommandsInit ==
  /\ DebuggerInit
  /\ step = "readline"
  /\ input = NoLine
  /\ empty = 0
  /\ live = [k \in Kinds |-> 0]

CommandsTypeOK ==
  /\ DebuggerTypeOK
  /\ step \in {"readline", "parse", "run"}
  /\ input \in Lines \cup {NoLine}
  /\ empty \in Nat
  /\ live \in [Kinds -> Nat]

-----------------------------------------------------------------------------
(***************************************************************************)
(* parse_cmd.                                                              *)
(***************************************************************************)
Names == {"n", "b", "i", "o", "t", "?", "c", "d", "m", "e"}

(* parse_int_default of the k-th argument. *)
Value(l, k, default) == IF k <= Len(l.vals) THEN l.vals[k] ELSE default

(* Mutant: n without an argument makes no step. *)
Arguments_zero(l) ==
  CASE l.name = "n"         -> <<Value(l, 1, 0)>>
    [] l.name \in {"b", "o"} -> <<l.vals[1]>>
    [] l.name = "i"         -> <<l.vals[1], l.vals[2]>>
    [] l.name = "m"         -> <<Value(l, 1, 256), Value(l, 2, 0)>>
    [] OTHER                -> << >>

(* The argument array of the command that l is parsed into. *)
Arguments(l) ==
  CASE l.name = "n"         -> <<Value(l, 1, 1)>>
    [] l.name \in {"b", "o"} -> <<l.vals[1]>>
    [] l.name = "i"         -> <<l.vals[1], l.vals[2]>>
    [] l.name = "m"         -> <<Value(l, 1, 256), Value(l, 2, 0)>>
    [] OTHER                -> << >>

(* An unknown word, a line of blanks, i or o without its arguments. *)
Refused(l) ==
  \/ l.name \notin Names
  \/ l.name = "i" /\ Len(l.vals) < 2
  \/ l.name = "o" /\ l.vals = << >>

Malformed(l) == l.name = "b" /\ l.vals = << >>

(* The user gives the debugger no other numbers than those of a command of *)
(* Sigma16Debugger, once they are stored.                                  *)
ASSUME LinesAssumption ==
  \A l \in Lines :
    LET n == Len(l.vals)
    IN  /\ l.name = "n" => Value(l, 1, 1) \in StepInputs
        /\ l.name = "b" /\ n >= 1 => U16(l.vals[1]) \in BpInputs
        /\ l.name = "i" /\ n >= 2 => /\ l.vals[1] \in RegInputs
                                     /\ U16(l.vals[2]) \in ValInputs
        /\ l.name = "o" /\ n >= 1 => l.vals[1] \in RegInputs

(* An empty line is read again; its memory is not released. *)
readline_empty ==
  /\ Prompting /\ step = "readline"
  /\ empty < MaxEmpty
  /\ empty' = empty + 1
  /\ live' = [live EXCEPT !["line"] = @ + 1]
  /\ UNCHANGED <<vars, step, input>>

readline(l) ==
  /\ Prompting /\ step = "readline"
  /\ l.name = "b" => Len(breakpoints) < MaxBreakpoints
  /\ input' = l
  /\ live' = [live EXCEPT !["line"] = @ + 1]
  /\ step' = "parse"
  /\ UNCHANGED <<vars, empty>>

readline_eof ==
  /\ step = "readline"
  /\ parse_cmd_eof
  /\ UNCHANGED promptVars

(* No command: the line is refused, or there is no memory for one. *)
parse_cmd_null ==
  /\ step = "parse" /\ ~Malformed(input)
  /\ invalid_command
  /\ live' = [live EXCEPT !["line"] = @ - 1]
  /\ step' = "readline"
  /\ UNCHANGED <<input, empty>>

parse_cmd_dies ==
  /\ step = "parse" /\ ~Refused(input)
  /\ \/ Malformed(input) /\ parse_cmd_set_breakpoint
     \/ ~Malformed(input) /\ Arguments(input) # << >> /\ create_arg_null
  /\ UNCHANGED promptVars

parse_cmd ==
  /\ step = "parse" /\ ~Refused(input) /\ ~Malformed(input)
  /\ live' = [live EXCEPT
       !["line"] = @ - 1,
       !["command"] = @ + 1,
       !["arguments"] = @ + (IF Arguments(input) = << >> THEN 0 ELSE 1)]
  /\ step' = "run"
  /\ UNCHANGED <<vars, input, empty>>

-----------------------------------------------------------------------------
(***************************************************************************)
(* debugger_interactive runs the command and releases it.                  *)
(***************************************************************************)
(* Mutant: the arguments are released whether there are any or not. *)
destroy_cmd_unchecked ==
  live' = [live EXCEPT !["command"] = @ - 1, !["arguments"] = @ - 1]

(* Mutant: the arguments are only released for a restart. *)
destroy_cmd_restart == live' = [live EXCEPT !["command"] = @ - 1]

destroy_cmd ==
  live' = [live EXCEPT
    !["command"] = @ - 1,
    !["arguments"] = @ - (IF Arguments(input) = << >> THEN 0 ELSE 1)]

(* The addresses that m shows, and whether it survives that.  The bounds   *)
(* are compared as size_t, where a negative one is past every other.       *)
Shows(a) ==
  IF a[1] < 0 /\ a[2] >= 0 THEN Word
  ELSE IF a[1] >= 0 /\ a[2] < 0 THEN {}
  ELSE {U16(k) : k \in a[2]..(a[1] - 1)}

debugger_dump_mem(a) ==
  \/ (Shows(a) \subseteq Address \/ Foreign # {}) /\ debugger_display
  \/ ~(Shows(a) \subseteq Address) /\ debugger_dump_mem_fault

(* Every number becomes a uint16_t where it is stored. *)
Handler(name, a) ==
  \/ name = "n" /\ debugger_step(a[1])
  \/ name = "c" /\ debugger_continue
  \/ name = "t" /\ debugger_trace
  \/ name = "i" /\ debugger_write_reg(a[1], U16(a[2]))
  \/ name = "o" /\ debugger_read_reg(a[1])
  \/ name = "b" /\ (debugger_set_breakpoint(U16(a[1])) \/ debugger_error)
  \/ name \in {"?", "d"} /\ debugger_display
  \/ name = "m" /\ debugger_dump_mem(a)
  \/ name = "e" /\ debugger_exit

debugger_interactive ==
  /\ step = "run"
  /\ Handler(input.name, Arguments(input))
  /\ destroy_cmd
  /\ step' = "readline"
  /\ UNCHANGED <<input, empty>>

Prompt ==
  \/ readline_empty \/ readline_eof \/ \E l \in Lines : readline(l)
  \/ parse_cmd_null \/ parse_cmd_dies \/ parse_cmd \/ debugger_interactive

CommandsNext ==
  \/ (Interpret \/ yield_debugger \/ SessionEnded) /\ UNCHANGED promptVars
  \/ Prompt

CommandsSpec == CommandsInit /\ [][CommandsNext]_commandsVars

-----------------------------------------------------------------------------
(***************************************************************************)
(* Reading, parsing, running and releasing a command has the effect of one *)
(* command of the debugger, whatever the line holds, and none before it is *)
(* run (debugger.c:316-371, 495-554).                                      *)
(***************************************************************************)
PromptIsOneStep == DebuggerSpec

(***************************************************************************)
(* When a prompt reads a line, and while the program runs, the lines and   *)
(* commands before have been released, once, on every path through the     *)
(* parser, the handlers and destroy_cmd, but for the empty lines           *)
(* (debugger.c:321, 331, 370, 543).                                        *)
(***************************************************************************)
ReleasedOnce ==
  step = "readline" =>
    live = [k \in Kinds |-> IF k = "line" THEN empty ELSE 0]
=============================================================================
