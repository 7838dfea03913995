# A TLA+ model of sigma16-emulator

The repository is an emulator of the Sigma16 teaching architecture: a C
interpreter with an interactive debugger, Python bindings to the same
interpreter, and an assembler and a disassembler in Python. This directory
holds TLA+ modules of it, the TLC configurations that check them, and proofs
for TLAPS. Paths below are those of the repository (`vm.c` is `src/src/vm.c`,
`assembler.py` is `src/tooling/assembler.py`).

## Inventory

| Component | State | Operations | Talks to |
|---|---|---|---|
| Interpreter, `vm.c` | `cpu.regs`, `ir`, `pc`, `adr`; `mem` | `sigma16_vm_exec`: one computed-goto label per instruction | calls `vm->trace_handler` once per instruction and at the start and end; writes stdout in `trap` |
| Memory and loader, `vm.c` | a mapping of 1 << 16 bytes | `sigma16_vm_init`, `read_mem`, `write_mem`, `trap_write`, `sigma16_vm_del` | reads the executable |
| Words and formats, `cpu.h`, `instructions.h` | none | bit-fields of the RRR, RX, EXP0 formats and of R15 | used by all of them |
| Debugger, `debugger.c` | `n_steps`, `trace`, `breakpoints`, one static breakpoint id; at a prompt a line, a command and its arguments on the heap | `yield_debugger`, `parse_cmd`, eleven commands, `destroy_cmd` | is the trace handler; reads and writes `cpu.regs` while an instruction is decoded and not executed |
| Tracing and dumps, `tracing.c` | a buffer of characters while it dumps | `sigma16_trace`, `dump_cpu`, `dump_vm_mem` | is a trace handler; reads the vm |
| Process, `main.c`, `config.h` | the vm, the exit status | `exec_normal`, `exec_debugger`, `debugger_init` | init, exec, del |
| Python bindings, `sigma16module.c` | the `Emulator` object, its machine and callback, the type objects | `PyInit_sigma16`, `Emulator_init`, `Emulator_execute`, `vm_trace_compat`, `Emulator_dealloc` | is a trace handler that runs Python code, which may call all of them |
| Assembler, `assembler.py` | labels, object list, output file | parse, link, `write_code` | writes executables |
| Disassembler, `disassembler.py` | an offset into a file | decode a file | reads executables |
| Build and test files | none | Makefiles, `tests/` | |

There is one thread. What interleaves is the interpreter and its trace
handler: the handler has control between the moment an instruction is decoded
into `cpu.ir` and the moment it executes from there, and the debugger's user or
a Python callback can do anything in between; a callback can also start the
interpreter again, inside itself. The rest of the hard behaviour is in
sequences of legal operations (registers that are operand, destination and
flag register at once, a countdown shared by all prompts, a file that three
programs take apart in three ways), in the failures of allocation,
initialisation and import, each undone by hand, and at boundaries: 16 bits, the
end of a mapping that is half as large as the address space, the rows of a
dump. `PROJECT.json` lists the hazards with their lines.

What makes each component correct:

- interpreter: it executes the instruction at `pc`, completely, whatever the
  handler did; R0 is 0; a comparison and a conditional jump agree; a quotient
  and a remainder belong together; programs end with the right results;
- memory: words stay words, accesses past the mapping are the only fatal ones;
- debugger: a session is an execution of the program; `n k` runs k
  instructions; a breakpoint always stops; a countdown comes back; a prompt
  releases what it allocates;
- tracing: the line that is printed says what the instruction does; a dump
  shows each word once, with its own character under it;
- process: the exit status tells what became of the program, and a normal run
  releases its machine;
- Python bindings: a machine that runs is not taken away, the instruction that
  was shown is the one that executes, exceptions and references have owners;
- assembler and disassembler: a label is where its object is, the emulator
  decodes what was written, and the listing gives back the source.

## Modules

| Module | Content | Extends |
|---|---|---|
| `Sigma16Words` | words, byte swapping, bit operations, flags, instruction fields, dispatch tables | |
| `Sigma16Store` | memory, loader, effective addresses, `trap_write`, what a fetch can return | Words |
| `Sigma16ISA` | the abstract machine: one instruction per step | Store |
| `Sigma16VM` | the interpreter with its handler calls; implements `Sigma16ISA` | Store |
| `Sigma16Branches` | the assembler's conditional jumps against what `do_cmp` leaves | VM, Encode (instance) |
| `Sigma16Debugger` | the debugger over the interpreter, a command in one step | VM |
| `Sigma16Commands` | the prompt with its parser and heap; implements `Sigma16Debugger` | Debugger |
| `Sigma16Tracing` | `sigma16_trace` over the interpreter, the flags of `print_status` | VM |
| `Sigma16Dump` | `dump_vm_mem` | Store |
| `Sigma16Lifecycle` | outcomes of `sigma16_vm_init` and `sigma16_vm_del` | |
| `Sigma16Process` | the command, in both builds, from `main` to its exit status | Debugger, Lifecycle |
| `Sigma16Python` | import, `Emulator` object, callbacks, nested executions | Lifecycle |
| `Sigma16Encode` | what the assembler writes for an instruction | |
| `Sigma16Assembler` | parser, linker, writer | Store, Encode |
| `Sigma16Disassembler` | the sweep over a file | Store |
| `Sigma16Toolchain` | the assembler, then the disassembler on what it left | Assembler, Disassembler |
| `Sigma16WordsProofs`, `Sigma16VMProofs`, `Sigma16DebuggerProofs`, `Sigma16SessionProofs`, `Sigma16TracingProofs`, `Sigma16DumpProofs`, `Sigma16PythonProofs`, `Sigma16ToolchainProofs` | theorems, see Proofs | |
| `MCVM`, `MCPrograms`, `MCDebugger`, `MCCommands`, `MCTracing`, `MCDump`, `MCProcess`, `MCPython`, `MCToolchain` | instances for TLC | |

**Sigma16Words and Sigma16Store.** Memory holds raw words, as the file's bytes
are mapped on a little-endian host: decoding takes the fields from the raw
word, data goes through `bswap_16`. `MemWords` is the size of the mapping in
words, 32768 in the code; an address of 16 bits can lie past it. `Foreign` is
the set of words a read there may find. With `Foreign` empty, or in addition to
it, such an access kills the process. A write that survives there changes
nothing the model sees. The output keeps its first `StdoutCap` bytes. `exp0.ab` lies on the second word
without a byte swap; `exp_dispatch_table` has one entry, and another index is
an undefined jump that reaches `do_rfi` (what gcc makes of a table with one
label) or kills the process. `do_add` computes its flags from the number of the
destination register, as the code does.

**Sigma16VM.** Variables are those of the C program, `phase` and `label` say
where control is. An instruction takes three steps:

1. `Dispatching`: DISPATCH, the decoding into `ir`, and the call of the handler
   (`phase = "handler"`); an invalid RX opcode ends with `"error"` before any
   call. `do_nop` calls the handler without decoding.
2. the handler: `sigma16_trace` prints and returns (`HandlerReturn`), or dies in
   the text of a `nop` whose stale opcode lies past the table of mnemonics
   (`trace_rrr_faults`).
3. the body, an action named after the label, with `SAFE_UPDATE`, flags and pc;
   `trap` with code 0 goes to `end_hotloop`, whose handler call is the last.

`Segfault` replaces the second or third step when it accesses an address past
the mapping.

**Sigma16ISA** is what this implements: no `ir`, no handler, no labels, one
step per instruction, instructions grouped by what they may change. It is
written from the code and not from the architecture's manual, so it has the
emulator's flags and its `jal`. The refinement is `INSTANCE Sigma16ISA WITH
status <- isaStatus`: handler calls are stuttering steps, and the machine has
halted as soon as control reaches `end_hotloop`.

**Sigma16Debugger** replaces the handler's step. `yield_debugger` calls
`sigma16_trace` first while tracing is on, which may die of a `nop` as above
(`yield_debugger_faults`), and then counts and prompts. `at` is the stage of
`yield_debugger` that prompts: `"steps"` (the countdown is over), `"event"`
(start or end of execution), `"breakpoint"`. At a prompt any command may come:
`n`, `c` (RESUME: on to the next stage, or back to the interpreter), `t`, `i`,
`o`, `b`, `d`, `m`, `?`, an invalid one (PROMPT: again), `e`, a failing `malloc`
(ERROR: abort), `b` without an address and the end of the input (the process
dies). `asked`, `early`, `ran` and `prompted` are history variables.
The list of breakpoints is the sequence of its addresses, newest first: an id
is the number of entries behind it. `n` without an argument is `n 1`.

**Sigma16Commands** takes the prompt apart: `readline` allocates a line,
`parse_cmd` makes a command and its arguments of it or refuses it,
`debugger_interactive` runs the handler and `destroy_cmd` releases the command.
`live` counts the objects on the heap. A line is its first word and the
numbers after it, with `strtol`, the defaults of `parse_int_default` and the
conversions to `uint16_t` of the handlers. The bounds of `m` are compared as
`size_t`, as the code compares them. An empty line is read again without being
released: `MaxEmpty` bounds how often.

**Sigma16Tracing** keeps of a printed line the mnemonic, the registers in their
order and the displacement, which is what tells instructions apart. Reading
past the table of RRR mnemonics, which only `nop` can do, prints "garbage" or
is fatal (`trace_rrr_faults` of `Sigma16VM`). `print_status` is the set of letters it highlights.

**Sigma16Dump** has the loop's counter, the buffer of characters that serves
all rows, the row being printed and the rows that are finished. A read past the
mapping is a fault or finds a foreign word. Its bounds are natural numbers
(`BoundsAssumption`).

**Sigma16Lifecycle** gives the pairs of result and pointer that
`sigma16_vm_init` can leave: each check that fails leaves another one.
`sigma16_vm_del` of anything but a machine or a struct without memory has no
defined outcome.

**Sigma16Process** runs `main` to its end in the build with and without
`ENABLE_DEBUGGER`. `stage` is where `main` is, `exit` the status, `message` the
error message printed last. `debugger_teardown` is the failure of
`debugger_init` that deletes a pointer never set: the process is killed by a
signal or goes on to report. Executions are those of `Sigma16Debugger`, so every
way in which a program or a user can end one is there.

**Sigma16Python** reduces the interpreter to which machine runs, the word at its
pc and when its instruction register is written and read: the bindings see no
more. `stack` holds the active calls of `sigma16_vm_exec`, each at DISPATCH, in
the callback or in the body after it. A machine's `next` is the word at pc, or
`Unread` when pc has moved to a word that was not dispatched yet; only a body
moves pc, so that an execution started in a callback meets the word of that
callback again, and shows it again. Words are numbered by `decoded` as they are
met, so that `ir` can say which one it holds, and are of four kinds: a `nop`,
which is not decoded, a trap that halts and leaves pc where it is, an illegal
instruction, and any other. Between two calls and in each callback, Python code
may initialise the emulator with any outcome, assign or delete its attributes,
execute it, raise or return. A machine whose initialisation failed and is used
all the same, a callback without an instruction object and `__init__` without a
file end the process ("crashed"). The import adds four types to the module one by
one and can fail before each, with the references counted by hand.

**Sigma16Assembler** reads a line as its kind, its fields and one token, given
by what `int()` makes of it in each base; the order of the bases in
`parse_numeric` is the code's. A token that no base takes is a reference, also
the empty one of `lea R1,[R0]`; `NoRef` marks an operand that is no reference.
`labels` keep the index of the object they precede, `calc_label_offset` sums the
sizes from label to label as the linker does. `write_code` writes object by
object, and stops where `struct.pack(">h")` refuses a value, with the file as
far as it is.

**Sigma16Disassembler** takes the file apart by bytes; in `ListsWhatRuns` the
emulator takes the same file apart by the bit-fields of a raw little-endian
word (`Fetched` of `Sigma16Store`).

**Sigma16Encode** encodes programs for the instances as `write_code` does. `Asm` in
**Sigma16Branches** is an instance of it: `Branches` asks whether the jump it
writes for an alias would be taken by the interpreter now, and `Program` is a
whole program around such a jump.

## Runs

| Run | Checks | States |
|---|---|---|
| `vm_programs` | `TypeOK`, `R0Zero`, `DecodeCoherent`, `DivisionIdentity`, `ImplementsISA` | 202,838 |
| `vm_tests` | `Results`, `BranchesOnRelation`, `CompareDecidesBranch`, `Terminates` | 10,863 |
| `debugger` | `DebuggerTypeOK`, `StepCount`, `BreakpointStops`, `TransparentSession`, `StepReturns` | 182,331 |
| `commands` | `CommandsTypeOK`, `ReleasedOnce`, `PromptIsOneStep` | 145,654 |
| `tracing` | `TracingTypeOK`, `TraceDeterminesStep`, `LitFlagsDecideJumps` | 5,412 |
| `dump` | `DumpTypeOK`, `CharsUnderWords`, `DumpsRange`, `DumpEnds` | 1,112 |
| `process` | `ProcessTypeOK`, `ExitStatus`, `EndReleases`, `OutcomeReported` | 4,120 |
| `python` | `PythonTypeOK`, `TypesCounted`, `RunningVmReady`, `ShownUnlessRanAgain`, `PendingHasCause` | 84,912 |
| `toolchain` | `AsmTypeOK`, `LabelsResolve`, `EncodesForInterpreter`, `DisTypeOK`, `ListsWhatRuns`, `ListsUpToUndecodable`, `RoundTrip` | 400,148 |
| `vm_trace`, `debugger_steps`, `python_reentry` | one documented statement each, which the code violates | |

- `vm_programs` runs a family of programs: two registers get boundary values
  (0, 1, 2, 7, 0x8000, 0xffff), then one instruction of an alphabet with every
  opcode, destinations R0, R1, R2, R15, sources R0, R1, R2, R15 and
  displacements inside and past the mapping, then for fixed values a second
  instruction, then halt. 16 words of memory are enough for the programs and
  small enough that loads, stores, jumps and output cross the end; foreign
  words are the encoding of the halt instruction, so that execution can
  continue there. Pairs are enough for what an instruction leaves in `ir`, in
  R15 or in memory for the next one. `ImplementsISA` is the refinement.
- `vm_tests` runs the four executables of `tests/` and the README's fibonacci
  program to the end, and 486 programs that compare two of nine boundary values
  and take one of six conditional jumps. `Results` states what the former
  compute, `Terminates` that all get to their end. `CompareDecidesBranch` looks
  at the state a `cmp` leaves, `BranchesOnRelation` at where the program ends;
  both span four layouts kept in three files.
- `debugger` lets every command occur at every prompt, with steps -1 to 3, two
  breakpoints at two addresses, registers R0, R1, R15. Three steps cross both
  the loop's jump and a breakpoint; two breakpoints can share an address or
  not. The programs are a loop that ends, one that does not, a jump that
  depends on the R15 the user can write, and an illegal instruction.
- `commands` gives 22 lines at every prompt: each command with its arguments,
  with too few, with numbers that wrap or are negative, a line of blanks and an
  unknown word, on a program that halts and one that never does. One empty line
  is enough to see that it alone stays allocated.
- `tracing` compares two values and then executes every instruction with a
  destination of R0 or R3, every conditional jump on every bit of the flags, and
  a `nop` after it.
- `dump` has three rows of memory, the last of two words, and all pairs of
  eleven bounds: on, one before and one after a row's begin, empty ranges, and
  ranges to and past the end of the mapping.
- `process` has both builds on a program that halts, one that is illegal, one
  that leaves the memory and one that never ends, with every failure on the way.
  `ExitStatus` also says where a signal comes from, and `EndReleases` has the
  one exception that the code has: the struct of an executable that does not
  open (vm.c:76) is not released.
- `python` has three machines, so that two can be replaced during one execution;
  `MaxDepth` 2 lets a callback execute the same machine, another one, or a
  failed one; `MaxDecodes` 3 gives the outer execution an instruction before and
  after an inner one, which begins with the word of the outer one; the next
  word after them is illegal. Machines and executables are symmetric: no definition
  tells two of them apart, and the run has no liveness property.
- `toolchain` assembles every source of up to four lines out of seventeen and
  lists what was written. Four lines hold a reference before and after its
  label, two labels at one place, an object of two words between them, a line in
  error, an RX instruction without a displacement, an EXP instruction with
  anything before and behind it, and a lone first word of an RX instruction at
  the end: the sweep ends in each of its three ways, with words left over in two.
  `ListsUpToUndecodable` says which, and that nothing is missing before.

Fairness: `FairSpec` and `FairDebuggerSpec` assume weak fairness of the
interpreter and of the handler's own code: one thread, nothing it waits for,
the operating system lets it run. Nothing is assumed of the user: a prompt may
last forever, and `StepReturns` only says that it is reached. `FairProcessSpec`
assumes the same of `main`, except at a prompt, and `FairDumpSpec` of the loop of
`dump_vm_mem`, for the same reason.

Bounds: `MaxBreakpoints` (breakpoints of a session), `MaxEmpty` (empty lines),
`StdoutCap` (observed output), `MemWords`, `Vms`, `MaxDepth` and `MaxDecodes` of
the Python run, `Bounds` of the dump, and the sets of inputs. `n_steps` keeps
every negative value as -1, for the code only compares it with 0 after a
decrement; that a session of 2^31 events overflows it is lost. `ran` counts to
`asked + 1`, one more than any count that `StepCount` allows.

### What the violated statements show

- `TraceShowsInstruction`: README.md:77 says the callback is called before
  every instruction with that instruction. `do_nop` (vm.c:228) does not decode,
  so the handler is shown the previous one, and after an RX instruction
  `sigma16_trace` looks up mnemonic 15 of a table of 14.
- `ExecutesNSteps`: `n k` at the first prompt executes k - 1 instructions,
  because the first instruction's own event is counted. At all other prompts
  the count is right, which is `StepCount`.
- `ShownIsExecuted`: a callback that calls `execute` on the same object runs the
  interpreter from the same pc, past the word that it was called for. When that
  execution ends and the callback returns, the outer one executes the code it
  had dispatched with what is now in `cpu.ir`. In the trace the callback clears
  `trace_handler` first, so that the inner execution, which meets the word that
  was shown again, calls no callback; it executes that word and ends at an
  illegal one. `ShownUnlessRanAgain` says that to run the same machine is the
  only way.

### Further disagreements met while modelling

The model has the behaviour of the code in each of these; no run is spent on
them.

- `execute` runs the machine of the last initialisation and goes on where it
  ended; sigma16module.c:271 says it executes the file named in the attribute
  `executable`, which can be assigned and is not looked at.
- A second `__init__` and the end of the object release no machine, and a
  handler call releases neither its tuple nor the instruction object
  (sigma16module.c:51, 238); README.md:13 calls the memory overhead capped.
- When `sigma16_vm_init` fails in `debugger_init` the teardown deletes
  `ctx->vm`, which is not set yet (debugger.c:597), before main.c:17 can report.
- `inv` is traced without its destination (tracing.c:86), although the reason
  given for leaving operands out is that they are useless (tracing.c:102).
- The last row of a dump that is not complete is followed by characters of the
  row before (tracing.c:278).
- The limit of a dump is said to be in bytes (config.h:16) and counts words
  (main.c:51, tracing.c:253).
- The assembler prints that it is aborting (assembler.py:322) and writes the
  file without the lines in error.
- `017` is 17 and `0b1` is 0xb1 (assembler.py:129), against README.md:153; a
  reference to a label of hexadecimal letters is a number (assembler.py:229).
- README.md:225 says that the disassembler takes what it cannot decode for data
  and attempts to decode the entire file. An EXP instruction ends it with an
  IndexError (disassembler.py:127, before the message of line 162), a lone first
  word of an RX instruction with a struct.error (disassembler.py:140), and the
  rest of the file is not listed. `ListsUpToUndecodable` is what holds of the
  code, not what that line says.
- A struct of `sigma16_vm_init` is lost when the executable does not open
  (vm.c:76), the exception of `EndReleases`.
- The test of the register number in `i` and `o` is inverted (debugger.c:428):
  R1 to R14 are refused. `b` without an address is refused with a message and
  then reads the missing address (debugger.c:284). `c` does not cancel a
  countdown in progress, and `i 0 5` gives R0 a value.

### Mutants

Each property is shown to depend on the code by a mutant of a mapped
definition: an operator of the same module, marked `Mutant`, placed before what
it replaces. With it the run must find the property violated.

## Proofs

The theorems hold for every `MemWords`, `Foreign`, `Images` and `StdoutCap`
that `StoreAssumption` allows; those on the debugger and its prompts for every
set of inputs that `DebuggerAssumption`, `LinesAssumption` and
`CommandsAssumption` allow, those on the Python bindings for every
`PythonAssumption`, those on dumps for every set of bounds of
`BoundsAssumption`, those on the assembler for every set of sources of
`SourcesAssumption`: sequences of lines, of any length. `Sigma16WordsProofs` has
the facts about the operators: what a conversion returns, that the two halves of
`Mul16` are the low 16 bits of the product (`MulIsProduct`), that quotient and
remainder belong together, which bits of R15 a comparison sets
(`SelectCmpFlags`), and which fields `Sigma16Store` takes from a loaded file.
`BitwiseLaws` is about the operations of `inv`, `and`, `or` and `xor`, which the
model computes with sets of bit numbers: a word is the sum of its bits
(`FromBitsOfBits`), a set of bit numbers is the bits of its sum
(`BitsOfFromBits`), so the operations act bit by bit and obey the laws a
program relies on (`inv` twice, masking with `xor`, De Morgan). The proof goes
byte by byte, for the powers of two are constants there. `Word` is never
expanded in a proof, `WordDef` is cited instead.

Interpreter (`Sigma16VMProofs`):

- `TypeCorrect` (`Spec => []TypeOK`) and `R0IsZero` (`Spec => []R0Zero`). The
  inductive invariant is `DataInv(z)`, the types and the value z in R0: R0 is
  kept because each body leaves a register file with the same R0 (`RegFile`),
  which needs destinations that are register numbers. The interpreter has
  z = 0; in a session the user may have stored something else, and the same
  lemmas apply. `RRRStep` and `BodyStep` reduce an instruction to the register
  file, pc and memory it leaves.
- `DecodingIsCoherent` (`Spec => []DecodeCoherent`). `DecodeCoherent` is
  inductive: every decoding step establishes it, the handler changes nothing
  it reads, and a body ends at `dispatch` or `end_hotloop`, where it says
  nothing.
- `DivisionIsExact` (`Spec => DivisionIdentity`), from `TypeOK`: `DivisionStep`
  is for every state in which the body of `do_div` runs.
- `CompareDecidesJump` (`Spec => CompareDecidesBranch`), for all pairs of words.
  Two different words are different numbers (`Int16Injective`), so that one of
  the three flags is set; each alias tests one bit of R15 for one value, and
  that is its relation.
- `InterpreterImplementsISA` (`Spec => ImplementsISA`). Decoding and the return
  of the handler map to stuttering; a body maps to `ISA!Execute` of the
  instruction f that `DecodeCoherent` provides, whose fields are those of `ir`
  (`Executing`); an access past the mapping maps to `ISA!Crash`. `ControlInv`
  ties `label` to `phase`, so that the abstract status is right. The instance
  has its own copies of the operators of `Sigma16Store`; the lemmas `Same...`
  say that they are the same.

- `ProgramsBranch` (`[]BranchesOnRelation`), for every pair of words where the
  run `vm_tests` has nine values. Its hypothesis `MemWords >= 13` is that the
  program fits. The invariant `BranchInv` says for each address of the program
  what the registers hold when the abstract machine is there; the steps of the
  interpreter are those of that machine by the refinement (`StepImplements`), so
  it suffices to follow eight instructions instead of their decoding and their
  handler calls.

Debugger (`Sigma16DebuggerProofs`). The lemmas `CommandStep`, `YieldStep` and
`ResumeStep` reduce every command to one of three effects: it resumes, it
prompts again, or the process ends.

- `DebuggerTypeCorrect`, which every other proof uses.
- `BreakpointsAreExact` (`[]BreakpointStops`), by `BreakpointInv`: while the
  handler prompts, it has prompted for a breakpoint exactly if it is doing so,
  since that stage is the last.
- `CountdownIsExact` (`[]StepCount`), by `CountInv`: a running countdown is the
  number of instructions still to come, plus one until the handler call of the
  next instruction has counted it. That the call at the start of execution
  counts too, and counts nothing after a command given in it, is where the
  missing instruction of `ExecutesNSteps` comes from.
- `DebuggerIsTransparent` (`TransparentSession`), from `StepImplements`, the
  step of the refinement, in states where R0 may be anything.
- `SessionsComputeExactly`: `DivisionIdentity`, `CompareDecidesBranch` and
  `[]DecodeCoherent` hold of sessions too. The step that executes an instruction
  is one of the interpreter (`ExecutesInSession`), and what the user may do
  between decoding and it changes neither memory nor `ir`.
- `R0StaysInSessions`: R0 changes only at a prompt, by the command that names
  register 0, and to the value given there; if the user never does it,
  `[]R0Zero`. No run checks the first half, `R0OnlyByUser`.

Prompts and process (`Sigma16SessionProofs`). The inductive invariant
`PromptInv` says what is allocated at each step of a prompt, and that a line
that is being run was neither refused nor malformed.

- `CommandsImplementDebugger` (`PromptIsOneStep`): reading, parsing, running and
  releasing a command is one command of `Sigma16Debugger`, and everything else
  a stutter. What holds of every session therefore holds of every session of
  lines.
- `CommandsTypeCorrect` and `CommandsAreReleased` (`[]ReleasedOnce`).
- `LinesDebugExactly` states it: `[]BreakpointStops`, `[]StepCount`,
  `TransparentSession` and `R0OnlyByUser` of `CommandsSpec`.
- `ExitStatusIsTrue` (`[]ExitStatus`), `MemoryIsReleased` (`[]EndReleases`) and
  `ProcessTypeCorrect`. The invariant `ProcessInv` needs `ResultInv`, that the
  result of `sigma16_vm_exec` is what became of the program, and `StageInv`, what
  each stage of `main` holds. An execution is a
  step of a session in both builds (`ExecutionIsSession`), so what holds of
  sessions holds here, and the steps of `main` leave the machine alone.
- `CommandIsTransparent` (`ProcessSpec => TransparentSession`): the execution
  inside the command is one of the abstract machine, but for what the user
  writes. No run checks this formula on the process; `debugger` checks it on
  sessions.
- `NormalBuildIsInterpreter`: with `build = "normal"` the process satisfies `Spec`,
  and with it all theorems on the interpreter; `NormalInv` is that the build stays
  the normal one and R0 is 0. `DebuggerBuildIsSession`: with
  `build = "debugger"` it satisfies `DebuggerSpec`, and with it all those on
  sessions.

Tracing (`Sigma16TracingProofs`). In the invariant `TracingInv` the line
printed last is that of the instruction about to execute.

- `TraceCanBeReplayed` (`TraceDeterminesStep`): any two readings of a line agree
  in the operands that the instruction uses (`ReadingsAgree`), and a step of the
  abstract machine reads no others (`ExecuteReadsOperands`).
  The property leaves out `inv`, whose line lacks the register that is written,
  and `nop`, whose line is that of another instruction; it is false of both.
- `TracingIsTransparent`: an execution with tracing is one of the abstract
  machine. A handler call that dies of a `nop` ends it before the instruction.
- `LitFlagsAreTested` (`LitFlagsDecideJumps`), and `TracingTypeCorrect`: types,
  and that only a `nop` is printed with a text from past the table
  (`GarbageOnlyForNop`).

Python bindings (`Sigma16PythonProofs`). The inductive invariant is `PyInv`, of
`CallsOK` and `ImportsOK`.

- `RunningMachineStays` (`[]RunningVmReady`) and `ShownInstructionStays`
  (`[]ShownUnlessRanAgain`). They need `Nested`: of two active executions of one
  machine the outer one's callback has run it, and is promised nothing. One
  lemma for each kind of step says what it does to the stack of executions
  (`ContinueKeeps`, `OtherMachineKeeps`, `ExecuteKeeps`, `ReturnKeeps`).
- `ExceptionsHaveCause` (`[]PendingHasCause`), `TypesAreCounted`
  (`[]TypesCounted`, by `ImportsOK`: the counts are exact until an import fails)
  and `PythonTypeCorrect`.

Assembler and disassembler (`Sigma16ToolchainProofs`). The theorems on the
disassembler alone are for any file of `Images`; the run `toolchain` checks the
same formulas on the files the assembler has left, and `AssembledUpToUndecodable`
proves them of those. In the invariant `DisInv` each line is right, the lines
follow each other and hold every word up to the offset (`Covering`), and the
sweep ends only at the end or at a word it cannot decode (`EndsWhereItMay`).

- `ListingIsWhatRuns` (`[]ListsWhatRuns`): the half-bytes the disassembler splits
  are the bit-fields the emulator decodes after its byte swap (`FieldsAreHalves`,
  `SwapTwice`), and the two mnemonic tables agree with the dispatch tables.
- `ListingUpToUndecodable` (`[]ListsUpToUndecodable`) and `DisTypeCorrect`. The
  listing of a file is complete only if the sweep meets no undecodable word.
- `LabelsAreAddresses` (`[]LabelsResolve`). The linker sums the sizes of the
  objects from label to label, and the writer puts each object behind the ones
  before it: `OffsetIsSize` says that the sum at a label is the size of all
  objects before it. `calc_label_offset` is a recursive function of the
  label's index; the induction over it is on a set of indices
  (`Inductive`, from the well-foundedness of the natural numbers). It needs that
  labels are in the order of their objects and that linking changes no size,
  which `AsmInv` keeps.
- `EncodingIsDecoded` (`[]EncodesForInterpreter`): the bytes that
  `struct.pack` writes are the fields the emulator takes (`HalvesOfFields`,
  `HeadOfObject`). `AsmTypeCorrect` for the types.
- `ListingIsSource` (`[]RoundTrip`). The invariant `ToolInv` joins `AsmInv` and
  the sweep by `Echo`: up to the first data, the line k of the listing is the
  object k, at the offset that is the size of those before it. `NextObject` is
  the step: the next words of the file are the next object's, unless the
  assembler stopped before writing it.

Dumps (`Sigma16DumpProofs`). In the invariant `DumpInv` the row being printed
reaches the counter and fits into the columns, so that no word takes the place
of another's character; the finished rows follow each other.

- `CharactersBelong` (`[]CharsUnderWords`), `DumpIsComplete` (`[]DumpsRange`) and
  `DumpTypeCorrect`. They hold of natural numbers as bounds. The `m` command
  also passes negative ones on: a negative end is a very large number, which the
  naturals include, but from a negative start to a negative end the index into
  the buffer is negative.

Only model-checked: `Results`, which is about five given programs, each with one
execution, which TLC explores to its end; and the liveness properties
`Terminates`, `StepReturns`, `OutcomeReported` and `DumpEnds`, which are out of
the prover's reach. The steps from one level to the next (lines,
sessions, process, interpreter, abstract machine) are proved, so that of what the
runs check only these five, and the refutations, are known of instances alone.

## Plan

1. (done) `Sigma16Words`, `Sigma16Store`, `Sigma16ISA`, `Sigma16VM`,
   `Sigma16Debugger`, with their runs and the theorems on them.
2. (done) `Sigma16Process` and `Sigma16Lifecycle`: `main`, `exec_normal`,
   `exec_debugger`, the failures of `sigma16_vm_init` and `debugger_init`.
3. (done) `Sigma16Python`, with its theorems.
4. (done) `Sigma16Assembler`, `Sigma16Encode`, `Sigma16Disassembler` and
   `Sigma16Toolchain`, which composes them; theorems on the disassembler.
5. (done) `Sigma16Dump`, with its theorems, and `Sigma16Tracing`;
   `Sigma16Commands`, with its theorems.
6. (done) Proofs: the correspondence of comparison and branch for all words
   (`Sigma16Branches`), release and exit status of the process, the labels of
   the assembler and the round trip, the operands that tracing shows.
7. (done) What the bit operations of `Sigma16Words` compute, against powers of
   two, for all words; the programs that compare and branch, for all words; what
   holds of the interpreter carried to sessions, lines, tracing and the process.

## Not modelled

- The text of commands, traces and dumps, colours, readline's history, and the
  split of a source line or a command line into tokens.
- Register numbers outside 0..15 given to the debugger, and a negative start of
  a dump: the C code then reaches memory outside the object.
- The odd last byte of a file in the disassembler, and executables that cannot
  be seeked.
- The `cpu` and `memory` members of the Python object.
- The build without `ENABLE_TRACE`, which is `Sigma16ISA`; compiler flags and
  build files.
- The EXP formats exp4 and exp8, control registers and interrupts, declared in
  the headers and used by no code, and `restart`, which is commented out.
