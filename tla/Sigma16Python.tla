---------------------------- MODULE Sigma16Python ----------------------------
(***************************************************************************)
(* The Python bindings (sigma16module.c): the import of the module and one *)
(* Emulator object, used by Python code that is free to do anything        *)
(* between two calls, and inside the callback that sigma16_vm_exec calls   *)
(* for every instruction: initialise the emulator again, execute it again, *)
(* replace the callback, raise.  The interpreter is reduced to what the    *)
(* bindings see of it: which machine runs, the word it is at, and when its *)
(* instruction register is written and read.                               *)
(***************************************************************************)
EXTENDS Integers, Sequences, Sigma16Lifecycle

CONSTANTS
  Files,        \* names of executables
  Handlers,     \* callables
  NULL,         \* a C pointer that is not set
  Vms,          \* bound: the machines that can be allocated
  MaxDepth,     \* bound: executions inside one another
  MaxDecodes    \* bound: words of a session that are not illegal

ASSUME PythonAssumption ==
  /\ NULL \notin Files \cup Handlers \cup Vms
  /\ MaxDepth \in Nat /\ MaxDecodes \in Nat

VARIABLES
  status,    \* of the process and the emulator object, see Status
  added,     \* how many of Types the module holds
  typeRefs,  \* reference counts of the static type objects
  emu,       \* fields of the EmulatorObject
  vms,       \* the machines
  stack,     \* the active calls of sigma16_vm_exec, innermost last
  pending,   \* an exception is set while C code runs
  decoded    \* words that pc has been at in the session

importVars == <<added, typeRefs>>
vars == <<status, importVars, emu, vms, stack, pending, decoded>>

Status == {"importing", "import failed", "running", "crashed", "deleted"}

Types == <<"Emulator", "InstructionRRR", "InstructionRX", "InstructionEXP0">>

(* A trap with code 0 halts; other stands for an instruction that goes on, *)
(* a trap with another code among them.                                    *)
Kinds == {"nop", "halt", "illegal", "other"}

(* The words at pc are numbered in the order in which they are met, as in  *)
(* a program that comes to no word a second time.  A word has been read    *)
(* from when it is dispatched on to when a body moves pc.                  *)
Words == [number : Nat, kind : Kinds \cup {"unread"}]

Unread == [number |-> 0, kind |-> "unread"]

(* ir stands for the contents of cpu.ir by the number of the word that was *)
(* decoded into it; next is the word at pc.                                *)
Machine == [state : Pointee \cup {"unused"}, ir : Nat, next : Words]

(* at is where control is: at DISPATCH, in the callback or after it.  word *)
(* was dispatched, and inst was shown.  ran says that the callback of this *)
(* instruction ran the same machine, raised that a callback of this call   *)
(* has raised, or could not be given an instruction.                       *)
Frame == [vm : Vms, at : {"dispatch", "callback", "body"}, word : Words,
          inst : Nat, ran : BOOLEAN, raised : BOOLEAN]

Loaded(state) == [state |-> state, ir |-> 0, next |-> Unread]

PythonInit ==
  /\ status = "importing"
  /\ added = 0
  /\ typeRefs = [k \in 1..4 |-> 1]
  /\ emu = [executable |-> NULL, trace_handler |-> NULL, vm |-> NULL]
  /\ vms = [v \in Vms |-> Loaded("unused")]
  /\ stack = << >>
  /\ pending = FALSE
  /\ decoded = 0

PythonTypeOK ==
  /\ status \in Status
  /\ added \in 0..4
  /\ typeRefs \in [1..4 -> Nat]
  /\ emu \in [executable : Files \cup {NULL}, vm : Vms \cup {NULL},
              trace_handler : Handlers \cup {NULL}]
  /\ vms \in [Vms -> Machine]
  /\ stack \in Seq(Frame)
  /\ pending \in BOOLEAN
  /\ decoded \in Nat

-----------------------------------------------------------------------------
(***************************************************************************)
(* PyInit_sigma16.  The module takes over the reference made for it.  When *)
(* adding a type fails the module is released, and Emulator, once more.    *)
(***************************************************************************)
(* Mutant: the reference for the module is not made. *)
PyModule_AddObject_borrowed ==
  /\ status = "importing"
  /\ added' = added + 1
  /\ UNCHANGED typeRefs
  /\ status' = IF added' = 4 THEN "running" ELSE "importing"

(* Mutant: one type too many. *)
PyModule_AddObject_again ==
  /\ status = "importing"
  /\ added' = added + 1
  /\ typeRefs' = [k \in 1..4 |-> typeRefs[k] + (IF k = added' THEN 1 ELSE 0)]
  /\ status' = IF added = 4 THEN "running" ELSE "importing"

PyModule_AddObject ==
  /\ status = "importing"
  /\ added' = added + 1
  /\ typeRefs' = [typeRefs EXCEPT ![added'] = @ + 1]
  /\ status' = IF added' = 4 THEN "running" ELSE "importing"

PyInit_fails ==
  /\ status = "importing"
  /\ status' = "import failed"
  /\ added' = 0
  /\ typeRefs' = [k \in 1..4 |->
       typeRefs[k] - (IF k <= added THEN 1 ELSE 0)
                   - (IF k = 1 /\ added > 0 THEN 1 ELSE 0)]

PyInit_sigma16 ==
  /\ PyModule_AddObject \/ PyInit_fails
  /\ UNCHANGED <<emu, vms, stack, pending, decoded>>

-----------------------------------------------------------------------------
Top == stack[Len(stack)]

Outer == SubSeq(stack, 1, Len(stack) - 1)

(* The innermost call goes on as frame f. *)
Continue(f) == stack' = Append(Outer, f)

InPython ==
  /\ status = "running"
  /\ stack # << >> => Top.at = "callback"

InC == status = "running" /\ stack # << >> /\ Top.at # "callback"

Usable(v) == v # NULL /\ vms[v].state = "ready"

(* Emulator_init assigns the fields before it can fail. *)
Fields(file, handler) ==
  [emu EXCEPT !.executable = IF file # NULL THEN file ELSE @,
              !.trace_handler = IF handler # NULL THEN handler ELSE @]

(* Mutant: the machine that is replaced is released. *)
Emulator_init_releases(file, handler) ==
  /\ InPython /\ file # NULL
  /\ \E v \in Vms, o \in sigma16_vm_init :
       /\ vms[v].state = "unused"
       /\ emu' = [Fields(file, handler) EXCEPT !.vm = v]
       /\ vms' = [u \in Vms |->
            IF u = v THEN Loaded(o.vm)
            ELSE IF u = emu.vm THEN [vms[u] EXCEPT !.state = "freed"]
            ELSE vms[u]]
  /\ UNCHANGED <<status, importVars, stack, pending, decoded>>

(* Mutant: a machine that is there is initialised in place. *)
Emulator_init_in_place(file, handler) ==
  /\ InPython /\ file # NULL
  /\ \E v \in Vms :
       /\ IF emu.vm = NULL THEN vms[v].state = "unused" ELSE v = emu.vm
       /\ emu' = [Fields(file, handler) EXCEPT !.vm = v]
       /\ vms' = [vms EXCEPT ![v] = Loaded("ready")]
  /\ UNCHANGED <<status, importVars, stack, pending, decoded>>

(* The machine of an earlier call stays allocated.  A failure returns NULL *)
(* as an int, which is success: Python makes a SystemError of it, and the  *)
(* object keeps what sigma16_vm_init left in self->vm.                     *)
Emulator_init(file, handler) ==
  /\ InPython /\ file # NULL
  /\ \E v \in Vms, o \in sigma16_vm_init :
       /\ vms[v].state = "unused"
       /\ emu' = [Fields(file, handler) EXCEPT
                    !.vm = IF o.vm = "null" THEN NULL ELSE v]
       /\ vms' = IF o.vm = "null" THEN vms
                    ELSE [vms EXCEPT ![v] = Loaded(o.vm)]
  /\ UNCHANGED <<status, importVars, stack, pending, decoded>>

(* executable is optional for the parser only: PyUnicode_AsUTF8(NULL). *)
Emulator_init_no_file(handler) ==
  /\ InPython
  /\ emu' = Fields(NULL, handler)
  /\ status' = "crashed"
  /\ UNCHANGED <<importVars, vms, stack, pending, decoded>>

(* The attributes can be assigned, and trace_handler deleted. *)
Emulator_members(file, handler) ==
  /\ InPython
  /\ emu' = [emu EXCEPT !.executable = file, !.trace_handler = handler]
  /\ UNCHANGED <<status, importVars, vms, stack, pending, decoded>>

(* A machine that is not ready has no trace handler to call. *)
Emulator_execute ==
  /\ InPython
  /\ IF Usable(emu.vm)
       THEN /\ Len(stack) < MaxDepth
            /\ stack' =
                 Append([k \in DOMAIN stack |->
                           [stack[k] EXCEPT !.ran = @ \/ stack[k].vm = emu.vm]],
                        [vm |-> emu.vm, at |-> "dispatch", word |-> Unread,
                         inst |-> 0, ran |-> FALSE, raised |-> FALSE])
            /\ UNCHANGED status
       ELSE status' = "crashed" /\ UNCHANGED stack
  /\ UNCHANGED <<importVars, emu, vms, pending, decoded>>

(* The last reference to the object goes; its machine and callback stay. *)
Emulator_dealloc ==
  /\ InPython /\ stack = << >>
  /\ status' = "deleted"
  /\ UNCHANGED <<importVars, emu, vms, stack, pending, decoded>>

(* The callback returns, and an exception that was set may get lost in it; *)
(* or it raises.  vm_trace_compat looks at neither.                        *)
CallbackReturns ==
  /\ InPython /\ stack # << >>
  /\ pending' \in {FALSE, pending}
  /\ Continue([Top EXCEPT !.at = "body"])
  /\ UNCHANGED <<status, importVars, emu, vms, decoded>>

CallbackRaises ==
  /\ InPython /\ stack # << >>
  /\ pending' = TRUE
  /\ Continue([Top EXCEPT !.at = "body", !.raised = TRUE])
  /\ UNCHANGED <<status, importVars, emu, vms, decoded>>

-----------------------------------------------------------------------------
(***************************************************************************)
(* What sigma16_vm_exec does.  Every call of it starts at DISPATCH with    *)
(* the word at pc, which only the code after a handler call moves: a call  *)
(* from a callback first meets the word that the callback was called for.  *)
(* The word is decoded (nop is not), and vm_trace_compat makes an object   *)
(* of the instruction and calls the callback of the moment, if there is    *)
(* one.  The tuple that holds the object is never released.                *)
(***************************************************************************)
WordAtPc ==
  IF vms[Top.vm].next # Unread
    THEN {vms[Top.vm].next}
    ELSE [number : {decoded + 1},
          kind : IF decoded < MaxDecodes THEN Kinds ELSE {"illegal"}]

IrAfter(w) == IF w.kind = "nop" THEN vms[Top.vm].ir ELSE w.number

(* DISPATCH and INTERP_INST or INTERP_RX. *)
Decode(w) ==
  /\ vms' = [vms EXCEPT ![Top.vm] = [@ EXCEPT !.ir = IrAfter(w), !.next = w]]
  /\ decoded' = IF w.number > decoded THEN w.number ELSE decoded

(* An object with a reference that nobody owns, or an exception.  A null   *)
(* pointer packed into a tuple is fatal.                                   *)
FromBytes == {"object", "null"}

vm_trace_compat ==
  /\ InC /\ Top.at = "dispatch"
  /\ \E w \in WordAtPc, instruction \in FromBytes :
       LET at == IF emu.trace_handler = NULL THEN "body" ELSE "callback"
           f  == [Top EXCEPT !.at = at, !.word = w,
                             !.inst = IrAfter(w), !.ran = FALSE]
       IN  /\ w.kind # "illegal"
           /\ Decode(w)
           /\ \/ /\ instruction = "object"
                 /\ Continue(f)
                 /\ UNCHANGED <<status, pending>>
              \/ /\ instruction = "null" /\ at = "body"
                 /\ Continue([f EXCEPT !.raised = TRUE])
                 /\ pending' = TRUE
                 /\ UNCHANGED status
              \/ /\ instruction = "null" /\ at = "callback"
                 /\ status' = "crashed"
                 /\ UNCHANGED <<stack, pending>>
  /\ UNCHANGED <<importVars, emu>>

(* The callback has run the machine past the word.  A trap then reads its  *)
(* code, regs[ir.rrr.d], from another ir and other registers.              *)
RanPast == vms[Top.vm].next # Top.word

(* The code after the handler call goes on to the next word. *)
Body ==
  /\ InC /\ Top.at = "body"
  /\ Top.word.kind = "halt" => RanPast
  /\ Continue([Top EXCEPT !.at = "dispatch"])
  /\ vms' = [vms EXCEPT ![Top.vm] = [@ EXCEPT !.next = Unread]]
  /\ UNCHANGED <<status, importVars, emu, pending, decoded>>

(* Mutant: the exception stays set. *)
Return_with_exception == stack' = Outer /\ UNCHANGED pending

(* The innermost call of Emulator_execute is over.  An exception that is   *)
(* set reaches the caller, as a SystemError if there is a result.          *)
Return == stack' = Outer /\ pending' = FALSE

(* A trap halts and leaves pc where it is. *)
Halt ==
  /\ InC /\ Top.at = "body"
  /\ Top.word.kind = "halt" \/ (Top.word.kind = "other" /\ RanPast)
  /\ Return
  /\ UNCHANGED <<status, importVars, emu, vms, decoded>>

(* An illegal instruction is decoded and not shown. *)
do_bad_op ==
  /\ InC /\ Top.at = "dispatch"
  /\ \E w \in WordAtPc : w.kind = "illegal" /\ Decode(w)
  /\ Return
  /\ UNCHANGED <<status, importVars, emu>>

Ended == status \notin {"importing", "running"} /\ UNCHANGED vars

PythonCode ==
  \/ \E f \in Files, h \in Handlers \cup {NULL} : Emulator_init(f, h)
  \/ \E h \in Handlers \cup {NULL} : Emulator_init_no_file(h)
  \/ \E f \in Files, h \in Handlers \cup {NULL} : Emulator_members(f, h)
  \/ Emulator_execute \/ Emulator_dealloc
  \/ CallbackReturns \/ CallbackRaises

Interpreter == vm_trace_compat \/ Body \/ Halt \/ do_bad_op

PythonNext == PyInit_sigma16 \/ PythonCode \/ Interpreter \/ Ended

PythonSpec == PythonInit /\ [][PythonNext]_vars
-----------------------------------------------------------------------------
(***************************************************************************)
(* Every type object has its own reference and one of the module while it  *)
(* is in it, except that Emulator loses its own when a later type cannot   *)
(* be added (sigma16module.c:316, 325, 334).                               *)
(***************************************************************************)
TypesCounted ==
  \A k \in 1..4 :
    \/ typeRefs[k] = 1 + (IF k <= added THEN 1 ELSE 0)
    \/ k = 1 /\ status = "import failed" /\ typeRefs[k] = 0

(***************************************************************************)
(* The machine of every active sigma16_vm_exec stays allocated and mapped  *)
(* to the end of the call, although a callback may initialise the emulator *)
(* again, with success or not, at any depth (sigma16module.c:238).         *)
(***************************************************************************)
RunningVmReady ==
  \A k \in DOMAIN stack : vms[stack[k].vm].state = "ready"

(***************************************************************************)
(* What executes after a callback is what the callback was shown, whatever *)
(* it did with the emulator short of executing the same machine            *)
(* (sigma16module.c:177, vm.c:47): other machines run in between, and the  *)
(* emulator is initialised with new ones.                                  *)
(***************************************************************************)
ShownUnlessRanAgain ==
  \A k \in DOMAIN stack :
    stack[k].at # "dispatch" /\ ~stack[k].ran =>
      vms[stack[k].vm].ir = stack[k].inst

(***************************************************************************)
(* An exception is set only during an execution of which a callback has    *)
(* raised, or got no object: it does not outlive it, none is from nowhere  *)
(* (sigma16module.c:200, 263).                                             *)
(***************************************************************************)
PendingHasCause == pending => \E k \in DOMAIN stack : stack[k].raised

(***************************************************************************)
(* "The callback will be called prior to every instruction executing       *)
(* within the emulator" (README.md:77): what executes is the instruction   *)
(* that the callback was called with, and nothing in between.  A nop is    *)
(* left out, whose code does not read the instruction register.            *)
(***************************************************************************)
ShownIsExecuted ==
  InC /\ Top.at = "body" /\ Top.word.kind # "nop" =>
    vms[Top.vm].ir = Top.inst
=============================================================================
