----------------------------- MODULE Sigma16VM ------------------------------
(***************************************************************************)
(* The interpreter sigma16_vm_exec, in the build with ENABLE_TRACE that    *)
(* config.h selects.  An instruction takes three steps: DISPATCH decodes   *)
(* it into the instruction register and calls the trace handler, the       *)
(* handler returns, and the rest of the code at the label runs.  Between   *)
(* the first and the last a handler (sigma16_trace, the debugger, a Python *)
(* callback) has control, and what it changes is seen by the instruction   *)
(* already decoded.                                                        *)
(***************************************************************************)
EXTENDS Sigma16Store

VARIABLES
  regs,     \* cpu.regs
  ir,       \* cpu.ir
  pc,       \* cpu.pc
  adr,      \* cpu.adr
  mem,      \* vm->mem, raw words
  stdout,   \* the observed output of trap_write
  phase,    \* where control is, see Phase
  label     \* the label of sigma16_vm_exec it is at

vmVars == <<regs, ir, pc, adr, mem, stdout, phase, label>>

(***************************************************************************)
(* "handler": in vm->trace_handler, called from label                      *)
(* "dispatch": at DISPATCH()                                               *)
(* "execute": after the handler call of label                              *)
(* "halted", "error": sigma16_vm_exec returned 0 or -1                     *)
(* "crashed": the process died                                             *)
(* "exited", "aborted": the handler ended the process, or died             *)
(***************************************************************************)
Final == {"halted", "error", "crashed", "exited", "aborted"}
Phase == {"handler", "dispatch", "execute"} \cup Final

Label == InstLabels \cup {"exec_start", "end_hotloop", "do_bad_op"}

(* The event a label passes to the trace handler. *)
Event(lab) ==
  CASE lab = "exec_start"  -> "EXEC_START"
    [] lab = "end_hotloop" -> "EXEC_END"
    [] lab \in RRRLabels   -> "INST_RRR"
    [] lab \in RXLabels    -> "INST_RX"
    [] lab = "do_rfi"      -> "INST_EXP0"

(* sigma16_vm_init, then the first statement of sigma16_vm_exec. *)
Init ==
  /\ mem \in Loaded
  /\ regs = [r \in Reg |-> 0]
  /\ ir = NoInst
  /\ pc = 0
  /\ adr = 0
  /\ stdout = << >>
  /\ phase = "handler"
  /\ label = "exec_start"

TypeOK ==
  /\ regs \in [Reg -> Word]
  /\ ir \in Inst
  /\ pc \in Word
  /\ adr \in Word
  /\ mem \in Memory
  /\ stdout \in Seq(Byte) /\ Len(stdout) <= StdoutCap
  /\ phase \in Phase
  /\ label \in Label

-----------------------------------------------------------------------------
(***************************************************************************)
(* DISPATCH().  A label with a handler call stops in the handler.          *)
(***************************************************************************)
CallHandler(lab) == phase' = "handler" /\ label' = lab

DispatchRRR ==
  /\ phase = "dispatch"
  /\ \E w \in Peek(mem, pc) :
       /\ Dispatch(w) \in RRRLabels \ {"do_nop"}
       /\ ir' = InterpRRR(w, ir.disp)
       /\ CallHandler(Dispatch(w))
  /\ UNCHANGED <<regs, pc, adr, mem, stdout>>

(* do_nop has no INTERP_INST: the register keeps the previous instruction. *)
DispatchNop ==
  /\ phase = "dispatch"
  /\ \E w \in Peek(mem, pc) : Dispatch(w) = "do_nop"
  /\ CallHandler("do_nop")
  /\ UNCHANGED <<regs, ir, pc, adr, mem, stdout>>

(* Mutant: the RX instruction is decoded as an RRR one. *)
do_decode_rx_as_rrr ==
  /\ phase = "dispatch"
  /\ \E w \in Peek(mem, pc) :
       /\ Dispatch(w) = "do_decode_rx" /\ RxDispatch(Sb(w)) \in RXLabels
       /\ ir' = InterpRRR(w, ir.disp)
       /\ CallHandler(RxDispatch(Sb(w)))
  /\ UNCHANGED <<regs, pc, adr, mem, stdout>>

do_decode_rx ==
  /\ phase = "dispatch"
  /\ \E w \in Peek(mem, pc), x \in Peek(mem, pc + 1) :
       /\ Dispatch(w) = "do_decode_rx"
       /\ ir' = InterpRX(w, x)
       /\ IF RxDispatch(Sb(w)) = "do_bad_op"
            THEN phase' = "error" /\ label' = "do_bad_op"
            ELSE CallHandler(RxDispatch(Sb(w)))
  /\ UNCHANGED <<regs, pc, adr, mem, stdout>>

(***************************************************************************)
(* exp_dispatch_table has one entry and exp0.ab is the whole next word,    *)
(* since the struct aligns it.  For any other index the jump is undefined: *)
(* it lands at do_rfi, as the optimised build compiles it, or kills the    *)
(* process (see Segfault).                                                 *)
(***************************************************************************)
do_decode_exp ==
  /\ phase = "dispatch"
  /\ \E w \in Peek(mem, pc), x \in Peek(mem, pc + 1) :
       /\ Dispatch(w) = "do_decode_exp"
       /\ ir' = InterpEXP0(w, x)
       /\ CallHandler("do_rfi")
  /\ UNCHANGED <<regs, pc, adr, mem, stdout>>

-----------------------------------------------------------------------------
(***************************************************************************)
(* The code after the handler call.                                        *)
(***************************************************************************)
(* Mutant: the guard is gone. *)
UPDATE(r, dst, val) == [r EXCEPT ![dst] = val]

SAFE_UPDATE(r, dst, val) == IF dst # 0 THEN [r EXCEPT ![dst] = val] ELSE r

CLEARFLAGS(r) == [r EXCEPT ![15] = 0]

A == regs[ir.sa]
B == regs[ir.sb]

At(lab) == phase = "execute" /\ label = lab

DISPATCH == phase' = "dispatch" /\ UNCHANGED <<ir, label>>

(* A label that ends in a new register file and pc += n. *)
Body(lab, r, n) ==
  /\ At(lab)
  /\ regs' = r
  /\ pc' = U16(pc + n)
  /\ DISPATCH

RRR(lab, r) == Body(lab, r, 1) /\ UNCHANGED <<adr, mem, stdout>>

APPLY_OP_RRR(val) == SAFE_UPDATE(regs, ir.d, val)

(* Mutant: the sum is kept in an int. *)
do_add_int ==
  RRR("do_add",
      [APPLY_OP_RRR(A + B) EXCEPT ![15] = Status(AddFlags(ir.d))])

do_add ==
  RRR("do_add",
      [APPLY_OP_RRR(U16(A + B)) EXCEPT ![15] = Status(AddFlags(ir.d))])
do_sub    == RRR("do_sub", APPLY_OP_RRR(U16(A - B)))
do_mul    == RRR("do_mul", APPLY_OP_RRR(Mul16(A, B)))
do_cmplt  == RRR("do_cmplt", CLEARFLAGS(APPLY_OP_RRR(Truth(A < B))))
do_cmpeq  == RRR("do_cmpeq", CLEARFLAGS(APPLY_OP_RRR(Truth(A = B))))
do_cmpgt  == RRR("do_cmpgt", CLEARFLAGS(APPLY_OP_RRR(Truth(A > B))))
do_invold == RRR("do_invold", CLEARFLAGS(APPLY_OP_RRR(Inv16(A))))
do_andold == RRR("do_andold", CLEARFLAGS(APPLY_OP_RRR(And16(A, B))))
do_orold  == RRR("do_orold", CLEARFLAGS(APPLY_OP_RRR(Or16(A, B))))
do_xorold == RRR("do_xorold", CLEARFLAGS(APPLY_OP_RRR(Xor16(A, B))))
do_nop    == RRR("do_nop", CLEARFLAGS(regs))

op_div(r, a, b, d) ==
  IF b = 0 THEN r
  ELSE LET q == SAFE_UPDATE(r, d, a \div b)
       IN  IF d # 15 THEN [q EXCEPT ![15] = a % b] ELSE q

(* Mutant: the dividend is read again after the quotient is stored. *)
do_div_reread ==
  LET q == SAFE_UPDATE(regs, ir.d, A \div B)
  IN  RRR("do_div",
          IF B = 0 THEN regs ELSE [q EXCEPT ![15] = q[ir.sa] % B])

do_div == RRR("do_div", op_div(regs, A, B, ir.d))

(* CLEARFLAGS comes first: an operand R15 is read as 0. *)
do_cmp ==
  LET r == CLEARFLAGS(regs)
  IN  RRR("do_cmp",
          [r EXCEPT ![15] = Status(CmpFlags(r[ir.sa], r[ir.sb]))])

do_trap_halt ==
  /\ At("do_trap") /\ regs[ir.d] = 0
  /\ CallHandler("end_hotloop")
  /\ UNCHANGED <<regs, ir, pc, adr, mem, stdout>>

do_trap_write ==
  /\ At("do_trap") /\ regs[ir.d] = 2 /\ Survives(regs, ir)
  /\ \E far \in FarReads(regs, ir) :
       stdout' = Put(stdout, TrapBytes(mem, regs, ir, far))
  /\ Body("do_trap", CLEARFLAGS(regs), 1)
  /\ UNCHANGED <<adr, mem>>

do_trap_other ==
  /\ At("do_trap") /\ regs[ir.d] \notin {0, 2}
  /\ RRR("do_trap", CLEARFLAGS(regs))

do_rfi == Body("do_rfi", regs, 2) /\ UNCHANGED <<adr, mem, stdout>>

(***************************************************************************)
(* RX instructions.  SAFE_UPDATE is a macro: with d = 0 its value, and     *)
(* with it compute_rx_eaddr and the memory read, is never evaluated.       *)
(***************************************************************************)
compute_rx_eaddr == EAddr(regs, ir)

do_lea ==
  /\ Body("do_lea", SAFE_UPDATE(regs, ir.d, compute_rx_eaddr), 2)
  /\ adr' = IF ir.d # 0 THEN compute_rx_eaddr ELSE adr
  /\ UNCHANGED <<mem, stdout>>

do_load ==
  /\ \/ /\ ir.d = 0
        /\ Body("do_load", regs, 2)
        /\ UNCHANGED adr
     \/ /\ ir.d # 0
        /\ \E w \in Peek(mem, compute_rx_eaddr) :
             Body("do_load", SAFE_UPDATE(regs, ir.d, bswap_16(w)), 2)
        /\ adr' = compute_rx_eaddr
  /\ UNCHANGED <<mem, stdout>>

(* Mutant: the value is stored in the byte order of the host. *)
do_store_unswapped ==
  /\ Peek(mem, compute_rx_eaddr) # {}
  /\ Body("do_store", regs, 2)
  /\ adr' = compute_rx_eaddr
  /\ mem' = Poke(mem, compute_rx_eaddr, regs[ir.d])
  /\ UNCHANGED stdout

do_store ==
  /\ Peek(mem, compute_rx_eaddr) # {}
  /\ Body("do_store", regs, 2)
  /\ adr' = compute_rx_eaddr
  /\ mem' = Poke(mem, compute_rx_eaddr, bswap_16(regs[ir.d]))
  /\ UNCHANGED stdout

Jump(lab, taken) ==
  /\ At(lab)
  /\ IF taken
       THEN pc' = compute_rx_eaddr /\ adr' = compute_rx_eaddr
       ELSE pc' = U16(pc + 2) /\ adr' = adr
  /\ DISPATCH
  /\ UNCHANGED <<regs, mem, stdout>>

do_jump   == Jump("do_jump", TRUE)
do_jumpc0 == Jump("do_jumpc0", select_bit(regs[15], ir.d) = 0)
do_jumpc1 == Jump("do_jumpc1", select_bit(regs[15], ir.d) = 1)
do_jumpf  == Jump("do_jumpf", regs[ir.d] = 0)
do_jumpt  == Jump("do_jumpt", regs[ir.d] # 0)

(* Mutant: the target is computed before the link register is written. *)
do_jal_target_first ==
  /\ At("do_jal")
  /\ regs' = SAFE_UPDATE(regs, ir.d, U16(pc + 2))
  /\ adr' = compute_rx_eaddr
  /\ pc' = adr'
  /\ DISPATCH
  /\ UNCHANGED <<mem, stdout>>

(* Mutant: the link is the address of the call. *)
do_jal_links_itself ==
  /\ At("do_jal")
  /\ regs' = SAFE_UPDATE(regs, ir.d, pc)
  /\ adr' = EAddr(regs', ir)
  /\ pc' = adr'
  /\ DISPATCH
  /\ UNCHANGED <<mem, stdout>>

(* The link register is written first, so R[sa] may already be the link. *)
do_jal ==
  /\ At("do_jal")
  /\ regs' = SAFE_UPDATE(regs, ir.d, U16(pc + 2))
  /\ adr' = EAddr(regs', ir)
  /\ pc' = adr'
  /\ DISPATCH
  /\ UNCHANGED <<mem, stdout>>

(* An access past the mapping, or a jump past exp_dispatch_table. *)
Segfault ==
  /\ \/ /\ phase = "dispatch"
        /\ \/ pc \notin Address
           \/ \E w \in Peek(mem, pc) : OperandAddrs(pc, w) \ Address # {}
           \/ \E f \in Fetched(mem, pc) : f.label = "do_rfi" /\ f.i.disp # 0
     \/ phase = "execute" /\ DataAddrs(label, regs, ir) \ Address # {}
  /\ phase' = "crashed"
  /\ UNCHANGED <<regs, ir, pc, adr, mem, stdout, label>>

-----------------------------------------------------------------------------
(* The trace handler returns to the label that called it. *)
HandlerReturn ==
  /\ phase = "handler"
  /\ phase' = IF label = "exec_start"       THEN "dispatch"
              ELSE IF label = "end_hotloop" THEN "halted"
              ELSE "execute"
  /\ UNCHANGED <<regs, ir, pc, adr, mem, stdout, label>>

(* For nop the handler prints the instruction that an earlier decode left. *)
(* The mnemonics of RRR instructions end with trap: for any other opcode   *)
(* the pointer that is printed is taken from past them, and may be wild.   *)
trace_rrr_faults ==
  /\ phase = "handler" /\ Event(label) = "INST_RRR" /\ ir.op > 13
  /\ phase' = "aborted"
  /\ UNCHANGED <<regs, ir, pc, adr, mem, stdout, label>>

(* exec_normal installs sigma16_trace, which prints and returns. *)
sigma16_trace == HandlerReturn \/ trace_rrr_faults

Dispatching == DispatchRRR \/ DispatchNop \/ do_decode_rx \/ do_decode_exp

ExecRRR ==
  \/ do_add \/ do_sub \/ do_mul \/ do_div \/ do_cmp \/ do_cmplt \/ do_cmpeq
  \/ do_cmpgt \/ do_invold \/ do_andold \/ do_orold \/ do_xorold \/ do_nop
  \/ do_trap_halt \/ do_trap_write \/ do_trap_other

ExecRX ==
  \/ do_lea \/ do_load \/ do_store \/ do_jump \/ do_jumpc0 \/ do_jumpc1
  \/ do_jumpf \/ do_jumpt \/ do_jal

(* What sigma16_vm_exec does between two returns of the handler. *)
sigma16_vm_exec ==
  Dispatching \/ ExecRRR \/ do_rfi \/ ExecRX \/ Segfault

(* The process has ended. *)
Ended == phase \in Final /\ UNCHANGED vmVars

Next == sigma16_vm_exec \/ sigma16_trace \/ Ended

Spec == Init /\ [][Next]_vmVars

(* One thread, never blocked: it takes steps until the process ends. *)
FairSpec == Spec /\ WF_vmVars(sigma16_vm_exec \/ sigma16_trace)

-----------------------------------------------------------------------------
(***************************************************************************)
(* The machine the interpreter implements.  It has halted when control is  *)
(* at end_hotloop, before the handler is told; the calls of the handler    *)
(* are invisible.                                                          *)
(***************************************************************************)
isaStatus ==
  IF label = "end_hotloop"    THEN "halted"
  ELSE IF label = "do_bad_op" THEN "error"
  ELSE IF phase = "crashed"   THEN "crashed"
  ELSE "running"

ISA == INSTANCE Sigma16ISA WITH status <- isaStatus

(***************************************************************************)
(* Decoding into a persistent instruction register, calling out, and       *)
(* executing later from that register is the same as executing the         *)
(* instruction in memory at once (vm.c, all of sigma16_vm_exec): nothing   *)
(* the handler call leaves room for makes a stale decode take effect.      *)
(***************************************************************************)
ImplementsISA == ISA!Spec

(***************************************************************************)
(* R0 reads as 0 in every state: each of the instructions that write a     *)
(* destination goes through the SAFE_UPDATE guard (vm.c:27), including     *)
(* those that write two registers (op_div, do_jal).                        *)
(***************************************************************************)
R0Zero == regs[0] = 0

(***************************************************************************)
(* From the handler call to the end of the body, the label control is at   *)
(* and the instruction register are those of the word memory holds at pc,  *)
(* also after the handler ran (vm.c:47-52, 144).  do_nop, which does not   *)
(* decode, has only its label.                                             *)
(***************************************************************************)
IrMatches(f) ==
  /\ f.label = label
  /\ label # "do_nop" => <<ir.op, ir.d, ir.sa, ir.sb>>
                           = <<f.i.op, f.i.d, f.i.sa, f.i.sb>>
  /\ label \in RXLabels \cup {"do_rfi"} => ir.disp = f.i.disp

DecodeCoherent ==
  phase \in {"handler", "execute"} /\ label \in InstLabels =>
    \E f \in Fetched(mem, pc) : IrMatches(f)

(***************************************************************************)
(* do_div leaves a quotient and a remainder that belong together, also     *)
(* when the destination is one of the operands (vm.c:111-127).             *)
(***************************************************************************)
DivisionIdentity ==
  [][/\ phase = "execute" /\ label = "do_div"
     /\ B # 0 /\ ir.d \notin {0, 15}
     => A = B * regs'[ir.d] + regs'[15] /\ regs'[15] < B]_vmVars

(***************************************************************************)
(* What the trace handler is shown is the instruction about to execute:    *)
(* README.md:77 has the callback "called prior to every instruction" with  *)
(* the instruction as its argument.                                        *)
(***************************************************************************)
TraceShowsInstruction ==
  phase = "handler" /\ label \in InstLabels =>
    \E f \in Fetched(mem, pc) : [ir EXCEPT !.disp = 0] = [f.i EXCEPT !.disp = 0]
=============================================================================
