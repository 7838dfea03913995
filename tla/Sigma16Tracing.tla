--------------------------- MODULE Sigma16Tracing ----------------------------
(***************************************************************************)
(* The interpreter with sigma16_trace as its handler, and the line that it *)
(* printed last (tracing.c).  Of a line the model keeps the mnemonic, the  *)
(* registers in the order they are printed and the displacement.           *)
(***************************************************************************)
EXTENDS Sigma16VM

VARIABLE line

tracingVars == <<vmVars, line>>

RRR_INST_MNEMONICS ==
  <<"add", "sub", "mul", "div", "cmp", "cmplt", "cmpeq",
    "cmpgt", "inv", "and", "or", "xor", "nop", "trap">>

RX_INST_MNEMONICS ==
  <<"lea", "load", "store", "jump", "jumpc0", "jumpc1",
    "jumpf", "jumpt", "jal">>

Line(name, registers, disp) ==
  [name |-> name, regs |-> registers, disp |-> disp]

(* Without a displacement, and without anything. *)
NoDisp  == -1
NoLine  == Line("none", << >>, NoDisp)

(* The entry past the end of RRR_INST_MNEMONICS is a null pointer, or any. *)
mnemonic(op) == IF op < 14 THEN RRR_INST_MNEMONICS[op + 1] ELSE "garbage"

(* cmp and inv are printed as pseudo instructions, without d. *)
trace_rrr(i) ==
  Line(mnemonic(i.op),
       IF i.op \in {4, 8} THEN <<i.sa, i.sb>> ELSE <<i.d, i.sa, i.sb>>,
       NoDisp)

(* Mutant: no branch prints d. *)
trace_rx_no_d(i) ==
  Line(RX_INST_MNEMONICS[i.sb + 1],
       IF i.sb \in 3..8 THEN <<i.sa>> ELSE <<i.d, i.sa>>, i.disp)

trace_rx(i) ==
  Line(RX_INST_MNEMONICS[i.sb + 1],
       IF i.sb = 3 THEN <<i.sa>> ELSE <<i.d, i.sa>>, i.disp)

(* What is printed for i at label lab.  An EXP instruction has no text. *)
Traced(lab, i) ==
  CASE Event(lab) = "INST_RRR"  -> trace_rrr(i)
    [] Event(lab) = "INST_RX"   -> trace_rx(i)
    [] Event(lab) = "INST_EXP0" -> Line("", << >>, NoDisp)
    [] OTHER                    -> NoLine

sigma16_trace_prints ==
  /\ HandlerReturn
  /\ line' = IF label \in InstLabels THEN Traced(label, ir) ELSE line

TracingInit == Init /\ line = NoLine

TracingNext ==
  \/ sigma16_vm_exec /\ UNCHANGED line
  \/ sigma16_trace_prints
  \/ trace_rrr_faults /\ UNCHANGED line
  \/ Ended /\ UNCHANGED line

TracingSpec == TracingInit /\ [][TracingNext]_tracingVars

-----------------------------------------------------------------------------
(***************************************************************************)
(* print_status, as dump_cpu calls it on R15: the letters it highlights.   *)
(***************************************************************************)
(* Mutant: the order of the letters is taken for that of the bits. *)
print_status_reversed(w) == {f \in DOMAIN FlagBit : 23 - FlagBit[f] \in Bits(w)}

print_status(w) == {f \in DOMAIN FlagBit : FlagBit[f] \in Bits(w)}

-----------------------------------------------------------------------------
Names ==
  {RRR_INST_MNEMONICS[k] : k \in 1..14} \cup {RX_INST_MNEMONICS[k] : k \in 1..9}
  \cup {"none", "garbage", ""}

TracingTypeOK ==
  /\ TypeOK
  /\ line \in [name : Names, regs : Seq(Reg), disp : Word \cup {NoDisp}]

(* The instructions at this label that are printed as line, as far as they *)
(* differ from ir in one operand.                                          *)
Operands == IF label \in RRRLabels THEN {"d", "sa", "sb"} ELSE {"d", "sa"}

ReadAs ==
  {i \in {[ir EXCEPT ![f] = r] : f \in Operands, r \in Reg} :
     Traced(label, i) = line}

(* The instruction that completes does what every reading of line says. *)
DoesAsRead ==
  /\ Traced(label, ir) = line
  /\ \A i \in ReadAs : ISA!Execute(label, i)

Completes ==
  phase = "execute" /\ label \in InstLabels /\ phase' # "crashed"

(***************************************************************************)
(* The trace can be replayed: the step of an instruction is the one that   *)
(* its line, read by itself, calls for, whatever the operands are that the *)
(* line leaves out (tracing.c:86, 103; inv and nop are the exceptions).    *)
(***************************************************************************)
TraceDeterminesStep ==
  [][Completes /\ label \notin {"do_invold", "do_nop"} => DoesAsRead]_tracingVars

(***************************************************************************)
(* The letters a dump highlights are the flags that a conditional jump on  *)
(* their bit tests (tracing.c:122, vm.c select_bit): jumpc1 is taken where *)
(* the letter of its bit is lit, jumpc0 where it is not.                   *)
(***************************************************************************)
FlagOfBit == <<"G", "g", "E", "l", "L", "V", "v", "C">>

Lit == FlagOfBit[ir.d + 1] \in print_status(regs[15])

LitFlagsDecideJumps ==
  [][/\ phase = "execute" /\ label \in {"do_jumpc0", "do_jumpc1"}
     /\ ir.d < 8 /\ compute_rx_eaddr # U16(pc + 2)
     => (pc' = compute_rx_eaddr <=> (Lit <=> label = "do_jumpc1"))]_tracingVars
=============================================================================
