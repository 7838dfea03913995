------------------------- MODULE Sigma16TracingProofs -------------------------
(***************************************************************************)
(* The trace of sigma16_trace, for all programs: its types, what a reader  *)
(* of a line can rely on, the flags of a dump, and that tracing leaves the *)
(* program alone.                                                          *)
(***************************************************************************)
EXTENDS Sigma16Tracing, Sigma16VMProofs

-----------------------------------------------------------------------------
(***************************************************************************)
(* The instruction register holds an instruction of the label control is   *)
(* at: its mnemonic is an entry of the table of that format.               *)
(***************************************************************************)
LEMMA LabelOfInst ==
  ASSUME TypeOK, DecodeCoherent, phase \in {"handler", "execute"}
  PROVE  /\ label \in RRRLabels \ {"do_nop"} =>
              ir.op \in 0..13 /\ label = dispatch_table[ir.op + 1]
         /\ label \in RXLabels =>
              ir.sb \in 0..8 /\ label = rx_dispatch_table[ir.sb + 1]
<1> SUFFICES ASSUME label \in (RRRLabels \ {"do_nop"}) \cup RXLabels
             PROVE  /\ label \in RRRLabels \ {"do_nop"} =>
                         ir.op \in 0..13 /\ label = dispatch_table[ir.op + 1]
                    /\ label \in RXLabels =>
                         ir.sb \in 0..8 /\ label = rx_dispatch_table[ir.sb + 1]
  OBVIOUS
<1>1. PICK f \in Fetched(mem, pc) : IrMatches(f)
  BY DEF DecodeCoherent, InstLabels
<1>2. f.label = label /\ ir.op = f.i.op /\ ir.sb = f.i.sb
  BY <1>1 DEF IrMatches, RRRLabels, RXLabels
<1>3. ir.op \in Reg /\ ir.sb \in Reg
  BY DEF TypeOK, Inst
<1>4. CASE label \in RRRLabels
  <2>1. label \notin RXLabels \cup {"do_rfi"}
    BY <1>4 DEF RRRLabels, RXLabels
  <2>2. mem \in Memory
    BY DEF TypeOK
  <2>3. \A w \in Word : Sb(w) \in Reg
    BY WordDef DEF Sb, Reg
  <2>4. \A v \in Peek(mem, pc) : RxDispatch(Sb(v)) \notin RRRLabels
    BY <2>2, <2>3, PeekWord, RxDispatchLabel DEF RRRLabels, RXLabels
  <2>5. PICK w \in Peek(mem, pc) : f = [label |-> Dispatch(w), i |-> InterpRRR(w, 0)]
    BY <1>1, <1>2, <1>4, <2>1, <2>4 DEF Fetched
  <2>6. label = dispatch_table[ir.op + 1]
    BY <1>2, <2>5 DEF Dispatch, InterpRRR
  <2>7. ir.op # 14 /\ ir.op # 15
    BY <1>4, <2>6 DEF dispatch_table, RRRLabels
  <2> QED BY <1>3, <2>1, <2>6, <2>7 DEF Reg
<1>5. CASE label \in RXLabels
  <2>1. label \notin RRRLabels \cup {"do_rfi"}
    BY <1>5 DEF RRRLabels, RXLabels
  <2>2. PICK w \in Peek(mem, pc), x \in Peek(mem, pc + 1) :
          f = [label |-> RxDispatch(Sb(w)), i |-> InterpRX(w, x)]
    BY <1>1, <1>2, <1>5, <2>1 DEF Fetched
  <2>3. label = rx_dispatch_table[ir.sb + 1]
    BY <1>2, <2>2 DEF RxDispatch, InterpRX, InterpRRR
  <2>4. ir.sb \notin 9..15
    BY <1>5, <2>3 DEF rx_dispatch_table, RXLabels
  <2> QED BY <1>3, <2>1, <2>3, <2>4 DEF Reg
<1> QED BY <1>4, <1>5
-----------------------------------------------------------------------------
(* The lines. *)
LineType == [name : Names, regs : Seq(Reg), disp : Word \cup {NoDisp}]

LEMMA LineTyped ==
  ASSUME NEW n \in Names, NEW r \in Seq(Reg), NEW x \in Word \cup {NoDisp}
  PROVE  Line(n, r, x) \in LineType
BY DEF Line, LineType

LEMMA RRRLineTyped ==
  ASSUME NEW i \in Inst
  PROVE  trace_rrr(i) \in LineType
<1>1. i.op \in Reg /\ i.d \in Reg /\ i.sa \in Reg /\ i.sb \in Reg
  BY DEF Inst
<1>2. mnemonic(i.op) \in Names
  <2>1. i.op < 14 => i.op + 1 \in 1..14
    BY <1>1 DEF Reg
  <2> QED BY <2>1 DEF mnemonic, Names
<1>3. <<i.sa, i.sb>> \in Seq(Reg) /\ <<i.d, i.sa, i.sb>> \in Seq(Reg)
  BY <1>1
<1> QED BY <1>2, <1>3, LineTyped DEF trace_rrr

LEMMA RXLineTyped ==
  ASSUME NEW i \in Inst, i.sb \in 0..8
  PROVE  trace_rx(i) \in LineType
<1>1. i.d \in Reg /\ i.sa \in Reg /\ i.disp \in Word
  BY DEF Inst
<1>2. RX_INST_MNEMONICS[i.sb + 1] \in Names
  <2>1. i.sb + 1 \in 1..9
    OBVIOUS
  <2> QED BY <2>1 DEF Names
<1>3. <<i.sa>> \in Seq(Reg) /\ <<i.d, i.sa>> \in Seq(Reg)
  BY <1>1
<1> QED BY <1>1, <1>2, <1>3, LineTyped DEF trace_rx

(* Which of the three lines is printed at a label. *)
LEMMA TracedAs ==
  ASSUME NEW lab, NEW i
  PROVE  /\ lab \in RRRLabels => Traced(lab, i) = trace_rrr(i)
         /\ lab \in RXLabels => Traced(lab, i) = trace_rx(i)
         /\ lab = "do_rfi" => Traced(lab, i) = Line("", << >>, NoDisp)
<1>1. /\ lab \in RRRLabels => Event(lab) = "INST_RRR"
      /\ lab \in RXLabels => Event(lab) = "INST_RX"
      /\ lab = "do_rfi" => Event(lab) = "INST_EXP0"
  BY DEF Event, RRRLabels, RXLabels
<1> QED BY <1>1 DEF Traced

LEMMA TracedTyped ==
  ASSUME TypeOK, DecodeCoherent, phase \in {"handler", "execute"},
         label \in InstLabels
  PROVE  Traced(label, ir) \in LineType
<1>1. ir \in Inst
  BY DEF TypeOK
<1>2. CASE label \in RRRLabels
  BY <1>1, <1>2, TracedAs, RRRLineTyped
<1>3. CASE label \in RXLabels
  BY <1>1, <1>3, TracedAs, RXLineTyped, LabelOfInst
<1>4. CASE label = "do_rfi"
  <2>1. "" \in Names /\ << >> \in Seq(Reg)
    BY DEF Names
  <2> QED BY <1>4, <2>1, TracedAs, LineTyped
<1> QED BY <1>2, <1>3, <1>4 DEF InstLabels

-----------------------------------------------------------------------------
(***************************************************************************)
(* The inductive invariant: the interpreter's, and that an instruction     *)
(* about to execute is the one whose line was printed last.                *)
(***************************************************************************)
LineShown == phase = "execute" => line = Traced(label, ir)

TracingInv ==
  /\ TypeOK /\ ControlInv /\ DecodeCoherent
  /\ line \in LineType
  /\ LineShown

LEMMA TracingInitInv ==
  ASSUME TracingInit
  PROVE  TracingInv
<1>1. TypeOK
  BY DataInit DEF TracingInit, DataInv
<1>2. line \in LineType
  <2>1. "none" \in Names /\ << >> \in Seq(Reg)
    BY DEF Names
  <2> QED BY <2>1, LineTyped DEF TracingInit, NoLine
<1>3. ControlInv /\ DecodeCoherent /\ LineShown
  BY DEF TracingInit, Init, ControlInv, DecodeCoherent, LineShown, InstLabels,
         RRRLabels, RXLabels
<1> QED BY <1>1, <1>2, <1>3 DEF TracingInv

LEMMA TracingKeeps ==
  ASSUME TracingInv, [TracingNext]_tracingVars
  PROVE  TracingInv'
<1>1. TypeOK /\ ControlInv /\ DecodeCoherent /\ line \in LineType /\ LineShown
  BY DEF TracingInv
<1>2. PICK z \in Word : DataInv(z)
  BY <1>1 DEF TypeOK, DataInv, Reg
<1>3. CASE sigma16_vm_exec /\ UNCHANGED line
  <2>1. TypeOK' /\ ControlInv' /\ DecodeCoherent'
    BY <1>1, <1>2, <1>3, DataNext, ControlStep, CoherentStep DEF Next, DataInv
  <2>2. phase' # "execute"
    BY <1>1, <1>3, InterpreterStep DEF InterpretDispatch, InterpretBody
  <2> QED BY <1>1, <1>3, <2>1, <2>2 DEF TracingInv, LineShown
<1>4. CASE sigma16_trace_prints
  <2>1. HandlerReturn
    BY <1>4 DEF sigma16_trace_prints
  <2>2. TypeOK' /\ ControlInv' /\ DecodeCoherent'
    BY <1>1, <1>2, <2>1, DataNext, ControlReturn, CoherentReturn
       DEF Next, sigma16_trace, DataInv
  <2>3. line' \in LineType
    BY <1>1, <1>4, <2>1, TracedTyped DEF sigma16_trace_prints, HandlerReturn
  <2>4. LineShown'
    <3>1. phase' = "execute" => label \in InstLabels
      BY <2>1, <2>2 DEF ControlInv, HandlerReturn
    <3>2. UNCHANGED <<label, ir>>
      BY <2>1 DEF HandlerReturn
    <3>3. Traced(label, ir)' = Traced(label, ir)
      BY <3>2 DEF Traced, Event, trace_rrr, trace_rx
    <3> QED BY <1>4, <3>1, <3>3 DEF sigma16_trace_prints, LineShown
  <2> QED BY <2>2, <2>3, <2>4 DEF TracingInv
<1>5. CASE trace_rrr_faults /\ UNCHANGED line
  BY <1>1, <1>5 DEF trace_rrr_faults, TracingInv, LineShown, TypeOK, ControlInv,
                    DecodeCoherent, Phase, Final
<1>6. CASE UNCHANGED tracingVars
  <2>1. Traced(label, ir)' = Traced(label, ir)
    BY <1>6 DEF tracingVars, vmVars, Traced, Event, trace_rrr, trace_rx
  <2> QED BY <1>1, <1>6, <2>1
          DEF tracingVars, vmVars, TracingInv, LineShown, TypeOK, ControlInv,
              DecodeCoherent, IrMatches
<1> QED BY <1>3, <1>4, <1>5, <1>6 DEF TracingNext, Ended, tracingVars

LEMMA TracingInvariant == TracingSpec => []TracingInv
<1>1. TracingInv /\ [TracingNext]_tracingVars => TracingInv'
  BY TracingKeeps
<1> QED BY <1>1, TracingInitInv, PTL DEF TracingSpec

(* What is printed from past the table is the text of a nop. *)
GarbageOnlyForNop ==
  phase = "execute" /\ line.name = "garbage" => label = "do_nop"

LEMMA OwnMnemonic ==
  ASSUME TracingInv
  PROVE  GarbageOnlyForNop
<1> SUFFICES ASSUME phase = "execute", label # "do_nop"
             PROVE  line.name # "garbage"
  BY DEF GarbageOnlyForNop
<1>1. /\ label \in InstLabels /\ line = Traced(label, ir)
      /\ label \in RRRLabels \ {"do_nop"} => ir.op \in 0..13
      /\ label \in RXLabels => ir.sb \in 0..8
  BY LabelOfInst DEF TracingInv, ControlInv, LineShown
<1>2. CASE label \in RRRLabels
  <2>1. line = trace_rrr(ir)
    BY <1>1, <1>2, TracedAs
  <2>2. ir.op \in 0..13
    BY <1>1, <1>2
  <2>3. mnemonic(ir.op) # "garbage"
    BY <2>2 DEF mnemonic, RRR_INST_MNEMONICS
  <2> QED BY <2>1, <2>3 DEF trace_rrr, Line
<1>3. CASE label \in RXLabels
  <2>1. line = trace_rx(ir)
    BY <1>1, <1>3, TracedAs
  <2>2. ir.sb \in 0..8
    BY <1>1, <1>3
  <2>3. RX_INST_MNEMONICS[ir.sb + 1] # "garbage"
    BY <2>2 DEF RX_INST_MNEMONICS
  <2> QED BY <2>1, <2>3 DEF trace_rx, Line
<1>4. CASE label = "do_rfi"
  <2>1. line = Line("", << >>, NoDisp)
    BY <1>1, <1>4, TracedAs
  <2>2. line.name = ""
    BY <2>1 DEF Line
  <2> QED BY <2>2
<1> QED BY <1>1, <1>2, <1>3, <1>4 DEF InstLabels

(***************************************************************************)
(* The trace keeps its types.  The text of an instruction that is about to *)
(* execute is the entry of its opcode in the table of its format, but for  *)
(* a nop, whose text may come from past the table, depending on what was   *)
(* decoded before (tracing.c:51-110).                                      *)
(***************************************************************************)
THEOREM TracingTypeCorrect == TracingSpec => [](TracingTypeOK /\ GarbageOnlyForNop)
<1>1. TracingInv => TracingTypeOK /\ GarbageOnlyForNop
  BY OwnMnemonic DEF TracingInv, TracingTypeOK, LineType
<1> QED BY <1>1, TracingInvariant, PTL
-----------------------------------------------------------------------------
(***************************************************************************)
(* The operands an instruction of the abstract machine depends on.         *)
(***************************************************************************)
SameOperands(lab, i, j) ==
  \/ lab \in RRRLabels \ {"do_nop"} /\ i.sa = j.sa /\ i.sb = j.sb
       /\ (lab # "do_cmp" => i.d = j.d)
  \/ lab \in RXLabels /\ i.sa = j.sa /\ i.disp = j.disp
       /\ (lab # "do_jump" => i.d = j.d)
  \/ lab = "do_rfi"

LEMMA RRRReadsOperands ==
  ASSUME NEW lab \in RRRLabels \ {"do_nop"}, NEW i, NEW j,
         SameOperands(lab, i, j), ISA!Execute(lab, i)
  PROVE  ISA!Execute(lab, j)
<1>1. lab \notin RXLabels \cup {"do_rfi", "do_bad_op", "do_nop"}
  BY DEF RRRLabels, RXLabels
<1>2. i.sa = j.sa /\ i.sb = j.sb /\ (lab # "do_cmp" => i.d = j.d)
  BY <1>1 DEF SameOperands
<1>3. CASE ISA!Compute(lab, i)
  <2>1. lab # "do_cmp"
    BY <1>3 DEF ISA!Compute, ISA!KeepsR15, ISA!ClearsR15
  <2>2. ISA!Compute(lab, j)
    BY <1>2, <1>3, <2>1 DEF ISA!Compute, ISA!Assign
  <2> QED BY <2>2 DEF ISA!Execute
<1>4. CASE ISA!Divide(lab, i)
  BY <1>2, <1>4 DEF ISA!Divide, ISA!Assign, ISA!Execute
<1>5. CASE ISA!Compare(lab, i)
  BY <1>2, <1>5 DEF ISA!Compare, ISA!Execute
<1>6. CASE ISA!NoOperation(lab, i) \/ ISA!Halt(lab, i)
  BY <1>1, <1>2, <1>6 DEF ISA!NoOperation, ISA!Halt, ISA!Execute
<1>7. CASE ISA!Write(lab, i)
  <2>1. lab = "do_trap" /\ i.d = j.d
    BY <1>2, <1>7 DEF ISA!Write
  <2>2. /\ ISA!Survives(regs, j) <=> ISA!Survives(regs, i)
        /\ ISA!FarReads(regs, j) = ISA!FarReads(regs, i)
        /\ \A far : ISA!TrapBytes(mem, regs, j, far) = ISA!TrapBytes(mem, regs, i, far)
    BY <1>2 DEF ISA!Survives, ISA!FarReads, ISA!TrapBytes, ISA!TrapAddrs,
                ISA!TrapAddr, ISA!Shown
  <2>3. ISA!Write(lab, j)
    BY <1>7, <2>1, <2>2 DEF ISA!Write
  <2> QED BY <2>3 DEF ISA!Execute
<1>8. ~ISA!ReturnFromInterrupt(lab, i) /\ ~ISA!Illegal(lab, i)
      /\ ~ISA!LoadAddress(lab, i) /\ ~ISA!LoadWord(lab, i)
      /\ ~ISA!StoreWord(lab, i) /\ ~ISA!Branch(lab, i) /\ ~ISA!Call(lab, i)
  BY <1>1 DEF RXLabels, ISA!ReturnFromInterrupt, ISA!Illegal, ISA!LoadAddress,
              ISA!LoadWord, ISA!StoreWord, ISA!Branch, ISA!Call
<1> QED BY <1>3, <1>4, <1>5, <1>6, <1>7, <1>8 DEF ISA!Execute

LEMMA RXReadsOperands ==
  ASSUME NEW lab \in RXLabels, NEW i, NEW j,
         SameOperands(lab, i, j), ISA!Execute(lab, i)
  PROVE  ISA!Execute(lab, j)
<1>1. lab \notin RRRLabels \cup {"do_rfi", "do_bad_op"}
  BY DEF RRRLabels, RXLabels
<1>2. i.sa = j.sa /\ i.disp = j.disp /\ (lab # "do_jump" => i.d = j.d)
  BY <1>1 DEF SameOperands
<1>3. \A r : ISA!EAddr(r, i) = ISA!EAddr(r, j)
  BY <1>2 DEF ISA!EAddr
<1>4. CASE ISA!LoadAddress(lab, i) \/ ISA!LoadWord(lab, i) \/ ISA!StoreWord(lab, i)
  BY <1>2, <1>3, <1>4
     DEF ISA!LoadAddress, ISA!LoadWord, ISA!StoreWord, ISA!Assign, ISA!Execute
<1>5. CASE ISA!Branch(lab, i)
  <2>1. ISA!Taken(lab, i) <=> ISA!Taken(lab, j)
    BY <1>2 DEF ISA!Taken
  <2>2. ISA!Branch(lab, j)
    BY <1>3, <1>5, <2>1 DEF ISA!Branch
  <2> QED BY <2>2 DEF ISA!Execute
<1>6. CASE ISA!Call(lab, i)
  BY <1>2, <1>3, <1>6 DEF ISA!Call, ISA!Assign, ISA!Execute
<1>7. ~ISA!Compute(lab, i) /\ ~ISA!Divide(lab, i) /\ ~ISA!Compare(lab, i)
      /\ ~ISA!NoOperation(lab, i) /\ ~ISA!ReturnFromInterrupt(lab, i)
      /\ ~ISA!Halt(lab, i) /\ ~ISA!Write(lab, i) /\ ~ISA!Illegal(lab, i)
  BY <1>1 DEF RRRLabels, ISA!Compute, ISA!KeepsR15, ISA!ClearsR15, ISA!Divide,
              ISA!Compare, ISA!NoOperation, ISA!ReturnFromInterrupt, ISA!Halt,
              ISA!Write, ISA!Illegal
<1> QED BY <1>4, <1>5, <1>6, <1>7 DEF ISA!Execute

LEMMA ExecuteReadsOperands ==
  ASSUME NEW lab \in InstLabels, NEW i, NEW j,
         SameOperands(lab, i, j), ISA!Execute(lab, i)
  PROVE  ISA!Execute(lab, j)
<1>1. CASE lab = "do_rfi"
  <2>1. ISA!ReturnFromInterrupt(lab, i)
    BY <1>1 DEF ISA!Execute, ISA!Compute, ISA!KeepsR15, ISA!ClearsR15, ISA!Divide,
           ISA!Compare, ISA!NoOperation, ISA!Halt, ISA!Write, ISA!LoadAddress,
           ISA!LoadWord, ISA!StoreWord, ISA!Branch, ISA!Call, ISA!Illegal
  <2> QED BY <2>1 DEF ISA!ReturnFromInterrupt, ISA!Execute
<1>2. CASE lab \in RRRLabels
  <2>1. lab # "do_nop"
    BY <1>2 DEF SameOperands, RRRLabels, RXLabels
  <2> QED BY <1>2, <2>1, RRRReadsOperands
<1>3. CASE lab \in RXLabels
  BY <1>3, RXReadsOperands
<1> QED BY <1>1, <1>2, <1>3 DEF InstLabels

(* What a reading of the line shares with the instruction itself. *)
LEMMA ReadingKeeps ==
  ASSUME ir \in Inst, NEW g \in {"d", "sa", "sb"}, NEW r
  PROVE  LET i == [ir EXCEPT ![g] = r]
         IN  /\ i.op = ir.op /\ i.disp = ir.disp
             /\ g # "sb" => i.sb = ir.sb
<1>1. ir = [op |-> ir.op, d |-> ir.d, sa |-> ir.sa, sb |-> ir.sb, disp |-> ir.disp]
  BY DEF Inst
<1>2. CASE g = "d"
  BY <1>1, <1>2
<1>3. CASE g = "sa"
  BY <1>1, <1>3
<1>4. CASE g = "sb"
  BY <1>1, <1>4
<1> QED BY <1>2, <1>3, <1>4

LEMMA ReadingsAgree ==
  ASSUME TracingInv, phase = "execute", label \in InstLabels,
         label \notin {"do_invold", "do_nop"}, NEW i \in ReadAs
  PROVE  SameOperands(label, ir, i)
<1>1. /\ ir \in Inst /\ line = Traced(label, ir)
      /\ label \in RRRLabels \ {"do_nop"} =>
           ir.op \in 0..13 /\ label = dispatch_table[ir.op + 1]
      /\ label \in RXLabels =>
           ir.sb \in 0..8 /\ label = rx_dispatch_table[ir.sb + 1]
  BY LabelOfInst DEF TracingInv, LineShown, TypeOK
<1>2. PICK g \in Operands, r \in Reg : i = [ir EXCEPT ![g] = r]
  BY DEF ReadAs
<1>3. Traced(label, i) = Traced(label, ir)
  BY <1>1 DEF ReadAs
<1>4. CASE label \in RRRLabels
  <2>1. trace_rrr(i) = trace_rrr(ir) /\ i.op = ir.op
    BY <1>1, <1>2, <1>3, <1>4, TracedAs, ReadingKeeps DEF Operands
  <2>2. ir.op # 8 /\ (label # "do_cmp" => ir.op # 4)
    BY <1>1, <1>4 DEF dispatch_table
  <2>3. /\ ir.op = 4 => <<i.sa, i.sb>> = <<ir.sa, ir.sb>>
        /\ ir.op # 4 => <<i.d, i.sa, i.sb>> = <<ir.d, ir.sa, ir.sb>>
    BY <2>1, <2>2 DEF trace_rrr, Line
  <2> QED BY <1>4, <2>2, <2>3 DEF SameOperands
<1>5. CASE label \in RXLabels
  <2>1. g \in {"d", "sa"}
    BY <1>2, <1>5 DEF Operands, RRRLabels, RXLabels
  <2>2. trace_rx(i) = trace_rx(ir) /\ i.sb = ir.sb /\ i.disp = ir.disp
    BY <1>1, <1>2, <1>3, <1>5, <2>1, TracedAs, ReadingKeeps
  <2>3. label # "do_jump" => ir.sb # 3
    BY <1>1, <1>5 DEF rx_dispatch_table
  <2>4. /\ ir.sb = 3 => <<i.sa>> = <<ir.sa>>
        /\ ir.sb # 3 => <<i.d, i.sa>> = <<ir.d, ir.sa>>
    BY <2>2 DEF trace_rx, Line
  <2> QED BY <1>5, <2>2, <2>3, <2>4 DEF SameOperands
<1>6. CASE label = "do_rfi"
  BY <1>6 DEF SameOperands
<1> QED BY <1>4, <1>5, <1>6 DEF InstLabels

(***************************************************************************)
(* The trace can be replayed but for inv and nop: an instruction that      *)
(* completes is the one printed last, and every reading of its line that   *)
(* fills in the operand the line leaves out takes the same step            *)
(* (tracing.c:86, 103).  The line of an inv leaves out the register that   *)
(* is written, and that of a nop is another instruction's.                 *)
(***************************************************************************)
THEOREM TraceCanBeReplayed == TracingSpec => TraceDeterminesStep
<1>1. TracingInv /\ [TracingNext]_tracingVars
        => [Completes /\ label \notin {"do_invold", "do_nop"} => DoesAsRead]_tracingVars
  <2> SUFFICES ASSUME TracingInv, [TracingNext]_tracingVars, Completes,
                      label \notin {"do_invold", "do_nop"},
                      ~UNCHANGED tracingVars
               PROVE  DoesAsRead
    OBVIOUS
  <2>1. TypeOK /\ ControlInv /\ DecodeCoherent /\ phase = "execute"
        /\ label \in InstLabels
    BY DEF TracingInv, Completes
  <2>2. sigma16_vm_exec
    BY <2>1 DEF TracingNext, sigma16_trace_prints, HandlerReturn,
                trace_rrr_faults, Ended, Final
  <2>3. ExecRRR \/ do_rfi \/ ExecRX
    BY <2>1, <2>2 DEF sigma16_vm_exec, Dispatching, DispatchRRR, DispatchNop,
                      do_decode_rx, do_decode_exp, Segfault, Completes
  <2>4. PICK f \in ISA!Fetched(mem, pc) : Executing(f)
    BY <2>1, FetchedExecuting
  <2>5. ISA!Execute(label, f.i)
    BY <2>1, <2>3, <2>4, RRRImplements, RXImplements DEF Executing
  <2>6. SameOperands(label, f.i, ir)
    BY <2>1, <2>4 DEF Executing, SameOperands, InstLabels
  <2>7. ISA!Execute(label, ir)
    BY <2>1, <2>5, <2>6, ExecuteReadsOperands
  <2>8. ASSUME NEW i \in ReadAs
        PROVE  ISA!Execute(label, i)
    BY <2>1, <2>7, ReadingsAgree, ExecuteReadsOperands
  <2> QED BY <2>1, <2>8 DEF DoesAsRead, TracingInv, LineShown
<1> QED BY <1>1, TracingInvariant, PTL DEF TracingSpec, TraceDeterminesStep

(* The letter of a bit is lit exactly if the bit is set. *)
LEMMA LitBit ==
  ASSUME NEW w \in Word, NEW k \in Reg, k < 8
  PROVE  /\ FlagOfBit[k + 1] \in print_status(w) <=> select_bit(w, k) = 1
         /\ select_bit(w, k) \in {0, 1}
<1>1. w \in Int /\ k \in 0..7
  BY WordDef DEF Reg
<1>2. FlagOfBit[k + 1] \in DOMAIN FlagBit /\ FlagBit[FlagOfBit[k + 1]] = 15 - k
  BY <1>1 DEF FlagOfBit, FlagBit
<1>3. FlagOfBit[k + 1] \in print_status(w) <=> 15 - k \in Bits(w)
  BY <1>2 DEF print_status
<1>4. 15 - k \in Bits(w) <=> select_bit(w, k) = 1
  BY <1>1 DEF Bits, select_bit
<1>5. select_bit(w, k) \in {0, 1}
  BY <1>1 DEF select_bit
<1> QED BY <1>3, <1>4, <1>5

(***************************************************************************)
(* The letters a dump highlights decide the conditional jumps: jumpc1 goes *)
(* where the letter of its bit is lit, jumpc0 where it is not, for every   *)
(* value of R15 (tracing.c:122, vm.c:18).                                  *)
(***************************************************************************)
THEOREM LitFlagsAreTested == TracingSpec => LitFlagsDecideJumps
<1> DEFINE P == /\ phase = "execute" /\ label \in {"do_jumpc0", "do_jumpc1"}
                /\ ir.d < 8 /\ compute_rx_eaddr # U16(pc + 2)
           Q == pc' = compute_rx_eaddr <=> (Lit <=> label = "do_jumpc1")
<1>1. TracingInv /\ [TracingNext]_tracingVars => [P => Q]_tracingVars
  <2> SUFFICES ASSUME TracingInv, [TracingNext]_tracingVars, P,
                      ~UNCHANGED tracingVars
               PROVE  Q
    OBVIOUS
  <2>1. regs[15] \in Word /\ ir.d \in Reg
    BY DEF TracingInv, TypeOK, Inst, Reg
  <2>2. /\ Lit <=> select_bit(regs[15], ir.d) = 1
        /\ select_bit(regs[15], ir.d) \in {0, 1}
    BY <2>1, LitBit DEF Lit
  <2>3. sigma16_vm_exec
    BY DEF TracingNext, sigma16_trace_prints, HandlerReturn, trace_rrr_faults,
           Ended, Final
  <2>4. do_jumpc0 \/ do_jumpc1 \/ Segfault
    BY <2>3
       DEF sigma16_vm_exec, Dispatching, DispatchRRR, DispatchNop, do_decode_rx,
           do_decode_exp, ExecRRR, do_rfi, ExecRX, do_add, do_sub, do_mul, do_div,
           do_cmp, do_cmplt, do_cmpeq, do_cmpgt, do_invold, do_andold, do_orold,
           do_xorold, do_nop, do_trap_halt, do_trap_write, do_trap_other, do_lea,
           do_load, do_store, do_jump, do_jumpf, do_jumpt, do_jal, RRR, Body,
           Jump, At
  <2>5. ~Segfault
    BY DEF Segfault, DataAddrs
  <2>6. CASE do_jumpc0
    <3>1. /\ label = "do_jumpc0"
          /\ pc' = IF select_bit(regs[15], ir.d) = 0
                     THEN compute_rx_eaddr ELSE U16(pc + 2)
      BY <2>6 DEF do_jumpc0, Jump, At
    <3> QED BY <2>2, <3>1
  <2>7. CASE do_jumpc1
    <3>1. /\ label = "do_jumpc1"
          /\ pc' = IF select_bit(regs[15], ir.d) = 1
                     THEN compute_rx_eaddr ELSE U16(pc + 2)
      BY <2>7 DEF do_jumpc1, Jump, At
    <3> QED BY <2>2, <3>1
  <2> QED BY <2>4, <2>5, <2>6, <2>7
<1> QED BY <1>1, TracingInvariant, PTL DEF TracingSpec, LitFlagsDecideJumps

-----------------------------------------------------------------------------
(***************************************************************************)
(* Tracing does not change what the program does: printing the text of a   *)
(* nop from a pointer past the table may end the process (tracing.c:51-68, *)
(* called from vm.c:230), and every other step is a step of the abstract   *)
(* machine or none.                                                        *)
(***************************************************************************)
TracingTransparent == ISA!Init /\ [][ISA!Next]_(ISA!isaVars)

THEOREM TracingIsTransparent == TracingSpec => TracingTransparent
<1>1. TracingInit => ISA!Init
  BY InitImplements DEF TracingInit
<1>2. TracingInv /\ [TracingNext]_tracingVars => [ISA!Next]_(ISA!isaVars)
  <2> SUFFICES ASSUME TracingInv, [TracingNext]_tracingVars
               PROVE  ISA!Next \/ UNCHANGED ISA!isaVars
    OBVIOUS
  <2>1. TypeOK /\ ControlInv /\ DecodeCoherent
    BY DEF TracingInv
  <2>2. CASE sigma16_vm_exec
    BY <2>1, <2>2, StepImplements
  <2>3. CASE sigma16_trace
    BY <2>3, ReturnImplements
  <2>4. CASE Ended \/ UNCHANGED tracingVars
    BY <2>4 DEF Ended, tracingVars, vmVars, isaStatus, ISA!isaVars
  <2> QED BY <2>2, <2>3, <2>4
          DEF TracingNext, sigma16_trace_prints, sigma16_trace
<1> QED BY <1>1, <1>2, TracingInvariant, PTL DEF TracingSpec, TracingTransparent
=============================================================================
