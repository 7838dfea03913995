--------------------------- MODULE Sigma16VMProofs ---------------------------
(***************************************************************************)
(* Type correctness of the interpreter, R0 = 0, the coherence of the       *)
(* instruction register and the refinement of the abstract machine, for    *)
(* every set of executables, size of the mapping and content of the memory *)
(* past it; and what a program that compares and jumps computes.           *)
(***************************************************************************)
EXTENDS Sigma16Branches, Sigma16WordsProofs, SequenceTheorems

(* The register files with z in R0. *)
RegFile(z) == {r \in [Reg -> Word] : r[0] = z}

-----------------------------------------------------------------------------
(* Memory and output. *)

LEMMA PeekWord ==
  ASSUME NEW m \in Memory, NEW a
  PROVE  Peek(m, a) \subseteq Word
BY StoreAssumption DEF Peek, Memory

LEMMA PokeMemory ==
  ASSUME NEW m \in Memory, NEW a, NEW w \in Word
  PROVE  Poke(m, a, w) \in Memory
BY DEF Poke, Memory

LEMMA LoadMemory ==
  ASSUME NEW img \in Images
  PROVE  Load(img) \in Memory
<1>1. 0 \in Word
  BY WordDef
<1>2. img \in Seq(Word)
  BY StoreAssumption
<1>3. ASSUME NEW a \in Address, a < Len(img)
      PROVE  bswap_16(img[a + 1]) \in Word
  <2>1. a \in Int /\ 0 <= a
    BY StoreAssumption DEF Address
  <2>2. a + 1 \in 1..Len(img)
    BY <1>2, <1>3, <2>1
  <2>3. img[a + 1] \in Word
    BY <1>2, <2>2
  <2> QED BY <2>3, SwapWord
<1> QED BY <1>1, <1>3 DEF Load, Memory

LEMMA EAddrWord ==
  ASSUME NEW r \in [Reg -> Word], NEW i \in Inst
  PROVE  EAddr(r, i) \in Word
<1>1. r[i.sa] \in Word /\ i.disp \in Word
  BY DEF Inst
<1>2. r[i.sa] + i.disp \in Int
  BY <1>1, WordDef
<1> QED BY <1>2, U16Word DEF EAddr

(* The bytes of a write are a sequence of bytes. *)
LEMMA TrapBytesSeq ==
  ASSUME NEW m \in Memory, NEW r \in [Reg -> Word], NEW i \in Inst,
         NEW far \in FarReads(r, i)
  PROVE  TrapBytes(m, r, i, far) \in Seq(Byte)
<1> DEFINE n == IF r[i.sb] <= StdoutCap THEN r[i.sb] ELSE StdoutCap
<1>1. n \in Nat
  <2>1. r[i.sb] \in Word
    BY DEF Inst
  <2> QED BY <2>1, WordDef, StoreAssumption
<1>2. \A k \in 1..n : TrapByte(m, TrapAddr(r, i, k), far) \in Byte
  <2> SUFFICES ASSUME NEW k \in 1..n
               PROVE  TrapByte(m, TrapAddr(r, i, k), far) \in Byte
    OBVIOUS
  <2> DEFINE a == TrapAddr(r, i, k)
  <2>1. (IF a \in Address THEN m[a] ELSE far[a]) \in Word
    <3>1. CASE a \in Address
      BY <3>1 DEF Memory
    <3>2. CASE a \notin Address
      <4>1. a \in {TrapAddr(r, i, j) : j \in Shown(r, i)} \ Address
        BY <3>2 DEF Shown
      <4>2. far[a] \in Foreign
        BY <4>1 DEF FarReads
      <4> QED BY <3>2, <4>2, StoreAssumption
    <3> QED BY <3>1, <3>2
  <2> HIDE DEF a
  <2>2. bswap_16(IF a \in Address THEN m[a] ELSE far[a]) \in Word
    BY <2>1, SwapWord
  <2>3. TrapByte(m, a, far) \in Byte
    BY <2>2, WordDef DEF TrapByte, Byte
  <2> QED BY <2>3 DEF a
<1>3. TrapBytes(m, r, i, far) = [k \in 1..n |-> TrapByte(m, TrapAddr(r, i, k), far)]
  BY DEF TrapBytes, Shown
<1> HIDE DEF n
<1> QED BY <1>1, <1>2, <1>3

LEMMA PutOutput ==
  ASSUME NEW out \in Seq(Byte), NEW bytes \in Seq(Byte)
  PROVE  Put(out, bytes) \in Seq(Byte) /\ Len(Put(out, bytes)) <= StdoutCap
<1> DEFINE s == out \o bytes
<1>1. s \in Seq(Byte) /\ Len(s) \in Nat
  OBVIOUS
<1> HIDE DEF s
<1>2. CASE Len(s) <= StdoutCap
  BY <1>1, <1>2 DEF Put, s
<1>3. CASE ~(Len(s) <= StdoutCap)
  <2>1. 1 \in 1..Len(s) + 1 /\ StdoutCap \in 0..Len(s) /\ StdoutCap \in Nat
    BY <1>1, <1>3, StoreAssumption
  <2>2. SubSeq(s, 1, StdoutCap) \in Seq(Byte)
    BY <1>1, <2>1
  <2>3. Len(SubSeq(s, 1, StdoutCap)) = StdoutCap
    BY <1>1, <2>1
  <2>4. Put(out, bytes) = SubSeq(s, 1, StdoutCap)
    BY <1>3 DEF Put, s
  <2> QED BY <2>1, <2>2, <2>3, <2>4
<1> QED BY <1>2, <1>3

-----------------------------------------------------------------------------
(* Register files. *)

LEMMA SafeUpdate ==
  ASSUME NEW z, NEW r \in RegFile(z), NEW d \in Reg, NEW v \in Word
  PROVE  SAFE_UPDATE(r, d, v) \in RegFile(z)
BY DEF SAFE_UPDATE, RegFile, Reg

LEMMA SetStatus ==
  ASSUME NEW z, NEW r \in RegFile(z), NEW v \in Word
  PROVE  [r EXCEPT ![15] = v] \in RegFile(z)
BY DEF RegFile, Reg

LEMMA ClearFlags ==
  ASSUME NEW z, NEW r \in RegFile(z)
  PROVE  CLEARFLAGS(r) \in RegFile(z)
<1>1. 0 \in Word
  BY WordDef
<1> QED BY <1>1, SetStatus DEF CLEARFLAGS

-----------------------------------------------------------------------------
(***************************************************************************)
(* The inductive invariant of the data: the types, and z in R0.  The       *)
(* interpreter starts with z = 0; under the debugger the user may have     *)
(* stored another value there.                                             *)
(***************************************************************************)
DataInv(z) == TypeOK /\ regs[0] = z

LEMMA DataInvRegFile ==
  ASSUME NEW z, DataInv(z)
  PROVE  regs \in RegFile(z)
BY DEF DataInv, TypeOK, RegFile

LEMMA DataInit ==
  ASSUME Init
  PROVE  DataInv(0)
<1>1. 0 \in Word
  BY WordDef
<1>2. mem \in Memory
  BY LoadMemory DEF Init, Loaded
<1>3. regs \in [Reg -> Word] /\ regs[0] = 0
  BY <1>1 DEF Init, Reg
<1>4. ir \in Inst
  BY <1>1 DEF Init, NoInst, Inst, Reg
<1>5. stdout \in Seq(Byte) /\ Len(stdout) <= StdoutCap
  BY StoreAssumption DEF Init
<1> QED BY <1>1, <1>2, <1>3, <1>4, <1>5
        DEF Init, DataInv, TypeOK, Phase, Label

(* A decoding step changes ir, phase and label. *)
LEMMA DecodeStep ==
  ASSUME NEW z, DataInv(z), ir' \in Inst, phase' \in Phase, label' \in Label,
         UNCHANGED <<regs, pc, adr, mem, stdout>>
  PROVE  DataInv(z)'
BY DEF DataInv, TypeOK

LEMMA DispatchingData ==
  ASSUME NEW z, DataInv(z), Dispatching
  PROVE  DataInv(z)'
<1>1. mem \in Memory /\ ir \in Inst /\ ir.disp \in Word
  BY DEF DataInv, TypeOK, Inst
<1>2. "handler" \in Phase /\ "error" \in Phase
  BY DEF Phase, Final
<1>3. CASE DispatchRRR
  <2>1. PICK w \in Peek(mem, pc) :
          /\ Dispatch(w) \in RRRLabels
          /\ ir' = InterpRRR(w, ir.disp)
          /\ CallHandler(Dispatch(w))
    BY <1>3 DEF DispatchRRR
  <2>2. ir' \in Inst
    BY <1>1, <2>1, PeekWord, InterpInst
  <2> QED BY <1>2, <1>3, <2>1, <2>2, DecodeStep
          DEF DispatchRRR, CallHandler, Label, InstLabels
<1>4. CASE DispatchNop
  BY <1>1, <1>2, <1>4, DecodeStep
     DEF DispatchNop, CallHandler, Label, InstLabels, RRRLabels
<1>5. CASE do_decode_rx
  <2>1. PICK w \in Peek(mem, pc), x \in Peek(mem, pc + 1) :
          /\ ir' = InterpRX(w, x)
          /\ IF RxDispatch(Sb(w)) = "do_bad_op"
               THEN phase' = "error" /\ label' = "do_bad_op"
               ELSE CallHandler(RxDispatch(Sb(w)))
    BY <1>5 DEF do_decode_rx
  <2>2. w \in Word /\ x \in Word
    BY <1>1, PeekWord
  <2>3. ir' \in Inst
    BY <2>1, <2>2, InterpInst
  <2>4. Sb(w) \in Reg
    BY <2>2, WordDef DEF Sb, Reg
  <2>5. phase' \in Phase /\ label' \in Label
    BY <1>2, <2>1, <2>4, RxDispatchLabel DEF CallHandler, Label, InstLabels
  <2> QED BY <1>5, <2>3, <2>5, DecodeStep DEF do_decode_rx
<1>6. CASE do_decode_exp
  <2>1. PICK w \in Peek(mem, pc), x \in Peek(mem, pc + 1) :
          ir' = InterpEXP0(w, x) /\ CallHandler("do_rfi")
    BY <1>6 DEF do_decode_exp
  <2>2. ir' \in Inst
    BY <1>1, <2>1, PeekWord, InterpInst
  <2> QED BY <1>2, <1>6, <2>1, <2>2, DecodeStep
          DEF do_decode_exp, CallHandler, Label, InstLabels
<1> QED BY <1>3, <1>4, <1>5, <1>6 DEF Dispatching

(* A body that leaves a register file behind and moves on. *)
LEMMA BodyStep ==
  ASSUME NEW z, DataInv(z), regs' \in RegFile(z), pc' \in Word, adr' \in Word,
         mem' \in Memory, DISPATCH, UNCHANGED stdout
  PROVE  DataInv(z)'
BY DEF DataInv, TypeOK, RegFile, DISPATCH, Phase

(* The next instruction is at a word address. *)
LEMMA NextPc ==
  ASSUME NEW z, DataInv(z)
  PROVE  U16(pc + 1) \in Word /\ U16(pc + 2) \in Word
<1>1. pc \in Int
  BY WordDef DEF DataInv, TypeOK
<1> QED BY <1>1, U16Word

LEMMA RRRStep ==
  ASSUME NEW z, DataInv(z), NEW lab, NEW r \in RegFile(z), RRR(lab, r)
  PROVE  DataInv(z)'
<1>1. regs' = r /\ pc' = U16(pc + 1) /\ DISPATCH /\ UNCHANGED <<adr, mem, stdout>>
  BY DEF RRR, Body
<1>2. adr' \in Word /\ mem' \in Memory /\ pc' \in Word
  BY <1>1, NextPc DEF DataInv, TypeOK
<1> QED BY <1>1, <1>2, BodyStep

LEMMA ExecRRRData ==
  ASSUME NEW z, DataInv(z), ExecRRR
  PROVE  DataInv(z)'
<1>1. regs \in RegFile(z)
  BY DataInvRegFile
<1>2. ir \in Inst /\ ir.d \in Reg /\ ir.sa \in Reg /\ ir.sb \in Reg
  BY DEF DataInv, TypeOK, Inst
<1>3. A \in Word /\ B \in Word
  BY <1>1, <1>2 DEF A, B, RegFile
<1>4. \A v \in Word : APPLY_OP_RRR(v) \in RegFile(z)
  BY <1>1, <1>2, SafeUpdate DEF APPLY_OP_RRR
<1>5. \A v \in Word : CLEARFLAGS(APPLY_OP_RRR(v)) \in RegFile(z)
  BY <1>4, ClearFlags
<1>6. A \in Int /\ B \in Int
  BY <1>3, WordDef
<1>7. CASE do_add
  <2>1. U16(A + B) \in Word
    BY <1>6, U16Word
  <2>2. [APPLY_OP_RRR(U16(A + B)) EXCEPT ![15] = Status(AddFlags(ir.d))] \in RegFile(z)
    BY <1>4, <2>1, StatusWord, SetStatus
  <2> QED BY <1>7, <2>2, RRRStep DEF do_add
<1>8. CASE do_sub
  <2>1. U16(A - B) \in Word
    BY <1>6, U16Word
  <2> QED BY <1>4, <1>8, <2>1, RRRStep DEF do_sub
<1>9. CASE do_mul
  BY <1>3, <1>4, <1>9, MulWord, RRRStep DEF do_mul
<1>10. CASE do_div
  <2>1. CASE B = 0
    BY <1>1, <1>10, <2>1, RRRStep DEF do_div, op_div
  <2>2. CASE B # 0
    <3>1. A \div B \in Word /\ A % B \in Word
      BY <1>3, <2>2, DivWord
    <3>2. SAFE_UPDATE(regs, ir.d, A \div B) \in RegFile(z)
      BY <1>1, <1>2, <3>1, SafeUpdate
    <3>3. [SAFE_UPDATE(regs, ir.d, A \div B) EXCEPT ![15] = A % B] \in RegFile(z)
      BY <3>1, <3>2, SetStatus
    <3>4. op_div(regs, A, B, ir.d) \in RegFile(z)
      BY <2>2, <3>2, <3>3 DEF op_div
    <3> QED BY <1>10, <3>4, RRRStep DEF do_div
  <2> QED BY <2>1, <2>2
<1>11. CASE do_cmp
  <2> DEFINE r == CLEARFLAGS(regs)
  <2>1. r \in RegFile(z)
    BY <1>1, ClearFlags
  <2> HIDE DEF r
  <2>2. [r EXCEPT ![15] = Status(CmpFlags(r[ir.sa], r[ir.sb]))] \in RegFile(z)
    BY <2>1, StatusWord, SetStatus
  <2> QED BY <1>11, <2>2, RRRStep DEF do_cmp, r
<1>12. CASE do_cmplt \/ do_cmpeq \/ do_cmpgt
  BY <1>5, <1>12, TruthWord, RRRStep DEF do_cmplt, do_cmpeq, do_cmpgt
<1>13. CASE do_invold \/ do_andold \/ do_orold \/ do_xorold
  BY <1>3, <1>5, <1>13, BitwiseWord, RRRStep
     DEF do_invold, do_andold, do_orold, do_xorold
<1>14. CASE do_nop \/ do_trap_other
  BY <1>1, <1>14, ClearFlags, RRRStep DEF do_nop, do_trap_other
<1>15. CASE do_trap_halt
  BY <1>15 DEF do_trap_halt, CallHandler, DataInv, TypeOK, Phase, Label
<1>16. CASE do_trap_write
  <2>1. PICK far \in FarReads(regs, ir) :
          stdout' = Put(stdout, TrapBytes(mem, regs, ir, far))
    BY <1>16 DEF do_trap_write
  <2>2. stdout' \in Seq(Byte) /\ Len(stdout') <= StdoutCap
    BY <2>1, TrapBytesSeq, PutOutput DEF DataInv, TypeOK
  <2>3. regs' = CLEARFLAGS(regs) /\ pc' = U16(pc + 1) /\ DISPATCH
        /\ UNCHANGED <<adr, mem>>
    BY <1>16 DEF do_trap_write, Body
  <2>4. regs' \in RegFile(z) /\ pc' \in Word
    BY <1>1, <2>3, ClearFlags, NextPc
  <2> QED BY <2>2, <2>3, <2>4 DEF DataInv, TypeOK, RegFile, DISPATCH, Phase
<1> QED BY <1>7, <1>8, <1>9, <1>10, <1>11, <1>12, <1>13, <1>14, <1>15, <1>16
        DEF ExecRRR

LEMMA ExecRXData ==
  ASSUME NEW z, DataInv(z), ExecRX \/ do_rfi
  PROVE  DataInv(z)'
<1>1. regs \in RegFile(z) /\ regs \in [Reg -> Word]
  BY DataInvRegFile DEF RegFile
<1>2. /\ ir \in Inst /\ ir.d \in Reg /\ mem \in Memory /\ adr \in Word
      /\ pc \in Word
  BY DEF DataInv, TypeOK, Inst
<1>3. compute_rx_eaddr \in Word
  BY <1>1, <1>2, EAddrWord DEF compute_rx_eaddr
<1>4. U16(pc + 2) \in Word
  BY NextPc
<1>5. CASE do_rfi
  BY <1>1, <1>2, <1>4, <1>5, BodyStep DEF do_rfi, Body
<1>6. CASE do_lea
  <2>1. SAFE_UPDATE(regs, ir.d, compute_rx_eaddr) \in RegFile(z)
    BY <1>1, <1>2, <1>3, SafeUpdate
  <2> QED BY <1>2, <1>3, <1>4, <1>6, <2>1, BodyStep DEF do_lea, Body
<1>7. CASE do_load
  <2>1. CASE ir.d = 0
    BY <1>1, <1>2, <1>4, <1>7, <2>1, BodyStep DEF do_load, Body
  <2>2. CASE ir.d # 0
    <3>1. PICK w \in Peek(mem, compute_rx_eaddr) :
            Body("do_load", SAFE_UPDATE(regs, ir.d, bswap_16(w)), 2)
      BY <1>7, <2>2 DEF do_load
    <3>2. bswap_16(w) \in Word
      BY <1>2, PeekWord, SwapWord
    <3>3. SAFE_UPDATE(regs, ir.d, bswap_16(w)) \in RegFile(z)
      BY <1>1, <1>2, <3>2, SafeUpdate
    <3> QED BY <1>2, <1>3, <1>4, <1>7, <2>2, <3>1, <3>3, BodyStep DEF do_load, Body
  <2> QED BY <2>1, <2>2
<1>8. CASE do_store
  <2>1. regs[ir.d] \in Word
    BY <1>1, <1>2
  <2>2. Poke(mem, compute_rx_eaddr, bswap_16(regs[ir.d])) \in Memory
    BY <1>2, <2>1, SwapWord, PokeMemory
  <2> QED BY <1>1, <1>3, <1>4, <1>8, <2>2, BodyStep DEF do_store, Body
<1>9. ASSUME NEW lab, NEW taken, Jump(lab, taken)
      PROVE  DataInv(z)'
  <2>1. pc' \in Word /\ adr' \in Word
    BY <1>2, <1>3, <1>4, <1>9 DEF Jump
  <2> QED BY <1>1, <1>2, <1>9, <2>1, BodyStep DEF Jump
<1>10. CASE do_jump \/ do_jumpc0 \/ do_jumpc1 \/ do_jumpf \/ do_jumpt
  BY <1>9, <1>10 DEF do_jump, do_jumpc0, do_jumpc1, do_jumpf, do_jumpt
<1>11. CASE do_jal
  <2>1. regs' \in RegFile(z) /\ regs' \in [Reg -> Word]
    BY <1>1, <1>2, <1>4, <1>11, SafeUpdate DEF do_jal, RegFile
  <2>2. EAddr(regs', ir) \in Word
    BY <1>2, <2>1, EAddrWord
  <2> QED BY <1>2, <1>11, <2>1, <2>2, BodyStep DEF do_jal
<1> QED BY <1>5, <1>6, <1>7, <1>8, <1>10, <1>11 DEF ExecRX

LEMMA ControlData ==
  ASSUME NEW z, DataInv(z), sigma16_trace \/ Segfault \/ UNCHANGED vmVars
  PROVE  DataInv(z)'
<1>1. CASE sigma16_trace
  BY <1>1 DEF sigma16_trace, HandlerReturn, trace_rrr_faults, DataInv, TypeOK,
              Phase, Final
<1>2. CASE Segfault
  BY <1>2 DEF Segfault, DataInv, TypeOK, Phase, Final
<1>3. CASE UNCHANGED vmVars
  BY <1>3 DEF vmVars, DataInv, TypeOK
<1> QED BY <1>1, <1>2, <1>3

LEMMA DataNext ==
  ASSUME NEW z, DataInv(z), [Next]_vmVars
  PROVE  DataInv(z)'
BY DispatchingData, ExecRRRData, ExecRXData, ControlData
   DEF Next, sigma16_vm_exec, Ended

LEMMA DataInvariant == Spec => []DataInv(0)
<1>1. Init => DataInv(0)
  BY DataInit
<1>2. DataInv(0) /\ [Next]_vmVars => DataInv(0)'
  BY DataNext
<1> QED BY <1>1, <1>2, PTL DEF Spec

(***************************************************************************)
(* Every register, the program counter, the address register and every     *)
(* memory word stay 16-bit words, and the decoded fields register numbers, *)
(* through every instruction (vm.c, all of sigma16_vm_exec).               *)
(***************************************************************************)
THEOREM TypeCorrect == Spec => []TypeOK
<1>1. DataInv(0) => TypeOK
  BY DEF DataInv
<1> QED BY <1>1, DataInvariant, PTL

(***************************************************************************)
(* R0 is 0 in every reachable state (the SAFE_UPDATE guard, vm.c:27).      *)
(***************************************************************************)
THEOREM R0IsZero == Spec => []R0Zero
<1>1. DataInv(0) => R0Zero
  BY DEF DataInv, R0Zero
<1> QED BY <1>1, DataInvariant, PTL

-----------------------------------------------------------------------------
(* The label and the decoded fields a decoding step leaves are fetched. *)
LEMMA DecodeFetches ==
  ASSUME Dispatching
  PROVE  DecodeCoherent'
<1>1. CASE DispatchRRR
  <2>1. PICK w \in Peek(mem, pc) :
          /\ Dispatch(w) \in RRRLabels
          /\ ir' = InterpRRR(w, ir.disp)
          /\ CallHandler(Dispatch(w))
    BY <1>1 DEF DispatchRRR
  <2> DEFINE f == [label |-> Dispatch(w), i |-> InterpRRR(w, 0)]
  <2>2. f \in Fetched(mem, pc)
    BY <2>1 DEF Fetched
  <2>3. label' = Dispatch(w) /\ label' \notin RXLabels \cup {"do_rfi"}
    BY <2>1 DEF CallHandler, RRRLabels, RXLabels
  <2>4. IrMatches(f)'
    BY <2>1, <2>3 DEF IrMatches, InterpRRR
  <2>5. mem' = mem /\ pc' = pc
    BY <1>1 DEF DispatchRRR
  <2> QED BY <2>2, <2>4, <2>5 DEF DecodeCoherent
<1>2. CASE DispatchNop
  <2>1. PICK w \in Peek(mem, pc) : Dispatch(w) = "do_nop"
    BY <1>2 DEF DispatchNop
  <2> DEFINE f == [label |-> Dispatch(w), i |-> InterpRRR(w, 0)]
  <2>2. f \in Fetched(mem, pc)
    BY <2>1 DEF Fetched, RRRLabels
  <2>3. IrMatches(f)'
    BY <1>2, <2>1 DEF DispatchNop, CallHandler, IrMatches, RXLabels
  <2>4. mem' = mem /\ pc' = pc
    BY <1>2 DEF DispatchNop
  <2> QED BY <2>2, <2>3, <2>4 DEF DecodeCoherent
<1>3. CASE do_decode_rx
  <2>1. PICK w \in Peek(mem, pc), x \in Peek(mem, pc + 1) :
          /\ Dispatch(w) = "do_decode_rx"
          /\ ir' = InterpRX(w, x)
          /\ IF RxDispatch(Sb(w)) = "do_bad_op"
               THEN phase' = "error" /\ label' = "do_bad_op"
               ELSE CallHandler(RxDispatch(Sb(w)))
    BY <1>3 DEF do_decode_rx
  <2> DEFINE f == [label |-> RxDispatch(Sb(w)), i |-> InterpRX(w, x)]
  <2>2. f \in Fetched(mem, pc)
    <3>1. <<w, x>> \in {y \in Peek(mem, pc) : Dispatch(y) = "do_decode_rx"}
                      \X Peek(mem, pc + 1)
      BY <2>1
    <3>2. f = [label |-> RxDispatch(Sb(<<w, x>>[1])),
               i |-> InterpRX(<<w, x>>[1], <<w, x>>[2])]
      OBVIOUS
    <3> QED BY <3>1, <3>2 DEF Fetched
  <2>3. IrMatches(f)'
    BY <2>1 DEF CallHandler, IrMatches
  <2>4. mem' = mem /\ pc' = pc
    BY <1>3 DEF do_decode_rx
  <2> QED BY <2>2, <2>3, <2>4 DEF DecodeCoherent
<1>4. CASE do_decode_exp
  <2>1. PICK w \in Peek(mem, pc), x \in Peek(mem, pc + 1) :
          /\ Dispatch(w) = "do_decode_exp"
          /\ ir' = InterpEXP0(w, x)
          /\ CallHandler("do_rfi")
    BY <1>4 DEF do_decode_exp
  <2> DEFINE f == [label |-> "do_rfi", i |-> InterpEXP0(w, x)]
  <2>2. f \in Fetched(mem, pc)
    <3>1. <<w, x>> \in {y \in Peek(mem, pc) : Dispatch(y) = "do_decode_exp"}
                      \X Peek(mem, pc + 1)
      BY <2>1
    <3>2. f = [label |-> "do_rfi",
               i |-> InterpEXP0(<<w, x>>[1], <<w, x>>[2])]
      OBVIOUS
    <3> QED BY <3>1, <3>2 DEF Fetched
  <2>3. IrMatches(f)'
    BY <2>1 DEF CallHandler, IrMatches
  <2>4. mem' = mem /\ pc' = pc
    BY <1>4 DEF do_decode_exp
  <2> QED BY <2>2, <2>3, <2>4 DEF DecodeCoherent
<1> QED BY <1>1, <1>2, <1>3, <1>4 DEF Dispatching

(* A body ends at DISPATCH or at end_hotloop. *)
LEMMA BodyEnds ==
  ASSUME ExecRRR \/ do_rfi \/ ExecRX
  PROVE  phase' = "dispatch" \/ label' = "end_hotloop"
BY DEF ExecRRR, do_rfi, ExecRX, do_add, do_sub, do_mul, do_div, do_cmp,
       do_cmplt, do_cmpeq, do_cmpgt, do_invold, do_andold, do_orold, do_xorold,
       do_nop, do_trap_halt, do_trap_write, do_trap_other, do_lea, do_load,
       do_store, do_jump, do_jumpc0, do_jumpc1, do_jumpf, do_jumpt, do_jal,
       RRR, Body, Jump, DISPATCH, CallHandler

LEMMA CoherentStep ==
  ASSUME DecodeCoherent, sigma16_vm_exec
  PROVE  DecodeCoherent'
<1>1. CASE Dispatching
  BY <1>1, DecodeFetches
<1>2. CASE ExecRRR \/ do_rfi \/ ExecRX
  BY <1>2, BodyEnds DEF DecodeCoherent, InstLabels, RRRLabels, RXLabels
<1>3. CASE Segfault
  BY <1>3 DEF Segfault, DecodeCoherent
<1> QED BY <1>1, <1>2, <1>3 DEF sigma16_vm_exec

LEMMA CoherentReturn ==
  ASSUME DecodeCoherent, sigma16_trace
  PROVE  DecodeCoherent'
BY DEF sigma16_trace, HandlerReturn, trace_rrr_faults, DecodeCoherent, IrMatches

(***************************************************************************)
(* What the handler is called for, and what executes after it returns, is  *)
(* the instruction memory holds at pc (vm.c:47-52, 144).                   *)
(***************************************************************************)
THEOREM DecodingIsCoherent == Spec => []DecodeCoherent
<1>1. Init => DecodeCoherent
  BY DEF Init, DecodeCoherent, InstLabels, RRRLabels, RXLabels
<1>2. DecodeCoherent /\ [Next]_vmVars => DecodeCoherent'
  <2> SUFFICES ASSUME DecodeCoherent, UNCHANGED vmVars
               PROVE  DecodeCoherent'
    BY CoherentStep, CoherentReturn DEF Next, Ended
  <2> QED BY DEF vmVars, DecodeCoherent, IrMatches
<1> QED BY <1>1, <1>2, PTL DEF Spec

-----------------------------------------------------------------------------
(* Control at do_div executes do_div. *)
LEMMA AtDiv ==
  ASSUME [Next]_vmVars, phase = "execute", label = "do_div"
  PROVE  do_div \/ UNCHANGED vmVars
BY DEF Next, sigma16_vm_exec, sigma16_trace, Ended, Dispatching, DispatchRRR,
       DispatchNop, do_decode_rx, do_decode_exp, HandlerReturn,
       trace_rrr_faults, Segfault,
       DataAddrs, Final,
       ExecRRR, do_rfi, ExecRX, do_add, do_sub, do_mul, do_cmp,
       do_cmplt, do_cmpeq, do_cmpgt, do_invold, do_andold, do_orold, do_xorold,
       do_nop, do_trap_halt, do_trap_write, do_trap_other, do_lea, do_load,
       do_store, do_jump, do_jumpc0, do_jumpc1, do_jumpf, do_jumpt, do_jal,
       RRR, Body, Jump, At

LEMMA DivisionStep ==
  ASSUME TypeOK, do_div, B # 0, ir.d \notin {0, 15}
  PROVE  A = B * regs'[ir.d] + regs'[15] /\ regs'[15] < B
<1>1. ir \in Inst /\ ir.d \in Reg /\ regs \in [Reg -> Word]
  BY DEF TypeOK, Inst
<1>2. A \in Word /\ B \in Word
  BY <1>1 DEF A, B, Inst
<1>3. regs' = op_div(regs, A, B, ir.d)
  BY DEF do_div, RRR, Body
<1>4. regs'[ir.d] = A \div B /\ regs'[15] = A % B
  BY <1>1, <1>3 DEF op_div, SAFE_UPDATE, Reg
<1> QED BY <1>2, <1>4, DivWord

(***************************************************************************)
(* Quotient and remainder belong together, for all operands and also when  *)
(* the quotient overwrites one of them (op_div, vm.c:111-127).             *)
(***************************************************************************)
THEOREM DivisionIsExact == Spec => DivisionIdentity
<1>1. TypeOK /\ [Next]_vmVars =>
        [/\ phase = "execute" /\ label = "do_div"
         /\ B # 0 /\ ir.d \notin {0, 15}
         => A = B * regs'[ir.d] + regs'[15] /\ regs'[15] < B]_vmVars
  BY AtDiv, DivisionStep
<1> QED BY <1>1, TypeCorrect, PTL DEF Spec, DivisionIdentity

-----------------------------------------------------------------------------
(***************************************************************************)
(* The comparison and the jumps.                                           *)
(***************************************************************************)
(* The bit of R15 that the jump of alias tests, and its value to branch. *)
TestedBit(alias) == Asm!implicit_dest[alias][2]
Wanted(alias) == IF Asm!implicit_dest[alias][1] = 4 THEN 0 ELSE 1

LEMMA AliasFields ==
  ASSUME NEW alias \in Aliases
  PROVE  /\ Asm!implicit_dest[alias][1] \in {4, 5}
         /\ TestedBit(alias) \in {1, 2, 3}
         /\ \A other \in Aliases :
              /\ Asm!implicit_dest[other][1] = Asm!implicit_dest[alias][1]
              /\ TestedBit(other) = TestedBit(alias)
              => other = alias
<1>1. Aliases = {"JUMPLE", "JUMPLT", "JUMPNE", "JUMPEQ", "JUMPGE", "JUMPGT"}
  BY DEF Aliases, Asm!implicit_dest
<1> QED BY <1>1 DEF Asm!implicit_dest, TestedBit

LEMMA FlagsDecide ==
  ASSUME NEW x \in Word, NEW y \in Word, NEW alias \in Aliases
  PROVE  select_bit(Status(CmpFlags(x, y)), TestedBit(alias)) = Wanted(alias)
           <=> Relation(alias, Int16(x), Int16(y))
<1>1. PICK a, b, w : a = Int16(x) /\ b = Int16(y) /\ w = Status(CmpFlags(x, y))
  OBVIOUS
<1>2. a \in Int /\ b \in Int /\ (a = b <=> x = y)
  BY <1>1, Int16Injective
<1>3. /\ select_bit(w, 1) = IF a > b THEN 1 ELSE 0
      /\ select_bit(w, 2) = IF a = b THEN 1 ELSE 0
      /\ select_bit(w, 3) = IF a < b THEN 1 ELSE 0
  BY <1>1, <1>2, SelectCmpFlags
<1>4. Aliases = {"JUMPLE", "JUMPLT", "JUMPNE", "JUMPEQ", "JUMPGE", "JUMPGT"}
  BY DEF Aliases, Asm!implicit_dest
<1>5. /\ TestedBit("JUMPLE") = 1 /\ Wanted("JUMPLE") = 0
      /\ TestedBit("JUMPLT") = 3 /\ Wanted("JUMPLT") = 1
      /\ TestedBit("JUMPNE") = 2 /\ Wanted("JUMPNE") = 0
      /\ TestedBit("JUMPEQ") = 2 /\ Wanted("JUMPEQ") = 1
      /\ TestedBit("JUMPGE") = 3 /\ Wanted("JUMPGE") = 0
      /\ TestedBit("JUMPGT") = 1 /\ Wanted("JUMPGT") = 1
  BY DEF TestedBit, Wanted, Asm!implicit_dest
<1>6. select_bit(w, TestedBit(alias)) = Wanted(alias) <=> Relation(alias, a, b)
  <2>1. /\ Relation("JUMPLE", a, b) <=> a <= b
        /\ Relation("JUMPLT", a, b) <=> a < b
        /\ Relation("JUMPNE", a, b) <=> a # b
        /\ Relation("JUMPEQ", a, b) <=> a = b
        /\ Relation("JUMPGE", a, b) <=> a >= b
        /\ Relation("JUMPGT", a, b) <=> a > b
    BY DEF Relation
  <2> QED BY <1>2, <1>3, <1>4, <1>5, <2>1
<1> QED BY <1>1, <1>6, Zenon

(* Only do_cmp executes at its label. *)
LEMMA AtCmp ==
  ASSUME [Next]_vmVars, phase = "execute", label = "do_cmp"
  PROVE  do_cmp \/ UNCHANGED vmVars
BY DEF Next, sigma16_vm_exec, sigma16_trace, Ended, Dispatching, DispatchRRR,
       DispatchNop, do_decode_rx, do_decode_exp, HandlerReturn,
       trace_rrr_faults, Segfault,
       DataAddrs, Final,
       ExecRRR, do_rfi, ExecRX, do_add, do_sub, do_mul, do_div,
       do_cmplt, do_cmpeq, do_cmpgt, do_invold, do_andold, do_orold, do_xorold,
       do_nop, do_trap_halt, do_trap_write, do_trap_other, do_lea, do_load,
       do_store, do_jump, do_jumpc0, do_jumpc1, do_jumpf, do_jumpt, do_jal,
       RRR, Body, Jump, At

LEMMA CompareStep ==
  ASSUME TypeOK, do_cmp,
         ir.sa # 15, ir.sb # 15
  PROVE  \A alias \in Aliases :
           Branches(alias)' <=> Relation(alias, Int16(A), Int16(B))
<1>1. RxDispatch(4) = "do_jumpc0" /\ RxDispatch(5) = "do_jumpc1"
  BY DEF RxDispatch, rx_dispatch_table
<1>2. /\ A \in Word /\ B \in Word
      /\ CLEARFLAGS(regs)[ir.sa] = A /\ CLEARFLAGS(regs)[ir.sb] = B
      /\ 15 \in DOMAIN CLEARFLAGS(regs)
  BY DEF TypeOK, Inst, CLEARFLAGS, A, B, Reg
<1>3. regs'[15] = Status(CmpFlags(A, B))
  BY <1>2 DEF do_cmp, RRR, Body
<1>4. ASSUME NEW alias \in Aliases
      PROVE  Branches(alias)'
               <=> select_bit(regs'[15], TestedBit(alias)) = Wanted(alias)
  <2>1. \A v, k : ISA!select_bit(v, k) = select_bit(v, k)
    BY DEF ISA!select_bit, select_bit
  <2> QED BY <1>1, <2>1, AliasFields DEF Branches, ISA!Taken, TestedBit, Wanted
<1> QED BY <1>2, <1>3, <1>4, FlagsDecide

(***************************************************************************)
(* The flags, the bit-fields, the bit numbers, the jump table and the      *)
(* aliases agree: a cmp followed by a conditional jump branches on the     *)
(* relation of the signed operands, whatever they are.                     *)
(***************************************************************************)
THEOREM CompareDecidesJump == Spec => CompareDecidesBranch
<1>1. TypeOK /\ [Next]_vmVars
        => [phase = "execute" /\ label = "do_cmp" /\ ir.sa # 15 /\ ir.sb # 15
              => \A alias \in Aliases :
                   Branches(alias)' <=> Relation(alias, Int16(A), Int16(B))]_vmVars
  BY AtCmp, CompareStep
<1> QED BY <1>1, TypeCorrect, PTL DEF Spec, CompareDecidesBranch

-----------------------------------------------------------------------------
(***************************************************************************)
(* The interpreter implements the machine of Sigma16ISA: every step of     *)
(* sigma16_vm_exec, from any state that the invariants above allow, is one *)
(* step of the machine or none.                                            *)
(***************************************************************************)

(***************************************************************************)
(* The abstract machine computes with the operators of its own instance of *)
(* Sigma16Store.  They are the same operators.                             *)
(***************************************************************************)
LEMMA SameWords ==
  /\ \A n : ISA!U16(n) = U16(n)
  /\ \A w : ISA!bswap_16(w) = bswap_16(w)
  /\ \A p : ISA!Truth(p) = Truth(p)
  /\ \A v, k : ISA!select_bit(v, k) = select_bit(v, k)
  /\ \A F : ISA!Status(F) = Status(F)
  /\ \A a : ISA!Inv16(a) = Inv16(a)
  /\ \A d : ISA!AddFlags(d) = AddFlags(d)
<1>1. /\ \A n : ISA!U16(n) = U16(n)
      /\ \A w : ISA!bswap_16(w) = bswap_16(w)
      /\ \A p : ISA!Truth(p) = Truth(p)
      /\ \A d : ISA!AddFlags(d) = AddFlags(d)
  BY DEF ISA!U16, U16, ISA!bswap_16, bswap_16, ISA!Truth, Truth,
         ISA!AddFlags, AddFlags
<1>2. \A v, k : ISA!select_bit(v, k) = select_bit(v, k)
  BY DEF ISA!select_bit, select_bit
<1>3. \A F : ISA!Status(F) = Status(F)
  BY DEF ISA!Status, Status, ISA!FromBits, FromBits, ISA!FlagBit, FlagBit
<1>4. \A a : ISA!Inv16(a) = Inv16(a)
  BY DEF ISA!Inv16, Inv16, ISA!MaxWord, MaxWord
<1> QED BY <1>1, <1>2, <1>3, <1>4

LEMMA SameBinary ==
  /\ \A a, b : ISA!Mul16(a, b) = Mul16(a, b)
  /\ \A a, b : ISA!And16(a, b) = And16(a, b)
  /\ \A a, b : ISA!Or16(a, b) = Or16(a, b)
  /\ \A a, b : ISA!Xor16(a, b) = Xor16(a, b)
  /\ \A a, b : ISA!CmpFlags(a, b) = CmpFlags(a, b)
<1>1. \A a, b : ISA!Mul16(a, b) = Mul16(a, b)
  BY DEF ISA!Mul16, Mul16, ISA!U16, U16
<1>2. \A a, b : ISA!And16(a, b) = And16(a, b)
  BY DEF ISA!And16, And16, ISA!FromBits, FromBits, ISA!Bits, Bits
<1>3. \A a, b : ISA!Or16(a, b) = Or16(a, b)
  BY DEF ISA!Or16, Or16, ISA!FromBits, FromBits, ISA!Bits, Bits
<1>4. \A a, b : ISA!Xor16(a, b) = Xor16(a, b)
  BY DEF ISA!Xor16, Xor16, ISA!FromBits, FromBits, ISA!Bits, Bits
<1>5. \A a, b : ISA!CmpFlags(a, b) = CmpFlags(a, b)
  BY DEF ISA!CmpFlags, CmpFlags, ISA!Int16, Int16
<1> QED BY <1>1, <1>2, <1>3, <1>4, <1>5

LEMMA SameMemory ==
  /\ ISA!Address = Address
  /\ \A m, a : ISA!Peek(m, a) = Peek(m, a)
  /\ \A m, a, w : ISA!Poke(m, a, w) = Poke(m, a, w)
  /\ \A r, i : ISA!EAddr(r, i) = EAddr(r, i)
  /\ ISA!Loaded = Loaded
<1>1. ISA!Address = Address
  BY DEF ISA!Address, Address
<1>2. \A m, a : ISA!Peek(m, a) = Peek(m, a)
  BY <1>1 DEF ISA!Peek, Peek
<1>3. \A m, a, w : ISA!Poke(m, a, w) = Poke(m, a, w)
  BY <1>1 DEF ISA!Poke, Poke
<1>4. \A r, i : ISA!EAddr(r, i) = EAddr(r, i)
  BY DEF ISA!EAddr, EAddr, ISA!U16, U16
<1>5. ISA!Loaded = Loaded
  BY DEF ISA!Loaded, Loaded, ISA!Load, Load, ISA!Address, Address,
         ISA!bswap_16, bswap_16
<1> QED BY <1>1, <1>2, <1>3, <1>4, <1>5

LEMMA SameOutput ==
  /\ \A r, i : ISA!TrapAddrs(r, i) = TrapAddrs(r, i)
  /\ \A r, i : ISA!Survives(r, i) <=> Survives(r, i)
  /\ \A r, i : ISA!FarReads(r, i) = FarReads(r, i)
  /\ \A m, r, i, far : ISA!TrapBytes(m, r, i, far) = TrapBytes(m, r, i, far)
  /\ \A out, bytes : ISA!Put(out, bytes) = Put(out, bytes)
<1>1. \A r, i : ISA!TrapAddrs(r, i) = TrapAddrs(r, i)
  BY DEF ISA!TrapAddrs, TrapAddrs, ISA!TrapAddr, TrapAddr, ISA!U16, U16
<1>2. \A r, i : ISA!Survives(r, i) <=> Survives(r, i)
  BY <1>1, SameMemory DEF ISA!Survives, Survives
<1>3. \A r, i : ISA!FarReads(r, i) = FarReads(r, i)
  BY SameMemory DEF ISA!FarReads, FarReads, ISA!Shown, Shown, ISA!TrapAddr,
     TrapAddr, ISA!U16, U16
<1>4. \A m, r, i, far : ISA!TrapBytes(m, r, i, far) = TrapBytes(m, r, i, far)
  BY SameMemory DEF ISA!TrapBytes, TrapBytes, ISA!TrapByte, TrapByte,
     ISA!Shown, Shown, ISA!TrapAddr, TrapAddr, ISA!U16, U16, ISA!bswap_16,
     bswap_16
<1>5. \A out, bytes : ISA!Put(out, bytes) = Put(out, bytes)
  BY DEF ISA!Put, Put
<1> QED BY <1>1, <1>2, <1>3, <1>4, <1>5

LEMMA SameFetch ==
  /\ \A m, a : ISA!Fetched(m, a) = Fetched(m, a)
  /\ \A a, w : ISA!OperandAddrs(a, w) = OperandAddrs(a, w)
  /\ \A lab, r, i : ISA!DataAddrs(lab, r, i) = DataAddrs(lab, r, i)
<1>1. \A m, a : ISA!Fetched(m, a) = Fetched(m, a)
  BY DEF ISA!Fetched, Fetched, ISA!Dispatch, Dispatch, ISA!dispatch_table,
     dispatch_table, ISA!RRRLabels, RRRLabels, ISA!RxDispatch, RxDispatch,
     ISA!rx_dispatch_table, rx_dispatch_table, ISA!InterpRRR, InterpRRR,
     ISA!InterpRX, InterpRX, ISA!InterpEXP0, InterpEXP0, ISA!bswap_16,
     bswap_16, ISA!Op, Op, ISA!D, D, ISA!Sa, Sa, ISA!Sb, Sb, ISA!Peek, Peek,
     ISA!Address, Address
<1>2. \A a, w : ISA!OperandAddrs(a, w) = OperandAddrs(a, w)
  BY DEF ISA!OperandAddrs, OperandAddrs, ISA!Dispatch, Dispatch,
     ISA!dispatch_table, dispatch_table, ISA!Op, Op
<1>3. \A lab, r, i : ISA!DataAddrs(lab, r, i) = DataAddrs(lab, r, i)
  BY SameMemory, SameOutput DEF ISA!DataAddrs, DataAddrs
<1> QED BY <1>1, <1>2, <1>3

-----------------------------------------------------------------------------
(* Where control is, as far as the abstract status depends on it. *)
ControlInv ==
  /\ phase = "handler" => label \in InstLabels \cup {"exec_start", "end_hotloop"}
  /\ phase = "execute" => label \in InstLabels
  /\ phase = "dispatch" => label \in InstLabels \cup {"exec_start"}

LEMMA ControlStep ==
  ASSUME TypeOK, ControlInv, sigma16_vm_exec
  PROVE  ControlInv'
<1>1. CASE do_decode_rx
  <2>1. PICK w \in Peek(mem, pc) :
          IF RxDispatch(Sb(w)) = "do_bad_op"
            THEN phase' = "error" /\ label' = "do_bad_op"
            ELSE CallHandler(RxDispatch(Sb(w)))
    BY <1>1 DEF do_decode_rx
  <2>2. mem \in Memory
    BY DEF TypeOK
  <2>3. w \in Word
    BY <2>2, PeekWord
  <2>4. Sb(w) \in Reg
    BY <2>3, WordDef DEF Sb, Reg
  <2> QED BY <2>1, <2>4, RxDispatchLabel DEF CallHandler, ControlInv, InstLabels
<1>2. CASE DispatchRRR \/ DispatchNop \/ do_decode_exp
  BY <1>2 DEF DispatchRRR, DispatchNop, do_decode_exp, CallHandler, ControlInv,
              InstLabels, RRRLabels
<1>3. CASE ExecRRR \/ do_rfi \/ ExecRX
  BY <1>3 DEF ControlInv, ExecRRR, do_rfi, ExecRX, do_add, do_sub, do_mul,
       do_div, do_cmp, do_cmplt, do_cmpeq, do_cmpgt, do_invold, do_andold,
       do_orold, do_xorold, do_nop, do_trap_halt, do_trap_write, do_trap_other,
       do_lea, do_load, do_store, do_jump, do_jumpc0, do_jumpc1, do_jumpf,
       do_jumpt, do_jal, RRR, Body, Jump, At, DISPATCH, CallHandler
<1>4. CASE Segfault
  BY <1>4 DEF Segfault, ControlInv
<1> QED BY <1>1, <1>2, <1>3, <1>4 DEF sigma16_vm_exec, Dispatching

LEMMA ControlReturn ==
  ASSUME ControlInv, sigma16_trace
  PROVE  ControlInv'
BY DEF sigma16_trace, HandlerReturn, trace_rrr_faults, ControlInv

LEMMA ControlInvariant == Spec => []ControlInv
<1>1. Init => ControlInv
  BY DEF Init, ControlInv
<1>2. DataInv(0) /\ ControlInv /\ [Next]_vmVars => ControlInv'
  <2> SUFFICES ASSUME DataInv(0), ControlInv, [Next]_vmVars
               PROVE  ControlInv'
    OBVIOUS
  <2>1. CASE sigma16_vm_exec
    BY <2>1, ControlStep DEF DataInv
  <2>2. CASE sigma16_trace
    BY <2>2, ControlReturn
  <2>3. CASE UNCHANGED vmVars
    BY <2>3 DEF vmVars, ControlInv
  <2> QED BY <2>1, <2>2, <2>3 DEF Next, Ended
<1> QED BY <1>1, <1>2, DataInvariant, PTL DEF Spec

-----------------------------------------------------------------------------
(* A step of the interpreter starts at DISPATCH or after a handler call. *)
InterpretDispatch ==
  /\ phase = "dispatch" /\ pc' = pc
  /\ \/ phase' = "handler" /\ label' \in InstLabels
     \/ phase' = "error" /\ label' = "do_bad_op"
     \/ phase' = "crashed"

InterpretBody ==
  /\ phase = "execute"
  /\ \/ phase' = "dispatch"
     \/ phase' = "handler" /\ label' = "end_hotloop"
     \/ phase' = "crashed"

LEMMA InterpreterStep ==
  ASSUME TypeOK, sigma16_vm_exec
  PROVE  InterpretDispatch \/ InterpretBody
<1>1. mem \in Memory
  BY DEF TypeOK
<1>2. CASE DispatchRRR \/ DispatchNop
  BY <1>2 DEF DispatchRRR, DispatchNop, CallHandler, InterpretDispatch,
              InstLabels, RRRLabels
<1>3. CASE do_decode_exp
  BY <1>3 DEF do_decode_exp, CallHandler, InterpretDispatch, InstLabels
<1>4. CASE do_decode_rx
  <2>1. PICK w \in Peek(mem, pc) :
          IF RxDispatch(Sb(w)) = "do_bad_op"
            THEN phase' = "error" /\ label' = "do_bad_op"
            ELSE CallHandler(RxDispatch(Sb(w)))
    BY <1>4 DEF do_decode_rx
  <2>2. w \in Word
    BY <1>1, PeekWord
  <2>3. Sb(w) \in Reg
    BY <2>2, WordDef DEF Sb, Reg
  <2> QED BY <1>4, <2>1, <2>3, RxDispatchLabel
          DEF do_decode_rx, CallHandler, InterpretDispatch, InstLabels
<1>5. CASE ExecRRR \/ do_rfi \/ ExecRX
  BY <1>5 DEF ExecRRR, do_rfi, ExecRX, do_add, do_sub, do_mul, do_div, do_cmp,
       do_cmplt, do_cmpeq, do_cmpgt, do_invold, do_andold, do_orold, do_xorold,
       do_nop, do_trap_halt, do_trap_write, do_trap_other, do_lea, do_load,
       do_store, do_jump, do_jumpc0, do_jumpc1, do_jumpf, do_jumpt, do_jal,
       RRR, Body, Jump, At, DISPATCH, CallHandler, InterpretBody
<1>6. CASE Segfault
  BY <1>6 DEF Segfault, InterpretDispatch, InterpretBody
<1> QED BY <1>2, <1>3, <1>4, <1>5, <1>6 DEF sigma16_vm_exec, Dispatching

-----------------------------------------------------------------------------
(***************************************************************************)
(* The body of an instruction.  f is the instruction as memory holds it,   *)
(* which the abstract machine executes; the body reads its fields from ir. *)
(***************************************************************************)
Executing(f) ==
  /\ phase = "execute" /\ label \in InstLabels
  /\ f.label = label
  /\ label # "do_nop" => f.i.d = ir.d /\ f.i.sa = ir.sa /\ f.i.sb = ir.sb
  /\ label \in RXLabels \cup {"do_rfi"} => f.i.disp = ir.disp

LEMMA FetchedExecuting ==
  ASSUME ControlInv, DecodeCoherent, phase = "execute"
  PROVE  \E f \in ISA!Fetched(mem, pc) : Executing(f)
BY SameFetch DEF ControlInv, DecodeCoherent, IrMatches, Executing

LEMMA Running ==
  ASSUME ControlInv, phase \in {"dispatch", "execute"}
  PROVE  /\ isaStatus = "running"
         /\ label' = label /\ phase' = "dispatch" => isaStatus' = "running"
         /\ label' = label /\ phase' = "crashed" => isaStatus' = "crashed"
BY DEF ControlInv, isaStatus, InstLabels, RRRLabels, RXLabels

(* A body that ends at DISPATCH after a one-word RRR instruction. *)
LEMMA RRRIsStep ==
  ASSUME ControlInv, NEW lab, NEW r, RRR(lab, r)
  PROVE  label = lab /\ regs' = r /\ ISA!Step(1)
<1>1. label' = label /\ phase' = "dispatch" /\ phase = "execute"
  BY DEF RRR, Body, DISPATCH, At
<1>2. isaStatus' = isaStatus
  BY <1>1, Running
<1> QED BY <1>2, SameWords DEF RRR, Body, At, ISA!Step

(* The results of the abstract machine, label by label. *)
LEMMA ResultOf ==
  ASSUME NEW a, NEW b
  PROVE  /\ ISA!Result("do_add", a, b) = U16(a + b)
         /\ ISA!Result("do_sub", a, b) = U16(a - b)
         /\ ISA!Result("do_mul", a, b) = Mul16(a, b)
         /\ ISA!Result("do_cmplt", a, b) = Truth(a < b)
         /\ ISA!Result("do_cmpeq", a, b) = Truth(a = b)
         /\ ISA!Result("do_cmpgt", a, b) = Truth(a > b)
         /\ ISA!Result("do_invold", a, b) = Inv16(a)
         /\ ISA!Result("do_andold", a, b) = And16(a, b)
         /\ ISA!Result("do_orold", a, b) = Or16(a, b)
         /\ ISA!Result("do_xorold", a, b) = Xor16(a, b)
<1>1. /\ ISA!Result("do_add", a, b) = ISA!U16(a + b)
      /\ ISA!Result("do_sub", a, b) = ISA!U16(a - b)
      /\ ISA!Result("do_mul", a, b) = ISA!Mul16(a, b)
      /\ ISA!Result("do_cmplt", a, b) = ISA!Truth(a < b)
      /\ ISA!Result("do_cmpeq", a, b) = ISA!Truth(a = b)
      /\ ISA!Result("do_cmpgt", a, b) = ISA!Truth(a > b)
      /\ ISA!Result("do_invold", a, b) = ISA!Inv16(a)
      /\ ISA!Result("do_andold", a, b) = ISA!And16(a, b)
      /\ ISA!Result("do_orold", a, b) = ISA!Or16(a, b)
      /\ ISA!Result("do_xorold", a, b) = ISA!Xor16(a, b)
  BY ZenonT(60) DEF ISA!Result
<1> QED BY <1>1, SameWords, SameBinary

LEMMA ComputeImplements ==
  ASSUME ControlInv, NEW f, Executing(f),
         \/ do_add \/ do_sub \/ do_mul \/ do_cmplt \/ do_cmpeq \/ do_cmpgt
         \/ do_invold \/ do_andold \/ do_orold \/ do_xorold
  PROVE  ISA!Compute(f.label, f.i)
<1> DEFINE r(v) == ISA!Assign(f.i.d, v)
           a == regs[f.i.sa]
           b == regs[f.i.sb]
<1>1. ASSUME label # "do_nop"
      PROVE  /\ f.i.d = ir.d /\ a = A /\ b = B
             /\ \A v : r(v) = APPLY_OP_RRR(v)
  BY <1>1 DEF Executing, A, B, ISA!Assign, APPLY_OP_RRR, SAFE_UPDATE
<1>2. f.label = label
  BY DEF Executing
<1>3. ISA!Compute(f.label, f.i) <=>
        /\ LET q == r(ISA!Result(f.label, a, b))
           IN  \/ f.label \in ISA!KeepsR15 /\ regs' = q
               \/ f.label \in ISA!ClearsR15 /\ regs' = [q EXCEPT ![15] = 0]
               \/ f.label = "do_add"
                  /\ regs' = [q EXCEPT ![15] = ISA!Status(ISA!AddFlags(f.i.d))]
        /\ ISA!Step(1)
  BY DEF ISA!Compute
<1> HIDE DEF r, a, b
<1>4. CASE do_add
  <2>1. label = "do_add" /\ ISA!Step(1) /\
        regs' = [APPLY_OP_RRR(U16(A + B)) EXCEPT ![15] = Status(AddFlags(ir.d))]
    BY <1>4, RRRIsStep DEF do_add
  <2> QED BY <1>1, <1>2, <1>3, <2>1, ResultOf, SameWords
<1>5. ASSUME NEW lab, NEW v, lab \in ISA!KeepsR15, ISA!Result(lab, A, B) = v,
             RRR(lab, APPLY_OP_RRR(v))
      PROVE  ISA!Compute(f.label, f.i)
  <2>1. label = lab /\ ISA!Step(1) /\ regs' = APPLY_OP_RRR(v)
    BY <1>5, RRRIsStep
  <2>2. lab # "do_nop"
    BY <1>5 DEF ISA!KeepsR15
  <2> QED BY <1>1, <1>2, <1>3, <1>5, <2>1, <2>2
<1>6. ASSUME NEW lab, NEW v, lab \in ISA!ClearsR15, ISA!Result(lab, A, B) = v,
             RRR(lab, CLEARFLAGS(APPLY_OP_RRR(v)))
      PROVE  ISA!Compute(f.label, f.i)
  <2>1. label = lab /\ ISA!Step(1) /\ regs' = [APPLY_OP_RRR(v) EXCEPT ![15] = 0]
    BY <1>6, RRRIsStep DEF CLEARFLAGS
  <2>2. lab # "do_nop"
    BY <1>6 DEF ISA!ClearsR15
  <2> QED BY <1>1, <1>2, <1>3, <1>6, <2>1, <2>2
<1>7. CASE do_sub \/ do_mul
  BY <1>5, <1>7, ResultOf DEF do_sub, do_mul, ISA!KeepsR15
<1>8. CASE \/ do_cmplt \/ do_cmpeq \/ do_cmpgt
           \/ do_invold \/ do_andold \/ do_orold \/ do_xorold
  BY <1>6, <1>8, ResultOf
     DEF do_cmplt, do_cmpeq, do_cmpgt, do_invold, do_andold, do_orold, do_xorold,
         ISA!ClearsR15
<1> QED BY <1>4, <1>7, <1>8

LEMMA RRRImplements ==
  ASSUME ControlInv, NEW f, Executing(f), ExecRRR
  PROVE  ISA!Execute(f.label, f.i)
<1>1. f.label = label
  BY DEF Executing
<1>2. ASSUME label # "do_nop"
      PROVE  f.i.d = ir.d /\ f.i.sa = ir.sa /\ f.i.sb = ir.sb
  BY <1>2 DEF Executing
<1>3. CASE \/ do_add \/ do_sub \/ do_mul \/ do_cmplt \/ do_cmpeq \/ do_cmpgt
           \/ do_invold \/ do_andold \/ do_orold \/ do_xorold
  BY <1>3, ComputeImplements DEF ISA!Execute
<1>4. CASE do_div
  <2>1. label = "do_div" /\ ISA!Step(1) /\ regs' = op_div(regs, A, B, ir.d)
    BY <1>4, RRRIsStep DEF do_div
  <2>2. ISA!Divide(f.label, f.i)
    BY <1>1, <1>2, <2>1 DEF ISA!Divide, ISA!Assign, op_div, SAFE_UPDATE, A, B
  <2> QED BY <2>2 DEF ISA!Execute
<1>5. CASE do_cmp
  <2> DEFINE r == [regs EXCEPT ![15] = 0]
  <2>1. label = "do_cmp" /\ ISA!Step(1)
        /\ regs' = [r EXCEPT ![15] = Status(CmpFlags(r[ir.sa], r[ir.sb]))]
    BY <1>5, RRRIsStep DEF do_cmp, CLEARFLAGS
  <2>2. ISA!Compare(f.label, f.i)
    BY <1>1, <1>2, <2>1, SameWords, SameBinary DEF ISA!Compare
  <2> QED BY <2>2 DEF ISA!Execute
<1>6. CASE do_nop
  <2>1. label = "do_nop" /\ ISA!Step(1) /\ regs' = [regs EXCEPT ![15] = 0]
    BY <1>6, RRRIsStep DEF do_nop, CLEARFLAGS
  <2> QED BY <1>1, <2>1 DEF ISA!NoOperation, ISA!Execute
<1>7. CASE do_trap_other
  <2>1. label = "do_trap" /\ ISA!Step(1) /\ regs' = [regs EXCEPT ![15] = 0]
    BY <1>7, RRRIsStep DEF do_trap_other, CLEARFLAGS
  <2> QED BY <1>1, <1>2, <1>7, <2>1 DEF do_trap_other, ISA!NoOperation, ISA!Execute
<1>8. CASE do_trap_halt
  <2>1. isaStatus' = "halted"
    BY <1>8 DEF do_trap_halt, CallHandler, isaStatus
  <2>2. ISA!Halt(f.label, f.i)
    BY <1>1, <1>2, <1>8, <2>1 DEF do_trap_halt, At, ISA!Halt
  <2> QED BY <2>2 DEF ISA!Execute
<1>9. CASE do_trap_write
  <2>1. f.label = "do_trap" /\ regs[f.i.d] = 2
        /\ f.i.sa = ir.sa /\ f.i.sb = ir.sb
    BY <1>1, <1>2, <1>9 DEF do_trap_write, At
  <2>2. Survives(regs, f.i) /\ FarReads(regs, f.i) = FarReads(regs, ir)
    BY <1>9, <2>1
       DEF do_trap_write, Survives, FarReads, TrapAddrs, TrapAddr, Shown
  <2>3. \A far : TrapBytes(mem, regs, f.i, far) = TrapBytes(mem, regs, ir, far)
    BY <2>1 DEF TrapBytes, TrapAddr, Shown
  <2>4. \E far \in FarReads(regs, f.i) :
          stdout' = Put(stdout, TrapBytes(mem, regs, f.i, far))
    BY <1>9, <2>2, <2>3 DEF do_trap_write
  <2>5. /\ regs' = [regs EXCEPT ![15] = 0] /\ pc' = U16(pc + 1) /\ mem' = mem
        /\ isaStatus' = isaStatus
    BY <1>9, Running DEF do_trap_write, Body, At, DISPATCH, CLEARFLAGS
  <2>6. ISA!Write(f.label, f.i)
    BY <2>1, <2>2, <2>4, <2>5, SameWords, SameOutput DEF ISA!Write
  <2> QED BY <2>6 DEF ISA!Execute
<1> QED BY <1>3, <1>4, <1>5, <1>6, <1>7, <1>8, <1>9 DEF ExecRRR

LEMMA RXImplements ==
  ASSUME ControlInv, NEW f, Executing(f), ExecRX \/ do_rfi
  PROVE  ISA!Execute(f.label, f.i)
<1>1. f.label = label
  BY DEF Executing
<1>2. ASSUME label \in RXLabels \cup {"do_rfi"}
      PROVE  /\ f.i.d = ir.d /\ f.i.sa = ir.sa /\ f.i.disp = ir.disp
             /\ \A r : ISA!EAddr(r, f.i) = EAddr(r, ir)
             /\ \A v : ISA!Assign(f.i.d, v) = SAFE_UPDATE(regs, ir.d, v)
  <2>1. f.i.d = ir.d /\ f.i.sa = ir.sa /\ f.i.disp = ir.disp
    BY <1>2 DEF Executing, RXLabels
  <2>2. \A r : ISA!EAddr(r, f.i) = EAddr(r, ir)
    BY <2>1, SameMemory DEF EAddr
  <2> QED BY <2>1, <2>2 DEF ISA!Assign, SAFE_UPDATE
<1>3. ASSUME phase' = "dispatch", label' = label
      PROVE  isaStatus' = isaStatus
  BY <1>3, Running DEF Executing
<1>4. ASSUME NEW lab, NEW r, Body(lab, r, 2), UNCHANGED <<mem, stdout>>
      PROVE  label = lab /\ regs' = r /\ ISA!Step(2)
  BY <1>3, <1>4, SameWords DEF Body, At, DISPATCH, ISA!Step
<1>5. CASE do_rfi
  <2>1. label = "do_rfi" /\ regs' = regs /\ ISA!Step(2)
    BY <1>4, <1>5 DEF do_rfi
  <2> QED BY <1>1, <2>1 DEF ISA!ReturnFromInterrupt, ISA!Execute
<1>6. CASE do_lea
  <2>1. /\ label = "do_lea" /\ ISA!Step(2)
        /\ regs' = SAFE_UPDATE(regs, ir.d, EAddr(regs, ir))
    BY <1>4, <1>6 DEF do_lea, compute_rx_eaddr
  <2>2. ISA!LoadAddress(f.label, f.i)
    BY <1>1, <1>2, <2>1 DEF RXLabels, ISA!LoadAddress
  <2> QED BY <2>2 DEF ISA!Execute
<1>7. CASE do_load
  <2>1. CASE ir.d = 0
    <3>1. label = "do_load" /\ ISA!Step(2) /\ regs' = regs
      BY <1>4, <1>7, <2>1 DEF do_load
    <3>2. ISA!LoadWord(f.label, f.i)
      BY <1>1, <1>2, <2>1, <3>1 DEF RXLabels, ISA!LoadWord
    <3> QED BY <3>2 DEF ISA!Execute
  <2>2. CASE ir.d # 0
    <3>1. PICK w \in Peek(mem, EAddr(regs, ir)) :
            Body("do_load", SAFE_UPDATE(regs, ir.d, bswap_16(w)), 2)
      BY <1>7, <2>2 DEF do_load, compute_rx_eaddr
    <3>2. /\ label = "do_load" /\ ISA!Step(2)
          /\ regs' = SAFE_UPDATE(regs, ir.d, bswap_16(w))
      BY <1>4, <1>7, <3>1 DEF do_load
    <3>3. ISA!LoadWord(f.label, f.i)
      BY <1>1, <1>2, <2>2, <3>1, <3>2, SameWords, SameMemory
         DEF RXLabels, ISA!LoadWord
    <3> QED BY <3>3 DEF ISA!Execute
  <2> QED BY <2>1, <2>2
<1>8. CASE do_store
  <2>1. /\ label = "do_store" /\ regs' = regs /\ pc' = U16(pc + 2)
        /\ isaStatus' = isaStatus
    BY <1>3, <1>8 DEF do_store, Body, At, DISPATCH
  <2>2. ISA!StoreWord(f.label, f.i)
    BY <1>1, <1>2, <1>8, <2>1, SameWords, SameMemory
       DEF do_store, compute_rx_eaddr, RXLabels, ISA!StoreWord
  <2> QED BY <2>2 DEF ISA!Execute
<1>9. ASSUME NEW lab, NEW taken, Jump(lab, taken),
             lab \in {"do_jump", "do_jumpc0", "do_jumpc1", "do_jumpf", "do_jumpt"},
             f.label = lab => (ISA!Taken(f.label, f.i) <=> taken)
      PROVE  ISA!Execute(f.label, f.i)
  <2>1. label = lab /\ isaStatus' = isaStatus
    BY <1>3, <1>9 DEF Jump, At, DISPATCH
  <2>2. ISA!Branch(f.label, f.i)
    BY <1>1, <1>2, <1>9, <2>1, SameWords
       DEF Jump, compute_rx_eaddr, RXLabels, ISA!Branch
  <2> QED BY <2>2 DEF ISA!Execute
<1>10. CASE do_jump \/ do_jumpc0 \/ do_jumpc1 \/ do_jumpf \/ do_jumpt
  <2>1. /\ f.label = "do_jump" => ISA!Taken(f.label, f.i)
        /\ f.label = "do_jumpc0" =>
             (ISA!Taken(f.label, f.i) <=> select_bit(regs[15], ir.d) = 0)
        /\ f.label = "do_jumpc1" =>
             (ISA!Taken(f.label, f.i) <=> select_bit(regs[15], ir.d) = 1)
        /\ f.label = "do_jumpf" => (ISA!Taken(f.label, f.i) <=> regs[ir.d] = 0)
        /\ f.label = "do_jumpt" => (ISA!Taken(f.label, f.i) <=> regs[ir.d] # 0)
    BY <1>1, <1>2, SameWords DEF RXLabels, ISA!Taken
  <2> QED BY <1>9, <1>10, <2>1
          DEF do_jump, do_jumpc0, do_jumpc1, do_jumpf, do_jumpt
<1>11. CASE do_jal
  <2>1. label = "do_jal" /\ isaStatus' = isaStatus
    BY <1>3, <1>11 DEF do_jal, At, DISPATCH
  <2>2. ISA!Call(f.label, f.i)
    BY <1>1, <1>2, <1>11, <2>1, SameWords DEF do_jal, RXLabels, ISA!Call
  <2> QED BY <2>2 DEF ISA!Execute
<1> QED BY <1>5, <1>6, <1>7, <1>8, <1>10, <1>11 DEF ExecRX

-----------------------------------------------------------------------------
(* Decoding is invisible, except that an illegal RX code stops the machine. *)
LEMMA DispatchImplements ==
  ASSUME TypeOK, ControlInv, Dispatching
  PROVE  ISA!Next \/ UNCHANGED ISA!isaVars
<1>1. phase = "dispatch" /\ UNCHANGED <<regs, pc, mem, stdout>>
  BY DEF Dispatching, DispatchRRR, DispatchNop, do_decode_rx, do_decode_exp
<1>2. isaStatus = "running"
  BY <1>1, Running
<1>3. ASSUME phase' = "handler", label' \in InstLabels
      PROVE  UNCHANGED ISA!isaVars
  <2>1. isaStatus' = "running"
    BY <1>3 DEF isaStatus, InstLabels, RRRLabels, RXLabels
  <2> QED BY <1>1, <1>2, <2>1 DEF ISA!isaVars
<1>4. CASE DispatchRRR \/ DispatchNop \/ do_decode_exp
  <2>1. phase' = "handler" /\ label' \in InstLabels
    BY <1>4 DEF DispatchRRR, DispatchNop, do_decode_exp, CallHandler,
                InstLabels, RRRLabels
  <2> QED BY <1>3, <2>1
<1>5. CASE do_decode_rx
  <2>1. PICK w \in Peek(mem, pc), x \in Peek(mem, pc + 1) :
          /\ Dispatch(w) = "do_decode_rx"
          /\ IF RxDispatch(Sb(w)) = "do_bad_op"
               THEN phase' = "error" /\ label' = "do_bad_op"
               ELSE CallHandler(RxDispatch(Sb(w)))
    BY <1>5 DEF do_decode_rx
  <2>2. CASE RxDispatch(Sb(w)) = "do_bad_op"
    <3> DEFINE f == [label |-> RxDispatch(Sb(w)), i |-> InterpRX(w, x)]
    <3>1. f \in Fetched(mem, pc)
      <4>1. <<w, x>> \in {y \in Peek(mem, pc) : Dispatch(y) = "do_decode_rx"}
                        \X Peek(mem, pc + 1)
        BY <2>1
      <4>2. f = [label |-> RxDispatch(Sb(<<w, x>>[1])),
                 i |-> InterpRX(<<w, x>>[1], <<w, x>>[2])]
        OBVIOUS
      <4> QED BY <4>1, <4>2 DEF Fetched
    <3>2. isaStatus' = "error"
      BY <2>1, <2>2 DEF isaStatus
    <3>3. ISA!Illegal(f.label, f.i)
      BY <1>1, <2>2, <3>2 DEF ISA!Illegal
    <3>4. ISA!Execute(f.label, f.i)
      BY <3>3 DEF ISA!Execute
    <3>5. f \in ISA!Fetched(mem, pc)
      BY <3>1, SameFetch
    <3> HIDE DEF f
    <3> QED BY <1>2, <3>4, <3>5 DEF ISA!Next
  <2>3. CASE RxDispatch(Sb(w)) # "do_bad_op"
    <3>1. mem \in Memory
      BY DEF TypeOK
    <3>2. w \in Word
      BY <3>1, PeekWord
    <3>3. Sb(w) \in Reg
      BY <3>2, WordDef DEF Sb, Reg
    <3>4. phase' = "handler" /\ label' \in InstLabels
      BY <2>1, <2>3, <3>3, RxDispatchLabel DEF CallHandler, InstLabels
    <3> QED BY <1>3, <3>4
  <2> QED BY <2>2, <2>3
<1> QED BY <1>4, <1>5 DEF Dispatching

LEMMA SegfaultImplements ==
  ASSUME ControlInv, DecodeCoherent, Segfault
  PROVE  ISA!Next
<1>1. phase \in {"dispatch", "execute"} /\ phase' = "crashed" /\ label' = label
  BY DEF Segfault
<1>2. isaStatus = "running" /\ isaStatus' = "crashed"
  BY <1>1, Running
<1>3. CASE phase = "dispatch"
  <2>1. \/ pc \notin ISA!Address
        \/ \E w \in ISA!Peek(mem, pc) :
             ISA!OperandAddrs(pc, w) \ ISA!Address # {}
        \/ \E f \in ISA!Fetched(mem, pc) : f.label = "do_rfi" /\ f.i.disp # 0
    BY <1>3, SameMemory, SameFetch DEF Segfault
  <2> QED BY <1>2, <2>1 DEF Segfault, ISA!OutOfBounds, ISA!Crash, ISA!Next
<1>4. CASE phase = "execute"
  <2>1. PICK f \in ISA!Fetched(mem, pc) : Executing(f)
    BY <1>4, FetchedExecuting
  <2>2. DataAddrs(label, regs, ir) \ Address # {}
    BY <1>4 DEF Segfault
  <2>3. label \in {"do_load", "do_store", "do_trap"}
    BY <2>2 DEF DataAddrs
  <2>4. DataAddrs(f.label, regs, f.i) = DataAddrs(label, regs, ir)
    BY <2>1, <2>3
       DEF Executing, RXLabels, DataAddrs, EAddr, TrapAddrs, TrapAddr
  <2>5. ISA!DataAddrs(f.label, regs, f.i) \ ISA!Address # {}
    BY <2>2, <2>4, SameMemory, SameFetch
  <2> QED BY <1>2, <2>1, <2>5 DEF Segfault, ISA!OutOfBounds, ISA!Crash, ISA!Next
<1> QED BY <1>1, <1>3, <1>4

(* Every step of the interpreter is a step of the machine or none. *)
LEMMA StepImplements ==
  ASSUME TypeOK, ControlInv, DecodeCoherent, sigma16_vm_exec
  PROVE  ISA!Next \/ UNCHANGED ISA!isaVars
<1>1. CASE Dispatching
  BY <1>1, DispatchImplements
<1>2. CASE ExecRRR \/ do_rfi \/ ExecRX
  <2>1. phase = "execute"
    BY <1>2 DEF ExecRRR, do_rfi, ExecRX, do_add, do_sub, do_mul, do_div,
       do_cmp, do_cmplt, do_cmpeq, do_cmpgt, do_invold, do_andold, do_orold,
       do_xorold, do_nop, do_trap_halt, do_trap_write, do_trap_other, do_lea,
       do_load, do_store, do_jump, do_jumpc0, do_jumpc1, do_jumpf, do_jumpt,
       do_jal, RRR, Body, Jump, At
  <2>2. PICK f \in ISA!Fetched(mem, pc) : Executing(f)
    BY <2>1, FetchedExecuting
  <2>3. ISA!Execute(f.label, f.i)
    BY <1>2, <2>2, RRRImplements, RXImplements
  <2>4. isaStatus = "running"
    BY <2>1, Running
  <2> QED BY <2>2, <2>3, <2>4 DEF ISA!Next
<1>3. CASE Segfault
  BY <1>3, SegfaultImplements
<1> QED BY <1>1, <1>2, <1>3 DEF sigma16_vm_exec

LEMMA ReturnImplements ==
  ASSUME sigma16_trace
  PROVE  UNCHANGED ISA!isaVars
BY DEF sigma16_trace, HandlerReturn, trace_rrr_faults, isaStatus, ISA!isaVars

LEMMA InitImplements ==
  ASSUME Init
  PROVE  ISA!Init
<1>1. isaStatus = "running"
  BY DEF Init, isaStatus
<1> QED BY <1>1, SameMemory DEF Init, ISA!Init, ISA!Reg, Reg

LEMMA InterpreterRefines ==
  ASSUME DataInv(0), ControlInv, DecodeCoherent, [Next]_vmVars
  PROVE  ISA!Next \/ UNCHANGED ISA!isaVars
<1>1. CASE sigma16_vm_exec
  BY <1>1, StepImplements DEF DataInv
<1>2. CASE sigma16_trace
  BY <1>2, ReturnImplements
<1>3. CASE UNCHANGED vmVars
  BY <1>3 DEF vmVars, isaStatus, ISA!isaVars
<1> QED BY <1>1, <1>2, <1>3 DEF Next, Ended

(***************************************************************************)
(* The interpreter, with its persistent instruction register, its computed *)
(* gotos and its handler calls, implements the machine that executes the   *)
(* instruction in memory at once (vm.c, all of sigma16_vm_exec): for every *)
(* executable, every size of the mapping and every content past it.        *)
(***************************************************************************)
THEOREM InterpreterImplementsISA == Spec => ImplementsISA
<1>1. Init => ISA!Init
  BY InitImplements
<1>2. DataInv(0) /\ ControlInv /\ DecodeCoherent /\ [Next]_vmVars
        => [ISA!Next]_(ISA!isaVars)
  BY InterpreterRefines
<1> QED BY <1>1, <1>2, DataInvariant, ControlInvariant, DecodingIsCoherent, PTL
        DEF Spec, ImplementsISA, ISA!Spec

-----------------------------------------------------------------------------
(***************************************************************************)
(* A whole program that compares and jumps, followed instruction by        *)
(* instruction through the abstract machine.                               *)
(***************************************************************************)
(* Where the words of the program are. *)
Listing(img, alias, a, b) ==
  /\ img \in Seq(Word) /\ Len(img) = 13
  /\ img[1] = FieldsWord(15, 1, 0, 0) /\ img[2] = a
  /\ img[3] = FieldsWord(15, 2, 0, 0) /\ img[4] = b
  /\ img[5] = FieldsWord(4, 0, 1, 2)
  /\ img[6] = FieldsWord(15, TestedBit(alias), 0, Asm!implicit_dest[alias][1])
  /\ img[7] = 10
  /\ img[8] = FieldsWord(15, 3, 0, 0) /\ img[9] = 1
  /\ img[10] = FieldsWord(13, 0, 0, 0)
  /\ img[11] = FieldsWord(15, 3, 0, 0) /\ img[12] = 2
  /\ img[13] = FieldsWord(13, 0, 0, 0)

LEMMA ProgramListing ==
  ASSUME NEW alias \in Aliases, NEW a \in Word, NEW b \in Word
  PROVE  Listing(Program(alias, a, b), alias, a, b)
<1> DEFINE p == FieldsWord(15, 1, 0, 0)
           q == FieldsWord(15, 2, 0, 0)
           c == FieldsWord(4, 0, 1, 2)
           j == FieldsWord(15, TestedBit(alias), 0, Asm!implicit_dest[alias][1])
           r == FieldsWord(15, 3, 0, 0)
           t == FieldsWord(13, 0, 0, 0)
<1>1. Program(alias, a, b) = <<p, a, q, b, c, j, 10, r, 1, t, r, 2, t>>
  BY DEF Program, Asm!MOV, Asm!CMP, Asm!JX, Asm!RX, Asm!RRR, Asm!RRRWord,
         FieldsWord, TestedBit
<1>2. /\ p \in Word /\ q \in Word /\ c \in Word /\ j \in Word /\ r \in Word
      /\ t \in Word /\ 1 \in Word /\ 2 \in Word /\ 10 \in Word
  <2>1. /\ 0 \in Reg /\ 1 \in Reg /\ 2 \in Reg /\ 3 \in Reg /\ 4 \in Reg
        /\ 5 \in Reg /\ 13 \in Reg /\ 15 \in Reg
    BY DEF Reg
  <2>2. TestedBit(alias) \in Reg /\ Asm!implicit_dest[alias][1] \in Reg
    BY <2>1, AliasFields
  <2>3. 1 \in Word /\ 2 \in Word /\ 10 \in Word
    BY WordDef
  <2> QED BY <2>1, <2>2, <2>3, FourFields
<1> HIDE DEF p, q, c, j, r, t
<1>3. PICK img : img = <<p, a, q, b, c, j, 10, r, 1, t, r, 2, t>>
  OBVIOUS
<1>4. /\ img \in Seq(Word) /\ Len(img) = 13
      /\ img[1] = p /\ img[2] = a /\ img[3] = q /\ img[4] = b /\ img[5] = c
      /\ img[6] = j /\ img[7] = 10 /\ img[8] = r /\ img[9] = 1 /\ img[10] = t
      /\ img[11] = r /\ img[12] = 2 /\ img[13] = t
  BY <1>2, <1>3
<1>5. Program(alias, a, b) = img
  BY <1>1, <1>3
<1> QED BY <1>4, <1>5, Zenon DEF Listing, p, q, c, j, r, t

(* What the emulator fetches at its instructions. *)
FetchedIs(m, n, lab, op, d, sa, sb, disp) ==
  Fetched(m, n) =
    {[label |-> lab,
      i |-> [op |-> op, d |-> d, sa |-> sa, sb |-> sb, disp |-> disp]]}

LEMMA ProgramFetched ==
  ASSUME MemWords >= 13,
         NEW alias \in Aliases, NEW a \in Word, NEW b \in Word
  PROVE  LET m == Load(Program(alias, a, b))
             code == Asm!implicit_dest[alias][1]
         IN  /\ FetchedIs(m, 0, "do_lea", 15, 1, 0, 0, a)
             /\ FetchedIs(m, 2, "do_lea", 15, 2, 0, 0, b)
             /\ FetchedIs(m, 4, "do_cmp", 4, 0, 1, 2, 0)
             /\ FetchedIs(m, 5, RxDispatch(code), 15, TestedBit(alias), 0, code, 10)
             /\ FetchedIs(m, 7, "do_lea", 15, 3, 0, 0, 1)
             /\ FetchedIs(m, 9, "do_trap", 13, 0, 0, 0, 0)
             /\ FetchedIs(m, 10, "do_lea", 15, 3, 0, 0, 2)
             /\ FetchedIs(m, 12, "do_trap", 13, 0, 0, 0, 0)
<1> DEFINE img == Program(alias, a, b)
           code == Asm!implicit_dest[alias][1]
<1>1. Listing(img, alias, a, b)
  BY ProgramListing
<1>2. /\ 0 \in Reg /\ 1 \in Reg /\ 2 \in Reg /\ 3 \in Reg /\ 4 \in Reg
      /\ 13 \in Reg /\ TestedBit(alias) \in Reg /\ code \in Reg
  BY AliasFields DEF Reg
<1> HIDE DEF img, code
<1>3. img \in Seq(Word) /\ Len(img) <= MemWords
  BY <1>1 DEF Listing
<1>4. ASSUME NEW n \in Nat, n + 1 < Len(img), NEW d \in Reg, NEW sb \in Reg,
             img[n + 1] = FieldsWord(15, d, 0, sb)
      PROVE  FetchedIs(Load(img), n, RxDispatch(sb), 15, d, 0, sb, img[n + 2])
  BY <1>2, <1>3, <1>4, FileRX DEF FetchedIs
<1>5. ASSUME NEW n \in Nat, n < Len(img), NEW op \in Reg, op < 14,
             NEW d \in Reg, NEW sa \in Reg, NEW sb \in Reg,
             img[n + 1] = FieldsWord(op, d, sa, sb)
      PROVE  FetchedIs(Load(img), n, dispatch_table[op + 1], op, d, sa, sb, 0)
  BY <1>3, <1>5, FileRRR DEF FetchedIs
<1>6. /\ RxDispatch(0) = "do_lea" /\ dispatch_table[5] = "do_cmp"
      /\ dispatch_table[14] = "do_trap"
  BY DEF RxDispatch, rx_dispatch_table, dispatch_table
<1>7. /\ FetchedIs(Load(img), 0, "do_lea", 15, 1, 0, 0, a)
      /\ FetchedIs(Load(img), 2, "do_lea", 15, 2, 0, 0, b)
      /\ FetchedIs(Load(img), 7, "do_lea", 15, 3, 0, 0, 1)
      /\ FetchedIs(Load(img), 10, "do_lea", 15, 3, 0, 0, 2)
  BY <1>1, <1>2, <1>4, <1>6 DEF Listing
<1>8. FetchedIs(Load(img), 5, RxDispatch(code), 15, TestedBit(alias), 0, code, 10)
  BY <1>1, <1>2, <1>4 DEF Listing, code
<1>9. /\ FetchedIs(Load(img), 4, "do_cmp", 4, 0, 1, 2, 0)
      /\ FetchedIs(Load(img), 9, "do_trap", 13, 0, 0, 0, 0)
      /\ FetchedIs(Load(img), 12, "do_trap", 13, 0, 0, 0, 0)
  BY <1>1, <1>2, <1>5, <1>6 DEF Listing
<1> QED BY <1>7, <1>8, <1>9, Zenon DEF img, code

(* What the instructions of the program do. *)
LEMMA LeaExecuted ==
  ASSUME NEW i, ISA!Execute("do_lea", i)
  PROVE  /\ regs' = ISA!Assign(i.d, ISA!EAddr(regs, i))
         /\ pc' = ISA!U16(pc + 2) /\ UNCHANGED <<mem, isaStatus>>
BY Zenon DEF ISA!Execute, ISA!Compute, ISA!KeepsR15, ISA!ClearsR15, ISA!Divide,
       ISA!Compare, ISA!NoOperation, ISA!ReturnFromInterrupt, ISA!Halt,
       ISA!Write, ISA!LoadAddress, ISA!LoadWord, ISA!StoreWord, ISA!Branch,
       ISA!Call, ISA!Illegal, ISA!Step

LEMMA CmpExecuted ==
  ASSUME NEW i, ISA!Execute("do_cmp", i)
  PROVE  /\ LET r == [regs EXCEPT ![15] = 0]
            IN  regs' = [r EXCEPT ![15] =
                           ISA!Status(ISA!CmpFlags(r[i.sa], r[i.sb]))]
         /\ pc' = ISA!U16(pc + 1) /\ UNCHANGED <<mem, isaStatus>>
BY DEF ISA!Execute, ISA!Compute, ISA!KeepsR15, ISA!ClearsR15, ISA!Divide,
       ISA!Compare, ISA!NoOperation, ISA!ReturnFromInterrupt, ISA!Halt,
       ISA!Write, ISA!LoadAddress, ISA!LoadWord, ISA!StoreWord, ISA!Branch,
       ISA!Call, ISA!Illegal, ISA!Step

LEMMA JumpExecuted ==
  ASSUME NEW lab, lab \in {"do_jumpc0", "do_jumpc1"},
         NEW i, ISA!Execute(lab, i)
  PROVE  /\ pc' = IF ISA!select_bit(regs[15], i.d)
                       = (IF lab = "do_jumpc0" THEN 0 ELSE 1)
                    THEN ISA!EAddr(regs, i) ELSE ISA!U16(pc + 2)
         /\ UNCHANGED <<regs, mem, isaStatus>>
BY DEF ISA!Execute, ISA!Compute, ISA!KeepsR15, ISA!ClearsR15, ISA!Divide,
       ISA!Compare, ISA!NoOperation, ISA!ReturnFromInterrupt, ISA!Halt,
       ISA!Write, ISA!LoadAddress, ISA!LoadWord, ISA!StoreWord, ISA!Branch,
       ISA!Taken, ISA!Call, ISA!Illegal, ISA!Step

LEMMA HaltExecuted ==
  ASSUME NEW i, ISA!Execute("do_trap", i), regs[i.d] = 0
  PROVE  UNCHANGED <<regs, pc, mem>>
BY DEF ISA!Execute, ISA!Compute, ISA!KeepsR15, ISA!ClearsR15, ISA!Divide,
       ISA!Compare, ISA!NoOperation, ISA!ReturnFromInterrupt, ISA!Halt,
       ISA!Write, ISA!LoadAddress, ISA!LoadWord, ISA!StoreWord, ISA!Branch,
       ISA!Call, ISA!Illegal, ISA!Step

(***************************************************************************)
(* Where the program is, and what it knows of its two values there.  The   *)
(* invariant says it of the abstract machine; the control of the           *)
(* interpreter adds only that a normal return follows the halt.            *)
(***************************************************************************)
Holds(alias, a, b) == Relation(alias, Int16(a), Int16(b))

ComparedAt(alias, a, b) ==
  \/ pc = 0
  \/ pc = 2 /\ regs[1] = a
  \/ pc = 4 /\ regs[1] = a /\ regs[2] = b
  \/ pc = 5 /\ regs[15] = Status(CmpFlags(a, b))
  \/ pc = 7 /\ ~Holds(alias, a, b)
  \/ pc = 9 /\ ~Holds(alias, a, b) /\ regs[3] = 1
  \/ pc = 10 /\ Holds(alias, a, b)
  \/ pc = 12 /\ Holds(alias, a, b) /\ regs[3] = 2

RunsProgram(alias, a, b) ==
  /\ mem = Load(Program(alias, a, b))
  /\ ComparedAt(alias, a, b)
  /\ isaStatus = "halted" => pc \in {9, 12}

(* One instruction of the program, at any of its addresses. *)
LEMMA FetchedOne ==
  ASSUME NEW n, NEW lab, NEW op, NEW d, NEW sa, NEW sb, NEW disp,
         FetchedIs(mem, n, lab, op, d, sa, sb, disp),
         NEW f, f \in ISA!Fetched(mem, n)
  PROVE  f.label = lab /\ f.i.d = d /\ f.i.sa = sa /\ f.i.sb = sb
         /\ f.i.disp = disp
BY SameFetch DEF FetchedIs

LEMMA MovExecuted ==
  ASSUME regs \in RegFile(0), NEW d \in Reg, d # 0, NEW v \in Word,
         NEW i, i.d = d, i.sa = 0, i.disp = v, ISA!Execute("do_lea", i),
         NEW n, pc = n, n \in Word, n < 100
  PROVE  /\ regs' = [regs EXCEPT ![d] = v] /\ pc' = n + 2
         /\ UNCHANGED <<mem, isaStatus>>
<1>1. /\ regs' = ISA!Assign(i.d, ISA!EAddr(regs, i))
      /\ pc' = ISA!U16(pc + 2) /\ UNCHANGED <<mem, isaStatus>>
  BY LeaExecuted
<1>2. ISA!EAddr(regs, i) = v
  BY SameMemory, WordDef DEF EAddr, RegFile, U16
<1>3. ISA!U16(pc + 2) = n + 2
  BY SameWords, WordDef DEF U16
<1> QED BY <1>1, <1>2, <1>3 DEF ISA!Assign

LEMMA InstructionStep ==
  ASSUME MemWords >= 13, regs \in RegFile(0),
         NEW alias \in Aliases, NEW a \in Word, NEW b \in Word,
         RunsProgram(alias, a, b), isaStatus = "running",
         NEW f, f \in ISA!Fetched(mem, pc), ISA!Execute(f.label, f.i)
  PROVE  RunsProgram(alias, a, b)'
<1> DEFINE code == Asm!implicit_dest[alias][1]
<1>1. /\ mem = Load(Program(alias, a, b))
      /\ FetchedIs(mem, 0, "do_lea", 15, 1, 0, 0, a)
      /\ FetchedIs(mem, 2, "do_lea", 15, 2, 0, 0, b)
      /\ FetchedIs(mem, 4, "do_cmp", 4, 0, 1, 2, 0)
      /\ FetchedIs(mem, 5, RxDispatch(code), 15, TestedBit(alias), 0, code, 10)
      /\ FetchedIs(mem, 7, "do_lea", 15, 3, 0, 0, 1)
      /\ FetchedIs(mem, 9, "do_trap", 13, 0, 0, 0, 0)
      /\ FetchedIs(mem, 10, "do_lea", 15, 3, 0, 0, 2)
      /\ FetchedIs(mem, 12, "do_trap", 13, 0, 0, 0, 0)
  BY ProgramFetched DEF RunsProgram
<1> HIDE DEF code
<1>2. regs \in [Reg -> Word] /\ regs[0] = 0
  BY DEF RegFile
<1>3. ASSUME mem' = mem, isaStatus' = "running", ComparedAt(alias, a, b)'
      PROVE  RunsProgram(alias, a, b)'
  BY <1>1, <1>3 DEF RunsProgram
<1>4. ASSUME NEW n \in {0, 2, 7, 10}, pc = n, NEW d \in Reg, d # 0,
             NEW v \in Word, FetchedIs(mem, n, "do_lea", 15, d, 0, 0, v)
      PROVE  /\ regs' = [regs EXCEPT ![d] = v] /\ pc' = n + 2
             /\ mem' = mem /\ isaStatus' = "running"
  <2>1. f.label = "do_lea" /\ f.i.d = d /\ f.i.sa = 0 /\ f.i.disp = v
    BY <1>4, FetchedOne
  <2>2. n \in Word /\ n < 100
    BY <1>4, WordDef
  <2> QED BY <1>4, <2>1, <2>2, MovExecuted
<1>5. 1 \in Reg /\ 2 \in Reg /\ 3 \in Reg /\ 15 \in Reg /\ 1 \in Word /\ 2 \in Word
  BY WordDef DEF Reg
<1>6. CASE pc = 0
  <2>1. regs' = [regs EXCEPT ![1] = a] /\ pc' = 2
        /\ mem' = mem /\ isaStatus' = "running"
    BY <1>1, <1>4, <1>5, <1>6
  <2> QED BY <1>2, <1>3, <1>5, <2>1 DEF ComparedAt
<1>7. CASE pc = 2 /\ regs[1] = a
  <2>1. regs' = [regs EXCEPT ![2] = b] /\ pc' = 4
        /\ mem' = mem /\ isaStatus' = "running"
    BY <1>1, <1>4, <1>5, <1>7
  <2> QED BY <1>2, <1>3, <1>5, <1>7, <2>1 DEF ComparedAt
<1>8. CASE pc = 4 /\ regs[1] = a /\ regs[2] = b
  <2>1. f.label = "do_cmp" /\ f.i.sa = 1 /\ f.i.sb = 2
    BY <1>1, <1>8, FetchedOne
  <2> DEFINE r == [regs EXCEPT ![15] = 0]
  <2>2. /\ regs' = [r EXCEPT ![15] = ISA!Status(ISA!CmpFlags(r[1], r[2]))]
        /\ pc' = ISA!U16(pc + 1) /\ UNCHANGED <<mem, isaStatus>>
    BY <2>1, CmpExecuted
  <2>3. r[1] = a /\ r[2] = b /\ 15 \in DOMAIN r
    BY <1>2, <1>5, <1>8
  <2> HIDE DEF r
  <2>4. regs'[15] = Status(CmpFlags(a, b))
    BY <2>2, <2>3, SameWords, SameBinary
  <2>5. pc' = 5
    BY <1>8, <2>2, SameWords DEF U16
  <2> QED BY <1>3, <2>2, <2>4, <2>5 DEF ComparedAt
<1>9. CASE pc = 5 /\ regs[15] = Status(CmpFlags(a, b))
  <2>1. f.label = RxDispatch(code) /\ f.i.d = TestedBit(alias) /\ f.i.sa = 0
        /\ f.i.disp = 10
    BY <1>1, <1>9, FetchedOne
  <2>2. /\ RxDispatch(code) \in {"do_jumpc0", "do_jumpc1"}
        /\ (IF RxDispatch(code) = "do_jumpc0" THEN 0 ELSE 1) = Wanted(alias)
    BY AliasFields DEF RxDispatch, rx_dispatch_table, Wanted, code
  <2>3. /\ pc' = IF ISA!select_bit(regs[15], TestedBit(alias)) = Wanted(alias)
                   THEN ISA!EAddr(regs, f.i) ELSE ISA!U16(pc + 2)
        /\ UNCHANGED <<regs, mem, isaStatus>>
    BY <2>1, <2>2, JumpExecuted
  <2>4. ISA!EAddr(regs, f.i) = 10 /\ ISA!U16(pc + 2) = 7
    BY <1>2, <1>9, <2>1, SameMemory, SameWords DEF EAddr, U16
  <2>5. ISA!select_bit(regs[15], TestedBit(alias)) = Wanted(alias)
          <=> Holds(alias, a, b)
    BY <1>9, SameWords, FlagsDecide DEF Holds
  <2> QED BY <1>3, <2>3, <2>4, <2>5 DEF ComparedAt
<1>10. CASE pc = 7 /\ ~Holds(alias, a, b)
  <2>1. regs' = [regs EXCEPT ![3] = 1] /\ pc' = 9
        /\ mem' = mem /\ isaStatus' = "running"
    BY <1>1, <1>4, <1>5, <1>10
  <2> QED BY <1>2, <1>3, <1>5, <1>10, <2>1 DEF ComparedAt
<1>11. CASE pc = 10 /\ Holds(alias, a, b)
  <2>1. regs' = [regs EXCEPT ![3] = 2] /\ pc' = 12
        /\ mem' = mem /\ isaStatus' = "running"
    BY <1>1, <1>4, <1>5, <1>11
  <2> QED BY <1>2, <1>3, <1>5, <1>11, <2>1 DEF ComparedAt
<1>12. CASE pc \in {9, 12}
  <2>1. f.label = "do_trap" /\ f.i.d = 0
    BY <1>1, <1>12, FetchedOne
  <2>2. UNCHANGED <<regs, pc, mem>>
    BY <1>2, <2>1, HaltExecuted
  <2> QED BY <1>12, <2>2 DEF RunsProgram, ComparedAt
<1> QED BY <1>6, <1>7, <1>8, <1>9, <1>10, <1>11, <1>12 DEF RunsProgram, ComparedAt

LEMMA RunsProgramNext ==
  ASSUME MemWords >= 13, regs \in RegFile(0),
         NEW alias \in Aliases, NEW a \in Word, NEW b \in Word,
         RunsProgram(alias, a, b), ISA!Next
  PROVE  RunsProgram(alias, a, b)'
<1>1. isaStatus = "running"
  BY DEF ISA!Next
<1>2. CASE \E f \in ISA!Fetched(mem, pc) : ISA!Execute(f.label, f.i)
  BY <1>1, <1>2, InstructionStep
<1>3. CASE ISA!Crash
  BY <1>3 DEF ISA!Crash, RunsProgram, ComparedAt
<1> QED BY <1>2, <1>3 DEF ISA!Next

(* A memory that holds one of the programs. *)
Branching ==
  {Load(Program(alias, a, b)) : alias \in Aliases, a \in Word, b \in Word}

BranchInv ==
  /\ \E alias \in Aliases, a \in Word, b \in Word : RunsProgram(alias, a, b)
  /\ phase = "halted" => label = "end_hotloop"

LEMMA BranchInit ==
  ASSUME Init, mem \in Branching
  PROVE  BranchInv
BY DEF Init, Branching, BranchInv, RunsProgram, ComparedAt, isaStatus

LEMMA HaltedStep ==
  ASSUME TypeOK, phase = "halted" => label = "end_hotloop", [Next]_vmVars
  PROVE  phase' = "halted" => label' = "end_hotloop"
<1>1. CASE sigma16_vm_exec
  <2>1. InterpretDispatch \/ InterpretBody
    BY <1>1, InterpreterStep
  <2> QED BY <2>1 DEF InterpretDispatch, InterpretBody
<1>2. CASE sigma16_trace
  BY <1>2 DEF sigma16_trace, HandlerReturn, trace_rrr_faults
<1>3. CASE UNCHANGED vmVars
  BY <1>3 DEF vmVars
<1> QED BY <1>1, <1>2, <1>3 DEF Next, Ended

LEMMA BranchStep ==
  ASSUME MemWords >= 13, DataInv(0), ControlInv, DecodeCoherent,
         BranchInv, [Next]_vmVars
  PROVE  BranchInv'
<1>1. PICK alias \in Aliases, a \in Word, b \in Word : RunsProgram(alias, a, b)
  BY DEF BranchInv
<1>2. regs \in RegFile(0)
  BY DataInvRegFile
<1>3. RunsProgram(alias, a, b)'
  <2>1. CASE ISA!Next
    BY <1>1, <1>2, <2>1, RunsProgramNext
  <2>2. CASE UNCHANGED ISA!isaVars
    BY <1>1, <2>2 DEF ISA!isaVars, RunsProgram, ComparedAt
  <2> QED BY <2>1, <2>2, InterpreterRefines
<1>4. phase' = "halted" => label' = "end_hotloop"
  BY HaltedStep DEF DataInv, BranchInv
<1> QED BY <1>3, <1>4 DEF BranchInv

(* The data words and the jump, read back from the memory. *)
LEMMA ProgramData ==
  ASSUME MemWords >= 13,
         NEW alias \in Aliases, NEW a \in Word, NEW b \in Word,
         mem = Load(Program(alias, a, b))
  PROVE  /\ Data(1) = a /\ Data(3) = b
         /\ \A other \in Aliases : Data(5) = Asm!JX(other, 10)[1] => other = alias
<1> DEFINE img == Program(alias, a, b)
<1>1. Listing(img, alias, a, b)
  BY ProgramListing
<1> HIDE DEF img
<1>2. ASSUME NEW n \in {1, 3, 5}
      PROVE  Data(n) = img[n + 1]
  <2>1. n \in Address /\ n < Len(img) /\ img[n + 1] \in Word
    <3>1. img \in Seq(Word)
      BY <1>1 DEF Listing
    <3>2. n \in Nat /\ n < Len(img)
      BY <1>1, <1>2 DEF Listing
    <3>3. n \in Address
      BY <1>2, StoreAssumption DEF Address
    <3> QED BY <3>1, <3>2, <3>3
  <2>2. mem[n] = bswap_16(img[n + 1])
    BY <2>1 DEF Load, img
  <2> QED BY <2>1, <2>2, SwapTwice DEF Data
<1>3. Data(1) = a /\ Data(3) = b
  BY <1>1, <1>2 DEF Listing
<1>4. ASSUME NEW other \in Aliases, Data(5) = Asm!JX(other, 10)[1]
      PROVE  other = alias
  <2>1. Data(5) = FieldsWord(15, TestedBit(alias), 0, Asm!implicit_dest[alias][1])
    BY <1>1, <1>2 DEF Listing
  <2>2. Data(5) = FieldsWord(15, TestedBit(other), 0, Asm!implicit_dest[other][1])
    BY <1>4 DEF Asm!JX, Asm!RX, Asm!RRRWord, FieldsWord, TestedBit
  <2>3. \A x \in Aliases : TestedBit(x) \in Reg /\ Asm!implicit_dest[x][1] \in Reg
    BY AliasFields DEF Reg
  <2>4. 15 \in Reg /\ 0 \in Reg
    BY DEF Reg
  <2>5. /\ (Data(5) \div 256) % 16 = TestedBit(alias)
        /\ (Data(5) % 256) % 16 = Asm!implicit_dest[alias][1]
    BY <2>1, <2>3, <2>4, FourFields
  <2>6. /\ (Data(5) \div 256) % 16 = TestedBit(other)
        /\ (Data(5) % 256) % 16 = Asm!implicit_dest[other][1]
    BY <1>4, <2>2, <2>3, <2>4, FourFields
  <2> QED BY <1>4, <2>5, <2>6, AliasFields
<1> QED BY <1>3, <1>4

(***************************************************************************)
(* A program that compares any two words and takes any of the six jumps of *)
(* the assembler ends, if it halts, in the branch that the relation of its *)
(* mnemonic selects, from the file to the last instruction (vm.c, labels   *)
(* do_lea, do_cmp, do_jumpc0, do_jumpc1 and do_trap; assembler.py:207-215).*)
(* The mapping holds the thirteen words of the program.                    *)
(***************************************************************************)
THEOREM ProgramsBranch ==
  ASSUME MemWords >= 13
  PROVE  Spec /\ mem \in Branching => []BranchesOnRelation
<1>1. Init /\ mem \in Branching => BranchInv
  BY BranchInit
<1>2. DataInv(0) /\ ControlInv /\ DecodeCoherent /\ BranchInv /\ [Next]_vmVars
        => BranchInv'
  BY BranchStep
<1>3. BranchInv => BranchesOnRelation
  <2> SUFFICES ASSUME BranchInv, phase = "halted", NEW other \in Aliases,
                      Data(5) = Asm!JX(other, 10)[1]
               PROVE  regs[3] = IF Relation(other, Int16(Data(1)), Int16(Data(3)))
                                  THEN 2 ELSE 1
    BY DEF BranchesOnRelation
  <2>1. PICK alias \in Aliases, a \in Word, b \in Word : RunsProgram(alias, a, b)
    BY DEF BranchInv
  <2>2. Data(1) = a /\ Data(3) = b /\ other = alias
    BY <2>1, ProgramData DEF RunsProgram
  <2>3. isaStatus = "halted"
    BY DEF BranchInv, isaStatus
  <2>4. pc \in {9, 12}
    BY <2>1, <2>3 DEF RunsProgram
  <2> QED BY <2>1, <2>2, <2>4 DEF RunsProgram, ComparedAt, Holds
<1> QED BY <1>1, <1>2, <1>3, DataInvariant, ControlInvariant, DecodingIsCoherent,
           PTL DEF Spec
=============================================================================
