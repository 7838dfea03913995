----------------------------- MODULE Sigma16ISA -----------------------------
(***************************************************************************)
(* What the emulator promises: a machine of sixteen registers, a program   *)
(* counter and a memory that executes one instruction per step.  There is  *)
(* no instruction register, no handler call and no control location: an    *)
(* instruction is fetched and executed at once, as in a build without      *)
(* ENABLE_TRACE.  Instructions are grouped in classes by what they may     *)
(* change.                                                                 *)
(***************************************************************************)
EXTENDS Sigma16Store

VARIABLES
  regs,     \* the register file
  pc,       \* address of the next instruction
  mem,      \* raw memory words
  stdout,   \* the observed output
  status    \* "running", "halted", "error" or "crashed"

isaVars == <<regs, pc, mem, stdout, status>>

Init ==
  /\ mem \in Loaded
  /\ regs = [r \in Reg |-> 0]
  /\ pc = 0
  /\ stdout = << >>
  /\ status = "running"

(* R0 is the constant 0: a result for it is dropped. *)
Assign(d, v) == IF d = 0 THEN regs ELSE [regs EXCEPT ![d] = v]

Result(lab, a, b) ==
  CASE lab = "do_add"    -> U16(a + b)
    [] lab = "do_sub"    -> U16(a - b)
    [] lab = "do_mul"    -> Mul16(a, b)
    [] lab = "do_cmplt"  -> Truth(a < b)
    [] lab = "do_cmpeq"  -> Truth(a = b)
    [] lab = "do_cmpgt"  -> Truth(a > b)
    [] lab = "do_invold" -> Inv16(a)
    [] lab = "do_andold" -> And16(a, b)
    [] lab = "do_orold"  -> Or16(a, b)
    [] lab = "do_xorold" -> Xor16(a, b)

KeepsR15 == {"do_sub", "do_mul"}

ClearsR15 == {"do_cmplt", "do_cmpeq", "do_cmpgt", "do_invold",
              "do_andold", "do_orold", "do_xorold"}

Step(n) == /\ pc' = U16(pc + n)
           /\ UNCHANGED <<mem, stdout, status>>

(* Three-register instructions: a result, and R15 kept, cleared or set. *)
Compute(lab, i) ==
  LET r == Assign(i.d, Result(lab, regs[i.sa], regs[i.sb]))
  IN  /\ \/ lab \in KeepsR15 /\ regs' = r
         \/ lab \in ClearsR15 /\ regs' = [r EXCEPT ![15] = 0]
         \/ lab = "do_add" /\ regs' = [r EXCEPT ![15] = Status(AddFlags(i.d))]
      /\ Step(1)

(* Quotient to R[d], remainder to R15; nothing when the divisor is 0. *)
Divide(lab, i) ==
  LET a == regs[i.sa]
      b == regs[i.sb]
      q == Assign(i.d, a \div b)
  IN  /\ lab = "do_div"
      /\ \/ b = 0 /\ regs' = regs
         \/ b # 0 /\ i.d = 15 /\ regs' = q
         \/ b # 0 /\ i.d # 15 /\ regs' = [q EXCEPT ![15] = a % b]
      /\ Step(1)

(* R15 is cleared before the operands are read, and may be one of them. *)
Compare(lab, i) ==
  LET r == [regs EXCEPT ![15] = 0]
  IN  /\ lab = "do_cmp"
      /\ regs' = [r EXCEPT ![15] = Status(CmpFlags(r[i.sa], r[i.sb]))]
      /\ Step(1)

NoOperation(lab, i) ==
  /\ \/ lab = "do_nop"
     \/ lab = "do_trap" /\ regs[i.d] \notin {0, 2}
  /\ regs' = [regs EXCEPT ![15] = 0]
  /\ Step(1)

ReturnFromInterrupt(lab, i) ==
  /\ lab = "do_rfi"
  /\ UNCHANGED regs
  /\ Step(2)

Halt(lab, i) ==
  /\ lab = "do_trap" /\ regs[i.d] = 0
  /\ status' = "halted"
  /\ UNCHANGED <<regs, pc, mem, stdout>>

Write(lab, i) ==
  /\ lab = "do_trap" /\ regs[i.d] = 2 /\ Survives(regs, i)
  /\ \E far \in FarReads(regs, i) :
       stdout' = Put(stdout, TrapBytes(mem, regs, i, far))
  /\ regs' = [regs EXCEPT ![15] = 0]
  /\ pc' = U16(pc + 1)
  /\ UNCHANGED <<mem, status>>

LoadAddress(lab, i) ==
  /\ lab = "do_lea"
  /\ regs' = Assign(i.d, EAddr(regs, i))
  /\ Step(2)

LoadWord(lab, i) ==
  /\ lab = "do_load"
  /\ \/ i.d = 0 /\ UNCHANGED regs
     \/ i.d # 0 /\ \E w \in Peek(mem, EAddr(regs, i)) :
                     regs' = Assign(i.d, bswap_16(w))
  /\ Step(2)

StoreWord(lab, i) ==
  /\ lab = "do_store"
  /\ Peek(mem, EAddr(regs, i)) # {}
  /\ mem' = Poke(mem, EAddr(regs, i), bswap_16(regs[i.d]))
  /\ pc' = U16(pc + 2)
  /\ UNCHANGED <<regs, stdout, status>>

Taken(lab, i) ==
  \/ lab = "do_jump"
  \/ lab = "do_jumpc0" /\ select_bit(regs[15], i.d) = 0
  \/ lab = "do_jumpc1" /\ select_bit(regs[15], i.d) = 1
  \/ lab = "do_jumpf" /\ regs[i.d] = 0
  \/ lab = "do_jumpt" /\ regs[i.d] # 0

Branch(lab, i) ==
  /\ lab \in {"do_jump", "do_jumpc0", "do_jumpc1", "do_jumpf", "do_jumpt"}
  /\ pc' = IF Taken(lab, i) THEN EAddr(regs, i) ELSE U16(pc + 2)
  /\ UNCHANGED <<regs, mem, stdout, status>>

(* The link register is written before the target is computed from it. *)
Call(lab, i) ==
  /\ lab = "do_jal"
  /\ regs' = Assign(i.d, U16(pc + 2))
  /\ pc' = EAddr(regs', i)
  /\ UNCHANGED <<mem, stdout, status>>

Illegal(lab, i) ==
  /\ lab = "do_bad_op"
  /\ status' = "error"
  /\ UNCHANGED <<regs, pc, mem, stdout>>

Execute(lab, i) ==
  \/ Compute(lab, i) \/ Divide(lab, i) \/ Compare(lab, i)
  \/ NoOperation(lab, i) \/ ReturnFromInterrupt(lab, i)
  \/ Halt(lab, i) \/ Write(lab, i)
  \/ LoadAddress(lab, i) \/ LoadWord(lab, i) \/ StoreWord(lab, i)
  \/ Branch(lab, i) \/ Call(lab, i) \/ Illegal(lab, i)

(***************************************************************************)
(* The process may only die in an instruction that reaches past the end of *)
(* the mapping, or that is an EXP instruction with a second word.          *)
(***************************************************************************)
OutOfBounds ==
  \/ pc \notin Address
  \/ \E w \in Peek(mem, pc) : OperandAddrs(pc, w) \ Address # {}
  \/ \E f \in Fetched(mem, pc) :
       \/ DataAddrs(f.label, regs, f.i) \ Address # {}
       \/ f.label = "do_rfi" /\ f.i.disp # 0

Crash ==
  /\ OutOfBounds
  /\ status' = "crashed"
  /\ UNCHANGED <<regs, pc, mem, stdout>>

Next ==
  /\ status = "running"
  /\ \/ \E f \in Fetched(mem, pc) : Execute(f.label, f.i)
     \/ Crash

Spec == Init /\ [][Next]_isaVars
=============================================================================
