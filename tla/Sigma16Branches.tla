--------------------------- MODULE Sigma16Branches ---------------------------
(***************************************************************************)
(* The conditional jumps of the assembler against the interpreter: cmp     *)
(* leaves the flags in R15 and jumple, jumplt, ... test one bit of it.     *)
(***************************************************************************)
EXTENDS Sigma16VM

Asm == INSTANCE Sigma16Encode

Aliases == DOMAIN Asm!implicit_dest

Relation(alias, a, b) ==
  CASE alias = "JUMPLE" -> a <= b
    [] alias = "JUMPLT" -> a < b
    [] alias = "JUMPNE" -> a # b
    [] alias = "JUMPEQ" -> a = b
    [] alias = "JUMPGE" -> a >= b
    [] alias = "JUMPGT" -> a > b

(* The jump that the assembler writes for alias would be taken now. *)
Branches(alias) ==
  LET dest == Asm!implicit_dest[alias]
  IN  ISA!Taken(RxDispatch(dest[1]), [d |-> dest[2]])

(***************************************************************************)
(* After a cmp, each of the six conditional jumps is taken exactly when    *)
(* the relation its mnemonic names holds of the two operands as signed     *)
(* numbers.  Five pieces of code must agree for it: the flags do_cmp sets  *)
(* (vm.c:178-192), the bit-fields of cpu.h:30-40, the bit numbering of     *)
(* select_bit (vm.c:18), rx_dispatch_table (vm.c:139) and the aliases of    *)
(* the assembler (assembler.py:207-215).  R15 is no operand: do_cmp clears *)
(* it before it reads them.                                                *)
(***************************************************************************)
CompareDecidesBranch ==
  [][phase = "execute" /\ label = "do_cmp" /\ ir.sa # 15 /\ ir.sb # 15
       => \A alias \in Aliases :
            Branches(alias)' <=> Relation(alias, Int16(A), Int16(B))]_vmVars

(***************************************************************************)
(* The words of a program that compares a and b and jumps to address 10 or *)
(* goes on at 7: R3 tells which.                                           *)
(***************************************************************************)
Program(alias, a, b) ==
  LET mov(d) == Asm!MOV(d, 0)[1]
      halt   == Asm!RRR(13, 0, 0, 0)[1]
  IN  <<mov(1), a, mov(2), b, Asm!CMP(1, 2)[1], Asm!JX(alias, 10)[1], 10,
        mov(3), 1, halt, mov(3), 2, halt>>

Data(a) == bswap_16(mem[a])

(***************************************************************************)
(* The same of a whole program, from the words of the file to the halt:    *)
(* loading, decoding, the comparison and the jump with its target leave in *)
(* R3 whether the relation of the mnemonic held (vm.c, labels do_lea,      *)
(* do_cmp, do_jumpc0, do_jumpc1 and do_trap; assembler.py:207-215).        *)
(***************************************************************************)
BranchesOnRelation ==
  phase = "halted" =>
    \A alias \in Aliases :
      Data(5) = Asm!JX(alias, 10)[1] =>
        regs[3] = IF Relation(alias, Int16(Data(1)), Int16(Data(3))) THEN 2 ELSE 1
=============================================================================
