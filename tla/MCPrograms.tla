----------------------------- MODULE MCPrograms -----------------------------
(***************************************************************************)
(* The executables of the repository's tests/ directory and the fibonacci  *)
(* example of its README, with the results they were written to compute;   *)
(* and programs that compare two values and take one of the six            *)
(* conditional jumps of the assembler: R3 tells which way they went.       *)
(***************************************************************************)
EXTENDS Sigma16Branches

array_sum ==
  <<61696, 1, 61953, 18, 1024, 768, 16434, 62212, 15, 62769, 20, 1093, 817,
    61443, 6, 62466, 19, 53248, 6, 0, 18, 65503, 21, 65534, 40, 25>>

const_arith == <<61696, 3, 61952, 4, 62208, 5, 8739, 2578, 53248>>

subroutine ==
  <<61697, 14, 64776, 11, 61698, 15, 64776, 11, 61698, 16, 53248, 273,
    61651, 0, 3, 0, 0>>

stackarray_simple ==
  <<61697, 68, 65032, 44, 61697, 69, 65032, 44, 61697, 70, 65032, 44, 65032,
    55, 65032, 33, 61697, 71, 65032, 44, 65032, 55, 65032, 33, 65032, 55,
    65032, 33, 65032, 55, 65032, 33, 53248, 61698, 66, 61696, 2, 61952, 66,
    62208, 2, 53539, 61667, 0, 61953, 74, 61730, 75, 62208, 1, 547, 61954,
    74, 61667, 0, 61953, 74, 62208, 1, 4643, 61729, 75, 61954, 74, 61667, 0,
    0, 10, 97, 98, 99, 100, 101, 100, 0, 0>>

(* README.md:171-186 *)
fibonacci ==
  Asm!MOV(1, 0) \o Asm!MOV(2, 1) \o Asm!MOV(3, 10) \o Asm!MOV(4, 1)
  \o Asm!RRR(0, 5, 1, 2) \o Asm!MOVR(1, 2) \o Asm!MOVR(2, 5)
  \o Asm!RRR(1, 3, 3, 4) \o Asm!RRR(6, 6, 3, 0) \o Asm!RX(6, 6, 0, 8)
  \o Asm!RRR(13, 0, 0, 0)

(* The boundaries of the words read as unsigned and as signed numbers. *)
Values == {0, 1, 2, 32766, 32767, 32768, 32769, 65534, 65535}

MCMemWords  == 128
MCForeign   == {}
MCStdoutCap == 16
MCImages    ==
  {array_sum, const_arith, subroutine, stackarray_simple, fibonacci}
  \cup {Program(alias, a, b) : alias \in Aliases, a, b \in Values}

-----------------------------------------------------------------------------
(* Their first words tell the programs apart: none overwrites its code. *)
Runs(img) == \A a \in 0..5 : Data(a) = img[a + 1]

(***************************************************************************)
(* The programs leave the results they compute: the sum of the array, 3 +  *)
(* 4 * 5, what the subroutine makes of its two arguments, the lines c, d,  *)
(* b, a that popping the stack prints, and the registers of README.md:194  *)
(* after the tenth fibonacci number (vm.c, every label the programs use).  *)
(***************************************************************************)
Results ==
  phase = "halted" =>
    /\ Runs(array_sum) => Data(19) = 69
    /\ Runs(const_arith) => regs[10] = 23
    /\ Runs(subroutine) => Data(15) = 6 /\ Data(16) = 12
    /\ Runs(stackarray_simple) => stdout = <<99, 10, 100, 10, 98, 10, 97, 10>>
    /\ Runs(fibonacci) => /\ <<regs[1], regs[2], regs[3]>> = <<55, 89, 0>>
                          /\ <<regs[4], regs[5], regs[6]>> = <<1, 89, 1>>

(***************************************************************************)
(* Each of the programs reaches the trap that ends it: no branch, call or  *)
(* counter of the loops goes wrong (vm.c, labels do_jumpf to do_trap).     *)
(***************************************************************************)
Terminates == <>(phase = "halted")
=============================================================================
