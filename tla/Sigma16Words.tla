---------------------------- MODULE Sigma16Words ----------------------------
(***************************************************************************)
(* The data of the emulator: 16-bit words and their arithmetic (vm.c),     *)
(* the layout of an instruction in a memory word (instructions.h) and the  *)
(* layout of the condition flags in R15 (cpu.h).                           *)
(*                                                                         *)
(* Memory holds the bytes of the executable unchanged, two to a uint16_t,  *)
(* on a little-endian host: the first byte of a Sigma16 word is the LOW    *)
(* byte of the raw memory word.  Decoding works on the raw word; data goes *)
(* through bswap_16.                                                       *)
(***************************************************************************)
EXTENDS Integers, Sequences

MaxWord == 65535

Word == 0..MaxWord
Byte == 0..255
Reg  == 0..15

(* The conversion of an arithmetic result to uint16_t. *)
U16(n) == n % 65536

(* (int16_t)w *)
Int16(w) == IF w < 32768 THEN w ELSE w - 65536

bswap_16(w) == (w % 256) * 256 + w \div 256

(***************************************************************************)
(* The low 16 bits of a product, taken in two halves so that no            *)
(* intermediate value leaves 32 bits.  In C the two uint16_t factors       *)
(* become int: a product over 2^31 - 1 overflows, and the build stores its *)
(* low 16 bits.                                                            *)
(***************************************************************************)
Mul16(a, b) ==
  U16(a * (b % 256) + 256 * ((a * (b \div 256)) % 256))

(***************************************************************************)
(* Words as sets of bit numbers (0 = least significant).                   *)
(***************************************************************************)
Bits(w) == {k \in 0..15 : (w \div 2^k) % 2 = 1}

FromBits(S) ==
  LET b(k) == IF k \in S THEN 1 ELSE 0
  IN  b(0) + 2 * b(1) + 4 * b(2) + 8 * b(3)
      + 16 * b(4) + 32 * b(5) + 64 * b(6) + 128 * b(7)
      + 256 * b(8) + 512 * b(9) + 1024 * b(10) + 2048 * b(11)
      + 4096 * b(12) + 8192 * b(13) + 16384 * b(14) + 32768 * b(15)

Inv16(a)    == MaxWord - a
And16(a, b) == FromBits(Bits(a) \cap Bits(b))
Or16(a, b)  == FromBits(Bits(a) \cup Bits(b))
Xor16(a, b) == FromBits((Bits(a) \ Bits(b)) \cup (Bits(b) \ Bits(a)))

(* Sigma16 numbers bits from the most significant one. *)
select_bit(val, bit_pos) == (val \div 2^(15 - bit_pos)) % 2

Truth(p) == IF p THEN 1 ELSE 0

-----------------------------------------------------------------------------
(***************************************************************************)
(* sigma16_reg_status_t: a byte of padding, then eight one-bit fields from *)
(* the least significant bit of the high byte up.                          *)
(***************************************************************************)
FlagBit == [C |-> 8, v |-> 9, V |-> 10, L |-> 11,
            l |-> 12, E |-> 13, g |-> 14, G |-> 15]

(* R15 after CLEARFLAGS (the whole register) and SETFLAG of the flags F. *)
Status(F) == FromBits({FlagBit[f] : f \in F})

(* Mutant: the casts to int16_t are forgotten. *)
CmpFlags_no_cast(a, b) ==
  {f \in {"G", "g", "E", "l", "L"} :
     \/ f \in {"G", "g"} /\ a > b
     \/ f = "E" /\ a = b
     \/ f \in {"l", "L"} /\ a < b}

(* do_cmp: capital letters compare the words, small ones the integers. *)
CmpFlags(a, b) ==
  {f \in {"G", "g", "E", "l", "L"} :
     \/ f = "G" /\ a > b
     \/ f = "g" /\ Int16(a) > Int16(b)
     \/ f = "E" /\ a = b
     \/ f = "l" /\ Int16(a) < Int16(b)
     \/ f = "L" /\ a < b}

(***************************************************************************)
(* do_add: the flags are computed from the NUMBER of the destination       *)
(* register, which is what the code tests, not from the sum.               *)
(***************************************************************************)
AddFlags(d) == IF d = 0 THEN {"E", "L"} ELSE {"G", "g", "V", "v", "C"}

-----------------------------------------------------------------------------
(***************************************************************************)
(* Instruction fields of a raw memory word.                                *)
(***************************************************************************)
Op(w) == (w \div 16) % 16
D(w)  == w % 16
Sb(w) == (w \div 256) % 16
Sa(w) == w \div 4096

(***************************************************************************)
(* union sigma16_inst_variant: the formats share their first bytes;        *)
(* exp0.ab lies, unswapped, where rx.disp does.                            *)
(***************************************************************************)
Inst == [op : Reg, d : Reg, sa : Reg, sb : Reg, disp : Word]

NoInst == [op |-> 0, d |-> 0, sa |-> 0, sb |-> 0, disp |-> 0]

InterpRRR(w, disp) ==
  [op |-> Op(w), d |-> D(w), sa |-> Sa(w), sb |-> Sb(w), disp |-> disp]

InterpRX(w, x) == InterpRRR(w, bswap_16(x))

InterpEXP0(w, x) == InterpRRR(w, x)

-----------------------------------------------------------------------------
(***************************************************************************)
(* The labels of sigma16_vm_exec and its three computed-goto tables.       *)
(***************************************************************************)
dispatch_table ==
  <<"do_add", "do_sub", "do_mul", "do_div", "do_cmp", "do_cmplt",
    "do_cmpeq", "do_cmpgt", "do_invold", "do_andold", "do_orold",
    "do_xorold", "do_nop", "do_trap", "do_decode_exp", "do_decode_rx">>

rx_dispatch_table ==
  <<"do_lea", "do_load", "do_store", "do_jump", "do_jumpc0", "do_jumpc1",
    "do_jumpf", "do_jumpt", "do_jal", "do_bad_op", "do_bad_op", "do_bad_op",
    "do_bad_op", "do_bad_op", "do_bad_op", "do_bad_op">>

Dispatch(w) == dispatch_table[Op(w) + 1]

RxDispatch(sb) == rx_dispatch_table[sb + 1]

RRRLabels == {"do_add", "do_sub", "do_mul", "do_div", "do_cmp", "do_cmplt",
              "do_cmpeq", "do_cmpgt", "do_invold", "do_andold", "do_orold",
              "do_xorold", "do_nop", "do_trap"}

RXLabels == {"do_lea", "do_load", "do_store", "do_jump", "do_jumpc0",
             "do_jumpc1", "do_jumpf", "do_jumpt", "do_jal"}

InstLabels == RRRLabels \cup RXLabels \cup {"do_rfi"}
=============================================================================
