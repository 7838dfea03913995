---------------------------- MODULE Sigma16Encode ----------------------------
(***************************************************************************)
(* The words the assembler writes for parsed instructions (write_code in   *)
(* assembler.py) and the conditional jumps it offers as aliases.  A        *)
(* program is a sequence of file words, the first byte being the high one. *)
(***************************************************************************)
EXTENDS Integers, Sequences

RRRWord(op, d, sa, sb) == 4096 * op + 256 * d + 16 * sa + sb

(* A one-word and a two-word instruction. *)
RRR(op, d, sa, sb) == <<RRRWord(op, d, sa, sb)>>

RX(op, d, sa, disp) == <<RRRWord(15, d, sa, op), disp>>

(* cmp has no destination: its field is R0. *)
CMP(a, b) == RRR(4, 0, a, b)

(* mov register and mov value both are lea. *)
MOVR(d, a) == RX(0, d, a, 0)
MOV(d, v)  == RX(0, d, 0, v)

(* jumpc0 or jumpc1, and the bit of R15 that it tests. *)
implicit_dest ==
  [JUMPLE |-> <<4, 1>>, JUMPLT |-> <<5, 3>>, JUMPNE |-> <<4, 2>>,
   JUMPEQ |-> <<5, 2>>, JUMPGE |-> <<4, 3>>, JUMPGT |-> <<5, 1>>]

JX(alias, disp) ==
  RX(implicit_dest[alias][1], implicit_dest[alias][2], 0, disp)
=============================================================================
