----------------------------- MODULE MCToolchain -----------------------------
(***************************************************************************)
(* Every source of up to four lines out of seventeen: instructions of both   *)
(* sizes with numbers and forward and backward references, labels of which *)
(* one reads as a hexadecimal number, data of every format that the        *)
(* disassembler tells apart, lines in error.                               *)
(***************************************************************************)
EXTENDS Sigma16Toolchain

MCMemWords  == 10
MCForeign   == {}
MCStdoutCap == 0
MCImages    == {}

(* The readings in base 10, 16, 2, 8 and as a character. *)
MCToken(text, dec, hex, bin, oct, char, legal) ==
  [text |-> text, reads |-> <<dec, hex, bin, oct, char>>, legal |-> legal]

Name(text)       == MCToken(text, None, None, None, None, None, TRUE)
Dec(text, value) == MCToken(text, value, None, None, None, None, FALSE)

NoToken == Name("")
L       == Name("L")
AB      == MCToken("AB", None, 171, None, None, None, TRUE)
Hex     == MCToken("0XFFFF", None, 65535, None, None, None, FALSE)
Char    == MCToken("'A'", None, None, None, None, 65, FALSE)
Garbage == MCToken("@", None, None, None, None, None, FALSE)

Source(kind, op, d, sa, sb, token) ==
  [kind |-> kind, op |-> op, d |-> d, sa |-> sa, sb |-> sb, token |-> token]

Of(kind, token) == Source(kind, 0, 0, 0, 0, token)

MCLines ==
  {Source("RRR", 9, 1, 2, 3, NoToken),
   Source("RX", 7, 1, 4, 0, L), Source("RX", 3, 0, 0, 0, AB),
   Source("MOV", 0, 5, 0, 0, Hex), Source("RX", 2, 3, 1, 0, Dec("300", 300)),
   Source("MOV", 0, 5, 0, 0, L), Source("RX", 0, 5, 0, 0, NoToken),
   Of("DATA", Char), Of("DATA", Garbage),
   Of("DATA", Dec("-4096", -4096)),   \* the first word of an RX instruction
   Of("DATA", Dec("-4081", -4081)),   \* the same with an opcode of none
   Of("DATA", Dec("-8192", -8192)),   \* an EXP instruction
   Of("label", L), Of("label", AB), Of("label", Garbage),
   Of("blank", NoToken), Of("fatal", NoToken)}

MCSources == UNION {[1..n -> MCLines] : n \in 0..4}
=============================================================================
