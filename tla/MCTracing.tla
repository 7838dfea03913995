------------------------------ MODULE MCTracing -------------------------------
(***************************************************************************)
(* A comparison of two boundary values, then every instruction once with   *)
(* the flags it leaves, then nop, which is printed as that instruction.    *)
(***************************************************************************)
EXTENDS Sigma16Tracing

Asm == INSTANCE Sigma16Encode

MCMemWords  == 12
MCForeign   == {}
MCStdoutCap == 1

Insts ==
  {Asm!RRR(op, d, 1, 2) : op \in 0..13, d \in {0, 3}}
  \cup {Asm!RX(op, d, 3, 6) : op \in 0..8, d \in {0, 3}}
  \cup {Asm!RX(op, d, 3, 0) : op \in {4, 5}, d \in 0..7}
  \cup {Asm!RRR(14, 0, 0, 0) \o <<0>>}

MCImages ==
  {Asm!MOV(1, v) \o Asm!MOV(2, w) \o Asm!CMP(1, 2) \o i
   \o Asm!RRR(12, 0, 0, 0) \o Asm!RRR(13, 0, 0, 0) :
     v \in {1, 65535}, w \in {1, 2}, i \in Insts}
=============================================================================
