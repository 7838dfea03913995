-------------------------------- MODULE MCVM --------------------------------
(***************************************************************************)
(* Every program of a small family: two registers set to boundary values,  *)
(* then instructions from an alphabet that has every opcode with ordinary, *)
(* R0 and R15 operands, then trap.  The mapping is MemWords words long, so *)
(* that displacements and register values reach past its end.              *)
(***************************************************************************)
EXTENDS Sigma16VM

Asm == INSTANCE Sigma16Encode

RX(op, d, sa, disp) == Asm!RX(op, d, sa, disp)

TrapHalt == Asm!RRR(13, 0, 0, 0)

MCMemWords  == 16
MCForeign   == {208}   \* raw form of the instruction trap R0,R0,R0
MCStdoutCap == 3

RRRInsts ==
  {Asm!RRR(op, d, s[1], s[2]) :
     op \in 0..13, d \in {0, 1, 15}, s \in {<<1, 2>>, <<15, 1>>}}

RXInsts ==
  {RX(op, d, sa, disp) :
     op \in 0..9, d \in {0, 1, 2, 15}, sa \in {0, 1}, disp \in {0, 4, 15, 40000}}

EXPInsts == {Asm!RRR(14, 0, 0, 0) \o <<ab>> : ab \in {0, 1}}

Insts == RRRInsts \cup RXInsts \cup EXPInsts

Setup(v, w) == Asm!MOV(1, v) \o Asm!MOV(2, w)

(* One instruction with all pairs of boundary values in R1 and R2. *)
OneInst ==
  {Setup(v, w) \o i \o TrapHalt :
     v \in {0, 1, 7, 32768, 65535}, w \in {0, 2, 65535}, i \in Insts}

(* Output of R2 words from address R1, up to and past the mapping's end. *)
Writes ==
  {Asm!MOV(3, 2) \o Setup(v, w) \o Asm!RRR(13, 3, 1, 2) \o TrapHalt :
     v \in {0, 14, 15, 65535}, w \in 0..3}

(* Two instructions with fixed values. *)
Few ==
  {Asm!RRR(op, 1, 1, 2) : op \in {0, 3, 4, 12, 13}}
  \cup {RX(op, d, 1, 5) : op \in {1, 2, 4, 5, 8}, d \in {1, 3}}

TwoInst ==
  {Setup(2, 3) \o i \o j \o TrapHalt : i \in Insts, j \in Few}

MCImages == OneInst \cup Writes \cup TwoInst
=============================================================================
