------------------------------ MODULE MCProcess ------------------------------
(***************************************************************************)
(* The command on a program that halts, one that is illegal, one that      *)
(* leaves the memory and one that never ends.                              *)
(***************************************************************************)
EXTENDS Sigma16Process

Asm == INSTANCE Sigma16Encode

Halts   == Asm!MOV(1, 40000) \o Asm!RRR(0, 2, 1, 1) \o Asm!RRR(13, 0, 0, 0)
Illegal == Asm!RRR(12, 0, 0, 0) \o Asm!RX(9, 0, 0, 0)
Leaves  == Asm!RX(3, 0, 0, 9)
Forever == Asm!RRR(12, 0, 0, 0) \o Asm!RX(3, 0, 0, 0)

MCMemWords  == 6
MCForeign   == {}
MCStdoutCap == 0
MCImages    == {Halts, Illegal, Leaves, Forever}

MCStepInputs     == {1}
MCBpInputs       == {0}
MCRegInputs      == {1, 15}
MCValInputs      == {1}
MCMaxBreakpoints == 1
=============================================================================
