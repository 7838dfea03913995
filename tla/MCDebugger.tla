----------------------------- MODULE MCDebugger -----------------------------
(***************************************************************************)
(* Debugging sessions of short programs: a loop that counts, one that      *)
(* never ends, and straight lines that halt, store, or stop on an illegal  *)
(* instruction.                                                            *)
(***************************************************************************)
EXTENDS Sigma16Debugger

Asm == INSTANCE Sigma16Encode

Halt == Asm!RRR(13, 0, 0, 0)

(* R1 counts down from 2.  R3 is 0, also when the user has changed R0. *)
Loop == Asm!RX(0, 1, 3, 2) \o Asm!RX(0, 2, 3, 65535) \o Asm!RRR(0, 1, 1, 2)
        \o Asm!RX(7, 1, 0, 4) \o Halt

Forever == Asm!RRR(12, 0, 0, 0) \o Asm!RX(3, 0, 0, 0)

(* What the user writes to R15 decides the jump. *)
OnFlags == Asm!JX("JUMPEQ", 4) \o Asm!RX(2, 15, 0, 7) \o Halt

Illegal == Asm!RRR(12, 0, 0, 0) \o Asm!RX(9, 0, 0, 0)

MCMemWords  == 8
MCForeign   == {}
MCStdoutCap == 0
MCImages    == {Loop, Forever, OnFlags, Illegal}

MCStepInputs     == {-1, 0, 1, 2, 3}
MCBpInputs       == {0, 4}
MCRegInputs      == {0, 1, 15}
MCValInputs      == {0, 8192}
MCMaxBreakpoints == 2
=============================================================================
