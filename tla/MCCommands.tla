----------------------------- MODULE MCCommands ------------------------------
(***************************************************************************)
(* Every command, with its arguments, without them and with numbers that   *)
(* wrap, in sessions of a program that halts and of one that never does.   *)
(***************************************************************************)
EXTENDS Sigma16Commands

Asm == INSTANCE Sigma16Encode

MCMemWords  == 6
MCForeign   == {}
MCStdoutCap == 0
MCImages    == {Asm!RRR(12, 0, 0, 0) \o Asm!RRR(13, 0, 0, 0),
                Asm!RRR(12, 0, 0, 0) \o Asm!RX(3, 0, 0, 0)}

MCStepInputs     == {1, 2}
MCBpInputs       == {1}
MCRegInputs      == {1, 15}
MCValInputs      == {0, 65535}
MCMaxBreakpoints == 1
MCMaxEmpty       == 1

L(name, vals) == [name |-> name, vals |-> vals]

MCLines ==
  {L(" ", << >>), L("r", << >>), L("n", << >>), L("n", <<2>>),
   L("b", << >>), L("b", <<65537>>), L("i", <<15>>), L("i", <<15, -1>>),
   L("i", <<1, 0>>), L("o", << >>), L("o", <<1>>), L("o", <<15>>),
   L("t", << >>), L("?", << >>), L("c", << >>), L("d", << >>),
   L("m", << >>), L("m", <<6>>), L("m", <<4, 7>>), L("m", <<-1>>),
   L("m", <<3, -1>>), L("e", << >>)}
=============================================================================
