------------------------------- MODULE MCDump --------------------------------
(***************************************************************************)
(* Dumps of a memory of three rows, the last one of two words, with ranges *)
(* that begin, end or lie anywhere around the row boundaries and the end.  *)
(***************************************************************************)
EXTENDS Sigma16Dump

MCMemWords  == 34
MCForeign   == {}
MCStdoutCap == 0

(* Different characters, and every seventh word without one. *)
MCImages == {[k \in 1..34 |-> 256 * k + (IF k % 7 = 0 THEN 7 ELSE 47 + k)]}

MCBounds == {0, 1, 5, 15, 16, 17, 31, 32, 33, 34, 35}
=============================================================================
