------------------------------ MODULE MCPython -------------------------------
(***************************************************************************)
(* One emulator object with two executables, a callback, three machines,   *)
(* and executions nested two deep.                                         *)
(***************************************************************************)
EXTENDS Sigma16Python, TLC

CONSTANTS v1, v2, v3, f1, f2, h1

MCVms      == {v1, v2, v3}
MCFiles    == {f1, f2}
MCHandlers == {h1}
MCMaxDepth   == 2
MCMaxDecodes == 3

MCSymmetry == Permutations(MCVms) \cup Permutations(MCFiles)
=============================================================================
