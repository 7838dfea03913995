-------------------------- MODULE Sigma16Toolchain ---------------------------
(***************************************************************************)
(* The assembler writes a file, which the disassembler then lists, for a   *)
(* comparison of the three that know the format: both of them and the      *)
(* emulator, whose decoding is Fetched in Sigma16Store.                    *)
(***************************************************************************)
EXTENDS Sigma16Assembler, Sigma16Disassembler

toolVars == <<asmVars, disVars>>

ToolchainInit ==
  /\ AsmInit
  /\ binary = << >> /\ offset = 0 /\ lines = << >>
  /\ outcome = "running"

(* The disassembler reads what the assembler left: nothing, a part, all. *)
open ==
  /\ AsmEnded /\ binary # file
  /\ binary' = file
  /\ UNCHANGED <<asmVars, offset, lines, outcome>>

sweep == AsmEnded /\ binary = file /\ disasm_binary /\ UNCHANGED asmVars

ToolchainNext ==
  \/ AsmNext /\ UNCHANGED disVars
  \/ open \/ sweep
  \/ AsmEnded /\ DisEnded /\ UNCHANGED asmVars

ToolchainSpec == ToolchainInit /\ [][ToolchainNext]_toolVars

-----------------------------------------------------------------------------
(***************************************************************************)
(* The listing of an assembled file is its source: up to the first data    *)
(* every line is the instruction of the object that was written there, at  *)
(* its address, with its operands and the values of its labels             *)
(* (assembler.py:358-369, disassembler.py:124-169).                        *)
(***************************************************************************)
RoundTrip ==
  \A n \in 1..Len(lines) :
    (\A m \in 1..n : m <= Len(objs) => objs[m].kind # "DATA") =>
      /\ n <= Len(starts)
      /\ lines[n].at = starts[n] /\ ~lines[n].data
      /\ IsDecodedAs(objs[n], lines[n])
=============================================================================
