------------------------- MODULE Sigma16Disassembler -------------------------
(***************************************************************************)
(* The disassembler (disassembler.py): it sweeps the words of a file from  *)
(* the first and lists an instruction or data for each.  It takes the file *)
(* apart by bytes, the emulator by the bit fields of a raw memory word.    *)
(***************************************************************************)
EXTENDS Sigma16Store

VARIABLES
  binary,   \* the words of the file
  offset,   \* of the next line, in words
  lines,    \* what is listed
  outcome    \* "running", "done", or the exception that ended it

disVars == <<binary, offset, lines, outcome>>

DisInit ==
  /\ binary \in Images
  /\ offset = 0 /\ lines = << >>
  /\ outcome = "running"

(* An instruction has the size of its format; data has no fields. *)
Listed == [at : Nat, size : {1, 2}, data : BOOLEAN, i : Inst]

DisTypeOK ==
  /\ offset \in Nat
  /\ lines \in Seq(Listed)
  /\ outcome \in {"running", "done", "IndexError", "struct.error"}

-----------------------------------------------------------------------------
(* The bytes of the word at a, and split_byte of each. *)
Byte1(a) == binary[a + 1] \div 256
Byte2(a) == binary[a + 1] % 256
split_byte(b) == [low |-> b % 16, high |-> b \div 16]

opcode(a) == split_byte(Byte1(a)).high

(* Mutant: the halves of the second byte are swapped. *)
decode_rrr_inst_swapped(a) ==
  [op |-> opcode(a), d |-> split_byte(Byte1(a)).low,
   sa |-> split_byte(Byte2(a)).low, sb |-> split_byte(Byte2(a)).high, disp |-> 0]

(* Mutant: the low half is not masked. *)
decode_rrr_inst_unmasked(a) ==
  [op |-> opcode(a), d |-> Byte1(a), sa |-> split_byte(Byte2(a)).high,
   sb |-> Byte2(a), disp |-> 0]

decode_rrr_inst(a) ==
  [op |-> opcode(a), d |-> split_byte(Byte1(a)).low,
   sa |-> split_byte(Byte2(a)).high, sb |-> split_byte(Byte2(a)).low, disp |-> 0]

(* Mutant: the displacement is unpacked in the order of the host. *)
decode_rx_inst_host(a) ==
  [decode_rrr_inst(a) EXCEPT !.disp = bswap_16(binary[a + 2])]

decode_rx_inst(a) == [decode_rrr_inst(a) EXCEPT !.disp = binary[a + 2]]

List(size, data, i) ==
  /\ lines' = Append(lines, [at |-> offset, size |-> size, data |-> data, i |-> i])
  /\ offset' = offset + size
  /\ UNCHANGED <<binary, outcome>>

Raise(e) == outcome' = e /\ UNCHANGED <<binary, offset, lines>>

More == outcome = "running" /\ offset < Len(binary)

(* An EXP instruction comes here too, and has no entry in the table. *)
disasm_rrr ==
  /\ More /\ opcode(offset) < 15
  /\ IF opcode(offset) = 14
       THEN Raise("IndexError")
       ELSE List(1, FALSE, decode_rrr_inst(offset))

(* Mutant: data is one word. *)
disasm_rx_data1 ==
  /\ More /\ opcode(offset) = 15
  /\ IF split_byte(Byte2(offset)).low > 8
       THEN List(1, TRUE, NoInst)
     ELSE IF offset + 1 = Len(binary)
       THEN Raise("struct.error")
     ELSE List(2, FALSE, decode_rx_inst(offset))

(* Two words are data when the first names no RX instruction. *)
disasm_rx ==
  /\ More /\ opcode(offset) = 15
  /\ IF split_byte(Byte2(offset)).low > 8
       THEN List(2, TRUE, NoInst)
     ELSE IF offset + 1 = Len(binary)
       THEN Raise("struct.error")
     ELSE List(2, FALSE, decode_rx_inst(offset))

disasm_end ==
  /\ outcome = "running" /\ offset >= Len(binary)
  /\ outcome' = "done"
  /\ UNCHANGED <<binary, offset, lines>>

disasm_binary == disasm_rrr \/ disasm_rx \/ disasm_end

DisEnded == outcome # "running" /\ UNCHANGED disVars

DisNext == disasm_binary \/ DisEnded

DisSpec == DisInit /\ [][DisNext]_disVars

-----------------------------------------------------------------------------
(***************************************************************************)
(* What is listed at an address is what the emulator would execute there:  *)
(* the same fields, and data exactly where it stops with an error          *)
(* (disassembler.py:124-149 against vm.c:47-52 and instructions.h).        *)
(***************************************************************************)
ListsWhatRuns ==
  \A k \in 1..Len(lines) :
    LET l == lines[k]
        f == Fetched(Load(binary), l.at)
    IN  IF l.data THEN \A x \in f : x.label = "do_bad_op"
                  ELSE \E x \in f : x.i = l.i /\ x.label # "do_bad_op"

(***************************************************************************)
(* The listing has no gap: its lines, each as long as the step that the    *)
(* emulator takes over it, hold every word of the file, or else every word *)
(* before the first that the emulator would decode and the disassembler    *)
(* cannot, an EXP instruction or an RX instruction that the file cuts off; *)
(* there it ends with an exception (disassembler.py:127, 140), although    *)
(* README.md:225 has it take such words for data and go on.                *)
(***************************************************************************)
StepOver(x) == IF x.label \in RRRLabels THEN 1 ELSE 2

InLine(a) ==
  \E k \in 1..Len(lines) :
    lines[k].at <= a /\ a < lines[k].at + lines[k].size

Undecodable(a) ==
  \E w \in Peek(Load(binary), a) :
    \/ Dispatch(w) = "do_decode_exp"
    \/ /\ Dispatch(w) = "do_decode_rx" /\ RxDispatch(Sb(w)) # "do_bad_op"
       /\ a + 1 = Len(binary)

ListsUpToUndecodable ==
  /\ \A k \in 1..Len(lines) :
       /\ \A x \in Fetched(Load(binary), lines[k].at) : lines[k].size = StepOver(x)
       /\ lines[k].at + lines[k].size =
            IF k = Len(lines) THEN offset ELSE lines[k + 1].at
       /\ ~Undecodable(lines[k].at)
  /\ \A a \in 0..Len(binary) - 1 : InLine(a) <=> a < offset
  /\ outcome # "running" =>
       IF \A a \in 0..Len(binary) - 1 : InLine(a)
         THEN outcome = "done"
         ELSE outcome # "done" /\ Undecodable(offset)
=============================================================================
