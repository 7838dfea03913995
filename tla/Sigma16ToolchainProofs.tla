----------------------- MODULE Sigma16ToolchainProofs ------------------------
(***************************************************************************)
(* The three programs that know the format of an executable agree on it:   *)
(* the listing of the disassembler is what the emulator executes, for      *)
(* every file that fits the memory, and what the assembler writes is what  *)
(* it parsed, for every source.                                            *)
(***************************************************************************)
EXTENDS Sigma16Toolchain, Sigma16WordsProofs, FiniteSetTheorems,
        WellFoundedInduction

-----------------------------------------------------------------------------
(***************************************************************************)
(* The invariant: ListsWhatRuns and ListsUpToUndecodable, with the lines   *)
(* so far at places of a file that does not change.                        *)
(***************************************************************************)
(* What one line of the listing has to be, for ListsWhatRuns and the size. *)
Right(b, l) ==
  LET f == Fetched(Load(b), l.at)
  IN  /\ IF l.data THEN \A x \in f : x.label = "do_bad_op"
                   ELSE \E x \in f : x.i = l.i /\ x.label # "do_bad_op"
      /\ \A x \in f : l.size = StepOver(x)

Contiguous ==
  \A k \in 1..Len(lines) :
    lines[k].at + lines[k].size =
      IF k = Len(lines) THEN offset ELSE lines[k + 1].at

Covering ==
  /\ \A a \in Nat : a < offset => InLine(a)
  /\ \A k \in 1..Len(lines) :
       lines[k].at + lines[k].size <= offset /\ ~Undecodable(lines[k].at)

EndsWhereItMay ==
  /\ outcome = "done" => offset >= Len(binary)
  /\ outcome \in {"IndexError", "struct.error"} =>
       offset < Len(binary) /\ Undecodable(offset)

DisInv ==
  /\ binary \in Seq(Word) /\ Len(binary) <= MemWords
  /\ DisTypeOK
  /\ \A k \in 1..Len(lines) : Right(binary, lines[k])
  /\ Contiguous
  /\ Covering
  /\ EndsWhereItMay

LEMMA LineBounds ==
  ASSUME DisInv, NEW k \in 1..Len(lines)
  PROVE  /\ lines[k].at \in Nat /\ lines[k].size \in Nat
         /\ lines[k].at + lines[k].size <= offset /\ ~Undecodable(lines[k].at)
<1>1. lines \in Seq(Listed)
  BY DEF DisInv, DisTypeOK
<1>2. lines[k] \in Listed
  BY <1>1
<1>3. lines[k].at \in Nat /\ lines[k].size \in {1, 2}
  BY <1>2 DEF Listed
<1>4. lines[k].at + lines[k].size <= offset /\ ~Undecodable(lines[k].at)
  BY DEF DisInv, Covering
<1> QED BY <1>3, <1>4

(* A line that is appended keeps the invariant, if it is right. *)
LEMMA ListKeeps ==
  ASSUME DisInv, More,
         NEW size \in {1, 2}, NEW data \in BOOLEAN, NEW i \in Inst,
         Right(binary, [at |-> offset, size |-> size, data |-> data, i |-> i]),
         ~Undecodable(offset), List(size, data, i)
  PROVE  DisInv'
<1> DEFINE l == [at |-> offset, size |-> size, data |-> data, i |-> i]
<1>1. /\ binary' = binary /\ outcome' = outcome /\ outcome = "running"
      /\ offset' = offset + size /\ lines' = Append(lines, l)
  BY DEF List, More
<1>2. offset \in Nat /\ lines \in Seq(Listed) /\ l \in Listed
  BY DEF DisInv, DisTypeOK, Listed
<1>3. /\ Len(lines') = Len(lines) + 1 /\ Len(lines) \in Nat
      /\ lines'[Len(lines) + 1] = l
      /\ \A k \in 1..Len(lines) : lines'[k] = lines[k]
  BY <1>1, <1>2
<1>4. DisTypeOK'
  <2>1. lines' \in Seq(Listed)
    BY <1>1, <1>2
  <2>2. offset' \in Nat
    BY <1>1, <1>2
  <2> QED BY <1>1, <2>1, <2>2 DEF DisTypeOK
<1>5. \A k \in 1..Len(lines') : Right(binary', lines'[k])
  <2>1. Right(binary, l)
    OBVIOUS
  <2> HIDE DEF l
  <2>2. SUFFICES ASSUME NEW k \in 1..Len(lines')
                 PROVE  Right(binary, lines'[k])
    BY <1>1
  <2>3. CASE k = Len(lines) + 1
    <3>1. lines'[k] = l
      BY <2>3, <1>3
    <3> QED BY <3>1, <2>1
  <2>4. CASE k \in 1..Len(lines)
    <3>1. lines'[k] = lines[k]
      BY <2>4, <1>3
    <3> QED BY <3>1, <2>4 DEF DisInv
  <2> QED BY <2>2, <2>3, <2>4, <1>3
<1>6. Contiguous'
  <2>1. SUFFICES ASSUME NEW k \in 1..Len(lines')
                 PROVE  lines'[k].at + lines'[k].size =
                          IF k = Len(lines') THEN offset' ELSE lines'[k + 1].at
    BY DEF Contiguous
  <2>2. l.at = offset /\ l.size = size
    OBVIOUS
  <2> HIDE DEF l
  <2>3. CASE k = Len(lines) + 1
    BY <2>2, <2>3, <1>1, <1>3
  <2>4. CASE k = Len(lines)
    <3>1. lines[k].at + lines[k].size = offset
      BY <2>4, <1>3, <2>1 DEF DisInv, Contiguous
    <3> QED BY <3>1, <2>4, <2>2, <1>3, <2>1
  <2>5. CASE k < Len(lines)
    <3>1. k \in 1..Len(lines) /\ k + 1 \in 1..Len(lines) /\ k # Len(lines)
      BY <2>5, <2>1, <1>3
    <3>2. lines[k].at + lines[k].size = lines[k + 1].at
      BY <3>1 DEF DisInv, Contiguous
    <3> QED BY <3>1, <3>2, <2>5, <1>3, <2>1
  <2> QED BY <2>1, <2>3, <2>4, <2>5, <1>3
<1>7. Covering'
  <2>1. l.at = offset /\ l.size = size
    OBVIOUS
  <2> HIDE DEF l
  <2>2. \A k \in 1..Len(lines) :
          /\ lines[k].at \in Nat /\ lines[k].size \in Nat
          /\ lines[k].at + lines[k].size <= offset /\ ~Undecodable(lines[k].at)
    BY LineBounds
  <2>3. SUFFICES /\ \A a \in Nat : a < offset' => InLine(a)'
                 /\ \A k \in 1..Len(lines') :
                      /\ lines'[k].at + lines'[k].size <= offset'
                      /\ ~Undecodable(lines'[k].at)
    BY <1>1 DEF Covering, Undecodable
  <2>4. ASSUME NEW a \in Nat, a < offset' PROVE InLine(a)'
    <3>1. CASE a < offset
      <4>1. PICK k \in 1..Len(lines) :
              lines[k].at <= a /\ a < lines[k].at + lines[k].size
        BY <2>4, <3>1 DEF DisInv, Covering, InLine
      <4>2. k \in 1..Len(lines') /\ lines'[k] = lines[k]
        BY <1>3
      <4> QED BY <4>1, <4>2 DEF InLine
    <3>2. CASE ~(a < offset)
      <4>1. Len(lines) + 1 \in 1..Len(lines')
        BY <1>3
      <4>2. l.at <= a /\ a < l.at + l.size
        BY <2>1, <2>4, <3>2, <1>1, <1>2
      <4> QED BY <4>1, <4>2, <1>3 DEF InLine
    <3> QED BY <3>1, <3>2
  <2>5. ASSUME NEW k \in 1..Len(lines')
        PROVE  /\ lines'[k].at + lines'[k].size <= offset'
               /\ ~Undecodable(lines'[k].at)
    <3>1. CASE k = Len(lines) + 1
      <4>1. lines'[k] = l
        BY <3>1, <1>3
      <4> QED BY <4>1, <2>1, <1>1, <1>2
    <3>2. CASE k \in 1..Len(lines)
      <4>1. lines'[k] = lines[k]
        BY <3>2, <1>3
      <4> QED BY <4>1, <3>2, <2>2, <1>1, <1>2
    <3> QED BY <3>1, <3>2, <1>3
  <2> QED BY <2>3, <2>4, <2>5
<1>8. EndsWhereItMay'
  BY <1>1 DEF EndsWhereItMay
<1> QED BY <1>1, <1>4, <1>5, <1>6, <1>7, <1>8 DEF DisInv

(* An exception ends the sweep at a word that it may end at. *)
LEMMA RaiseKeeps ==
  ASSUME DisInv, More, Undecodable(offset),
         NEW e \in {"IndexError", "struct.error"}, Raise(e)
  PROVE  DisInv'
<1>1. UNCHANGED <<binary, offset, lines>> /\ outcome' = e /\ offset < Len(binary)
  BY DEF Raise, More
<1>2. EndsWhereItMay'
  BY <1>1 DEF EndsWhereItMay, Undecodable
<1> QED BY <1>1, <1>2 DEF DisInv, DisTypeOK, Contiguous, Covering, InLine, Undecodable

-----------------------------------------------------------------------------
(***************************************************************************)
(* The lines that the two cases of the sweep append.                       *)
(***************************************************************************)
(* What is known of the word at the offset. *)
LEMMA WordAtOffset ==
  ASSUME binary \in Seq(Word), offset \in Nat, More
  PROVE  LET w   == binary[offset + 1]
             raw == bswap_16(w)
         IN  /\ w \in Word
             /\ Len(binary) <= MemWords => Peek(Load(binary), offset) = {raw}
             /\ Op(raw) = opcode(offset) /\ opcode(offset) \in 0..15
             /\ Sb(raw) = split_byte(Byte2(offset)).low
             /\ InterpRRR(raw, 0) = decode_rrr_inst(offset)
             /\ InterpRRR(raw, 0) \in Inst
<1> DEFINE w   == binary[offset + 1]
           raw == bswap_16(w)
<1>1. offset < Len(binary) /\ Len(binary) \in Nat
  BY DEF More
<1>2. /\ w \in Word
      /\ Len(binary) <= MemWords => Peek(Load(binary), offset) = {raw}
  BY <1>1, ImageWord
<1>3. /\ Op(raw) = Byte1(offset) \div 16 /\ D(raw) = Byte1(offset) % 16
      /\ Sa(raw) = Byte2(offset) \div 16 /\ Sb(raw) = Byte2(offset) % 16
  BY <1>2, FieldsAreHalves DEF Byte1, Byte2
<1>4. InterpRRR(raw, 0) = decode_rrr_inst(offset)
  BY <1>3 DEF InterpRRR, decode_rrr_inst, opcode, split_byte
<1>5. 0 \in Word /\ raw \in Word
  BY <1>2, SwapWord, WordDef
<1>6. InterpRRR(raw, 0) \in Inst
  BY <1>5, InterpInst
<1>7. Op(raw) \in 0..15
  BY <1>6 DEF InterpRRR, Inst, Reg
<1> QED BY <1>2, <1>3, <1>4, <1>6, <1>7 DEF opcode, split_byte

LEMMA RrrKeeps ==
  ASSUME DisInv, disasm_rrr
  PROVE  DisInv'
<1>1. /\ More /\ opcode(offset) < 15
      /\ binary \in Seq(Word) /\ offset \in Nat /\ Len(binary) <= MemWords
  BY DEF disasm_rrr, DisInv, DisTypeOK
<1>2. CASE opcode(offset) = 14
  <2> DEFINE raw == bswap_16(binary[offset + 1])
  <2>1. Peek(Load(binary), offset) = {raw} /\ Op(raw) \in 0..15 /\ Op(raw) = 14
    BY <1>1, <1>2, WordAtOffset
  <2>2. Dispatch(raw) = "do_decode_exp"
    BY <2>1, DispatchLabel
  <2>3. Undecodable(offset)
    BY <2>1, <2>2 DEF Undecodable
  <2>4. Raise("IndexError")
    BY <1>2 DEF disasm_rrr
  <2> QED BY <1>1, <2>3, <2>4, RaiseKeeps
<1>3. CASE opcode(offset) # 14
  <2> DEFINE raw == bswap_16(binary[offset + 1])
             i   == decode_rrr_inst(offset)
             f   == Fetched(Load(binary), offset)
  <2>1. /\ Peek(Load(binary), offset) = {raw} /\ Op(raw) \in 0..15
        /\ Op(raw) < 14 /\ InterpRRR(raw, 0) = i /\ i \in Inst
    BY <1>1, <1>3, WordAtOffset
  <2>2. Dispatch(raw) \in RRRLabels
    BY <2>1, DispatchLabel
  <2>3. f = {[label |-> Dispatch(raw), i |-> i]}
    BY <2>1, <2>2, FetchedRRR
  <2>4. Dispatch(raw) # "do_bad_op"
    BY <2>2 DEF RRRLabels
  <2>5. List(1, FALSE, i)
    BY <1>1, <1>3 DEF disasm_rrr
  <2> HIDE DEF i, raw
  <2>6. /\ \A x \in f : StepOver(x) = 1
        /\ \E x \in f : x.i = i /\ x.label # "do_bad_op"
    BY <2>2, <2>3, <2>4 DEF StepOver
  <2> HIDE DEF f
  <2>7. Right(binary, [at |-> offset, size |-> 1, data |-> FALSE, i |-> i])
    BY <2>6 DEF Right, f
  <2>8. ~Undecodable(offset)
    BY <2>1, <2>2 DEF Undecodable, RRRLabels
  <2> QED BY <2>1, <2>5, <2>7, <2>8, <1>1, ListKeeps
<1> QED BY <1>2, <1>3

LEMMA RxKeeps ==
  ASSUME DisInv, disasm_rx
  PROVE  DisInv'
<1> DEFINE raw == bswap_16(binary[offset + 1])
           sb  == split_byte(Byte2(offset)).low
           f   == Fetched(Load(binary), offset)
<1>1. /\ More /\ opcode(offset) = 15
      /\ binary \in Seq(Word) /\ offset \in Nat /\ Len(binary) <= MemWords
  BY DEF disasm_rx, DisInv, DisTypeOK
<1>2. /\ Peek(Load(binary), offset) = {raw} /\ Op(raw) = 15 /\ Op(raw) \in 0..15
      /\ Sb(raw) = sb /\ raw \in Word
      /\ InterpRRR(raw, 0) = decode_rrr_inst(offset)
  BY <1>1, WordAtOffset, SwapWord
<1>3. Dispatch(raw) = "do_decode_rx"
  BY <1>2, DispatchLabel
<1>4. sb \in Reg
  BY <1>2, <1>1, WordAtOffset DEF InterpRRR, Inst
<1>5. f = {[label |-> RxDispatch(sb), i |-> InterpRX(raw, y)] :
             y \in Peek(Load(binary), offset + 1)}
  BY <1>2, <1>3, FetchedRX
<1>6. \A x \in f : x.label = RxDispatch(sb) /\ StepOver(x) = 2
  BY <1>4, <1>5, RxLabel DEF StepOver
<1>7. CASE sb > 8
  <2>1. List(2, TRUE, NoInst)
    BY <1>7, <1>1 DEF disasm_rx
  <2>2. NoInst \in Inst
    BY WordDef DEF NoInst, Inst, Reg
  <2>3. RxDispatch(sb) = "do_bad_op"
    BY <1>4, <1>7, RxLabel
  <2>4. Right(binary, [at |-> offset, size |-> 2, data |-> TRUE, i |-> NoInst])
    BY <1>6, <2>3 DEF Right
  <2>5. ~Undecodable(offset)
    BY <1>2, <1>3, <2>3 DEF Undecodable
  <2> QED BY <1>1, <2>1, <2>2, <2>4, <2>5, ListKeeps
<1>8. CASE ~(sb > 8) /\ offset + 1 = Len(binary)
  <2>1. RxDispatch(Sb(raw)) # "do_bad_op"
    BY <1>2, <1>4, <1>8, RxLabel
  <2>2. Undecodable(offset)
    BY <1>2, <1>3, <1>8, <2>1 DEF Undecodable
  <2>3. Raise("struct.error")
    BY <1>1, <1>8 DEF disasm_rx
  <2> QED BY <1>1, <2>2, <2>3, RaiseKeeps
<1>9. CASE ~(sb > 8) /\ offset + 1 # Len(binary)
  <2> DEFINE w2 == binary[offset + 2]
             i  == decode_rx_inst(offset)
  <2>1. List(2, FALSE, i)
    BY <1>9, <1>1 DEF disasm_rx
  <2>2. offset + 1 \in Nat /\ offset + 1 < Len(binary)
        /\ (offset + 1) + 1 = offset + 2
    <3>1. Len(binary) \in Nat
      BY <1>1
    <3> QED BY <1>1, <1>9, <3>1 DEF More
  <2>3. w2 \in Word /\ Peek(Load(binary), offset + 1) = {bswap_16(w2)}
    BY <1>1, <2>2, ImageWord
  <2>4. InterpRX(raw, bswap_16(w2)) = i
    <3>1. bswap_16(bswap_16(w2)) = w2
      BY <2>3, SwapTwice
    <3>2. InterpRX(raw, bswap_16(w2)) = InterpRRR(raw, w2)
      BY <3>1 DEF InterpRX
    <3>3. InterpRRR(raw, w2) = [InterpRRR(raw, 0) EXCEPT !.disp = w2]
      BY DEF InterpRRR
    <3> QED BY <3>2, <3>3, <1>2 DEF decode_rx_inst
  <2>5. i \in Inst
    BY <2>3, <2>4, <1>2, SwapWord, InterpInst
  <2>6. RxDispatch(sb) # "do_bad_op"
    BY <1>4, <1>9, RxLabel
  <2>7. \E x \in f : x.i = i
    <3>1. bswap_16(w2) \in Peek(Load(binary), offset + 1)
      BY <2>3
    <3>2. [label |-> RxDispatch(sb), i |-> i] \in f
      BY <1>5, <2>4, <3>1
    <3> QED BY <3>2
  <2> HIDE DEF i, f
  <2>8. Right(binary, [at |-> offset, size |-> 2, data |-> FALSE, i |-> i])
    BY <2>6, <2>7, <1>6 DEF Right, f
  <2>9. ~Undecodable(offset)
    BY <1>2, <1>3, <1>9 DEF Undecodable
  <2> QED BY <2>1, <2>5, <2>8, <2>9, <1>1, ListKeeps
<1> QED BY <1>7, <1>8, <1>9

-----------------------------------------------------------------------------
LEMMA NothingListed ==
  ASSUME offset = 0, lines = << >>, outcome = "running",
         binary \in Seq(Word), Len(binary) <= MemWords
  PROVE  DisInv
<1>1. \A S : << >> \in Seq(S)
  OBVIOUS
<1> QED BY <1>1 DEF DisInv, DisTypeOK, Contiguous, Covering, EndsWhereItMay

LEMMA DisInvInit == DisInit => DisInv
<1> SUFFICES ASSUME DisInit PROVE DisInv
  OBVIOUS
<1>1. binary \in Seq(Word) /\ Len(binary) <= MemWords
  BY StoreAssumption DEF DisInit
<1> QED BY <1>1, NothingListed DEF DisInit

LEMMA DisInvStutters ==
  ASSUME DisInv, UNCHANGED disVars
  PROVE  DisInv'
BY DEF disVars, DisInv, DisTypeOK, Contiguous, Covering, InLine, Undecodable,
       EndsWhereItMay

LEMMA DisInvStep == DisInv /\ [DisNext]_disVars => DisInv'
<1> SUFFICES ASSUME DisInv, [DisNext]_disVars PROVE DisInv'
  OBVIOUS
<1>1. CASE disasm_rrr
  BY <1>1, RrrKeeps
<1>2. CASE disasm_rx
  BY <1>2, RxKeeps
<1>3. CASE disasm_end
  BY <1>3 DEF disasm_end, DisInv, DisTypeOK, Contiguous, Covering, InLine,
              Undecodable, EndsWhereItMay
<1>4. CASE DisEnded \/ UNCHANGED disVars
  BY <1>4, DisInvStutters DEF DisEnded
<1> QED BY <1>1, <1>2, <1>3, <1>4 DEF DisNext, disasm_binary

LEMMA DisInvariant == DisSpec => []DisInv
BY DisInvInit, DisInvStep, PTL DEF DisSpec

(***************************************************************************)
(* The lines keep their types: every listed field is a register number or  *)
(* a word, for every file (disassembler.py:124-149).                       *)
(***************************************************************************)
THEOREM DisTypeCorrect == DisSpec => []DisTypeOK
<1>1. DisInv => DisTypeOK
  BY DEF DisInv
<1> QED BY <1>1, DisInvariant, PTL

(***************************************************************************)
(* What is listed at an address is what the emulator would execute there,  *)
(* for every file that fits the memory, whatever lies past the mapping     *)
(* (disassembler.py:124-149 against vm.c:47-52).                           *)
(***************************************************************************)
THEOREM ListingIsWhatRuns == DisSpec => []ListsWhatRuns
<1>1. DisInv => ListsWhatRuns
  BY DEF DisInv, Right, ListsWhatRuns
<1> QED BY <1>1, DisInvariant, PTL

LEMMA DisInvLists == DisInv => ListsUpToUndecodable
<1> SUFFICES ASSUME DisInv PROVE ListsUpToUndecodable
  OBVIOUS
<1>1. /\ offset \in Nat /\ Len(binary) \in Nat
      /\ outcome \in {"running", "done", "IndexError", "struct.error"}
  BY DEF DisInv, DisTypeOK
<1>2. \A k \in 1..Len(lines) :
        /\ \A x \in Fetched(Load(binary), lines[k].at) : lines[k].size = StepOver(x)
        /\ lines[k].at + lines[k].size =
             IF k = Len(lines) THEN offset ELSE lines[k + 1].at
        /\ ~Undecodable(lines[k].at)
  BY DEF DisInv, Right, Contiguous, Covering
<1>3. \A a \in 0..Len(binary) - 1 : InLine(a) <=> a < offset
  <2> SUFFICES ASSUME NEW a \in 0..Len(binary) - 1
               PROVE  InLine(a) <=> a < offset
    OBVIOUS
  <2>1. ASSUME InLine(a) PROVE a < offset
    <3>1. PICK k \in 1..Len(lines) :
            lines[k].at <= a /\ a < lines[k].at + lines[k].size
      BY <2>1 DEF InLine
    <3>2. lines[k].at \in Nat /\ lines[k].size \in Nat
          /\ lines[k].at + lines[k].size <= offset
      BY LineBounds
    <3> QED BY <3>1, <3>2, <1>1
  <2> QED BY <2>1, <1>1 DEF DisInv, Covering
<1>4. CASE offset >= Len(binary)
  <2>1. \A a \in 0..Len(binary) - 1 : InLine(a)
    BY <1>1, <1>3, <1>4
  <2>2. outcome # "running" => outcome = "done"
    BY <1>1, <1>4 DEF DisInv, EndsWhereItMay
  <2> QED BY <1>2, <1>3, <2>1, <2>2 DEF ListsUpToUndecodable
<1>5. CASE offset < Len(binary)
  <2>1. offset \in 0..Len(binary) - 1 /\ ~InLine(offset)
    BY <1>1, <1>3, <1>5
  <2>2. outcome # "running" => outcome # "done" /\ Undecodable(offset)
    BY <1>1, <1>5 DEF DisInv, EndsWhereItMay
  <2> QED BY <1>2, <1>3, <2>1, <2>2 DEF ListsUpToUndecodable
<1> QED BY <1>1, <1>4, <1>5

(***************************************************************************)
(* The listing of every file that fits the memory has no gap, in the steps *)
(* of the emulator, up to the end of the file or to the first word that    *)
(* the emulator decodes and the disassembler cannot; there, and nowhere    *)
(* else, the disassembler dies of an exception (disassembler.py:127, 140,  *)
(* 152-169).                                                               *)
(***************************************************************************)
THEOREM ListingUpToUndecodable == DisSpec => []ListsUpToUndecodable
<1>1. DisInv => ListsUpToUndecodable
  BY DisInvLists
<1> QED BY <1>1, DisInvariant, PTL

-----------------------------------------------------------------------------
(***************************************************************************)
(* The assembler.  Size(o, n) is the number of words of the first n of the *)
(* objects o.                                                              *)
(***************************************************************************)
Long(o, m, n) == {k \in m..n : sizeof(o[k]) = 2}

Size(o, n) == n + Cardinality(Long(o, 1, n))

LEMMA LongObjects ==
  ASSUME NEW o, NEW m \in Int, NEW n \in Int
  PROVE  IsFiniteSet(Long(o, m, n)) /\ Cardinality(Long(o, m, n)) \in Nat
<1>1. IsFiniteSet(m..n) /\ Long(o, m, n) \in SUBSET (m..n)
  BY FS_Interval DEF Long
<1>2. IsFiniteSet(Long(o, m, n))
  BY <1>1, FS_Subset
<1> QED BY <1>2, FS_CardinalityType

LEMMA SizeSplits ==
  ASSUME NEW o, NEW m \in Nat, NEW n \in Nat, m <= n
  PROVE  /\ Size(o, m) \in Nat
         /\ Size(o, n) = Size(o, m) + (n - m) + Cardinality(Long(o, m + 1, n))
         /\ Size(o, m) <= Size(o, n)
<1>1. /\ Long(o, 1, n) = Long(o, 1, m) \cup Long(o, m + 1, n)
      /\ Long(o, 1, m) \cap Long(o, m + 1, n) = {}
  BY DEF Long
<1>2. /\ IsFiniteSet(Long(o, 1, m)) /\ IsFiniteSet(Long(o, m + 1, n))
      /\ Cardinality(Long(o, 1, m)) \in Nat
      /\ Cardinality(Long(o, m + 1, n)) \in Nat
  <2>1. m \in Int /\ n \in Int /\ 1 \in Int /\ m + 1 \in Int
    OBVIOUS
  <2> QED BY <2>1, LongObjects
<1>3. Cardinality(Long(o, 1, n))
        = Cardinality(Long(o, 1, m)) + Cardinality(Long(o, m + 1, n))
          - Cardinality({})
  BY <1>1, <1>2, FS_Union
<1>4. Cardinality({}) = 0
  BY FS_EmptySet
<1> QED BY <1>2, <1>3, <1>4 DEF Size

LEMMA SizeOfNone ==
  ASSUME NEW o
  PROVE  Size(o, 0) = 0
<1>1. Long(o, 1, 0) = {}
  BY DEF Long
<1> QED BY <1>1, FS_EmptySet DEF Size

LEMMA SizeOfOne ==
  ASSUME NEW o
  PROVE  sizeof(o) \in {1, 2} /\ (o.kind = "RX" <=> sizeof(o) = 2)
BY DEF sizeof

LEMMA SizeOfNext ==
  ASSUME NEW o, NEW n \in Nat
  PROVE  Size(o, n + 1) = Size(o, n) + sizeof(o[n + 1])
<1> DEFINE T == Long(o, n + 1, n + 1)
<1>1. Size(o, n) \in Nat /\ Size(o, n + 1) = Size(o, n) + ((n + 1) - n) + Cardinality(T)
  BY SizeSplits
<1>2. CASE sizeof(o[n + 1]) = 2
  <2>1. T = {} \cup {n + 1}
    BY <1>2 DEF Long
  <2>2. Cardinality(T) = 1
    BY <2>1, FS_EmptySet, FS_AddElement
  <2> QED BY <1>1, <1>2, <2>2
<1>3. CASE sizeof(o[n + 1]) # 2
  <2>1. T = {}
    BY <1>3 DEF Long
  <2>2. Cardinality(T) = 0
    BY <2>1, FS_EmptySet
  <2>3. sizeof(o[n + 1]) = 1
    BY <1>3 DEF sizeof
  <2> QED BY <1>1, <2>2, <2>3
<1> QED BY <1>2, <1>3

(* The size depends on nothing but the sizes. *)
LEMMA SizeSame ==
  ASSUME NEW o, NEW p, NEW n, \A k \in 1..n : sizeof(o[k]) = sizeof(p[k])
  PROVE  Size(o, n) = Size(p, n)
BY DEF Size, Long

-----------------------------------------------------------------------------
(***************************************************************************)
(* The offsets of the labels.                                              *)
(***************************************************************************)
LEMMA Least ==
  ASSUME NEW T \in SUBSET Nat, T # {}
  PROVE  \E x \in T : \A y \in T : x <= y
<1>1. PICK R : IsWellFoundedOn(R, Nat) /\ \A x, y \in Nat : y < x => <<y, x>> \in R
  <2> DEFINE R == OpToRel(<, Nat)
  <2>1. IsWellFoundedOn(R, Nat)
    BY NatLessThanWellFounded, Zenon
  <2>2. \A x, y \in Nat : y < x => <<y, x>> \in R
    BY DEF OpToRel
  <2> HIDE DEF R
  <2> QED BY <2>1, <2>2
<1>2. PICK x \in T : \A y \in T : ~ (<<y, x>> \in R)
  BY <1>1, WFMin
<1>3. \A y \in T : ~ (y < x)
  BY <1>1, <1>2
<1> QED BY <1>3

(* A property of 0 that goes on from n to n + 1 has every number. *)
LEMMA Inductive ==
  ASSUME NEW S \in SUBSET Nat, 0 \in S, \A n \in S : n + 1 \in S
  PROVE  S = Nat
<1> SUFFICES ASSUME Nat \ S # {} PROVE FALSE
  OBVIOUS
<1>1. PICK x \in Nat \ S : \A y \in Nat \ S : x <= y
  BY Least
<1>2. x # 0 /\ x - 1 \in Nat /\ x - 1 \in S
  BY <1>1
<1>3. (x - 1) + 1 = x
  BY <1>1
<1> QED BY <1>1, <1>2, <1>3

LabelsOrdered ==
  \A j, k \in 1..Len(labels) :
    /\ labels[k].obj_offset <= Len(objs)
    /\ labels[k].name # NoRef
    /\ j <= k => labels[j].obj_offset <= labels[k].obj_offset
    /\ labels[j].name = labels[k].name => j = k

(* The sum that goes on from label to label is the size of all before it. *)
LEMMA OffsetIsSize ==
  ASSUME labels \in Seq(LabelBody), LabelsOrdered,
         NEW k \in 1..Len(labels)
  PROVE  calc_label_offset(k) = Size(objs, labels[k].obj_offset)
<1> DEFINE at(j)    == IF j = 0 THEN 0 ELSE labels[j].obj_offset
           next(f, j) == IF j = 0 THEN 0
                         ELSE LET prev == IF j = 1 THEN 0 ELSE labels[j - 1].obj_offset
                              IN  f[j - 1] + Words(prev + 1, labels[j].obj_offset)
           off == CHOOSE f : f = [j \in 0..k |-> next(f, j)]
           sum == [j \in 0..k |-> Size(objs, at(j))]
<1>1. /\ k \in Nat
      /\ \A j \in 0..k : at(j) \in Nat
      /\ \A j \in 1..k : at(j - 1) <= at(j)
  <2>1. \A j \in 1..Len(labels) : labels[j].obj_offset \in Nat
    <3>1. \A l \in LabelBody : l.obj_offset \in Nat
      BY DEF LabelBody
    <3>2. \A j \in 1..Len(labels) : labels[j] \in LabelBody
      OBVIOUS
    <3> QED BY <3>1, <3>2
  <2>2. Len(labels) \in Nat /\ k \in Nat
    OBVIOUS
  <2>3. ASSUME NEW j \in 1..k, j # 1
        PROVE  labels[j - 1].obj_offset <= labels[j].obj_offset
    <3>1. j - 1 \in 1..Len(labels) /\ j \in 1..Len(labels) /\ j - 1 <= j
      BY <2>2, <2>3
    <3> QED BY <3>1 DEF LabelsOrdered
  <2> QED BY <2>1, <2>2, <2>3
<1>2. \A j \in 1..k :
        Size(objs, at(j)) = Size(objs, at(j - 1)) + Words(at(j - 1) + 1, at(j))
  <2> SUFFICES ASSUME NEW j \in 1..k
               PROVE  Size(objs, at(j))
                        = Size(objs, at(j - 1)) + Words(at(j - 1) + 1, at(j))
    OBVIOUS
  <2>1. at(j - 1) \in Nat /\ at(j) \in Nat /\ at(j - 1) <= at(j)
    <3>1. j - 1 \in 0..k /\ j \in 0..k
      BY <1>1
    <3> QED BY <1>1, <3>1
  <2> HIDE DEF at
  <2>2. PICK m \in Nat, n \in Nat : m = at(j - 1) /\ n = at(j) /\ m <= n
    BY <2>1
  <2>3. /\ Size(objs, m) \in Nat
        /\ Size(objs, n) = Size(objs, m) + (n - m) + Cardinality(Long(objs, m + 1, n))
    BY <2>2, SizeSplits
  <2>4. Cardinality(Long(objs, m + 1, n)) \in Nat
    <3>1. m + 1 \in Int /\ n \in Int
      OBVIOUS
    <3> QED BY <3>1, LongObjects
  <2>5. Words(m + 1, n) = (n - m) + Cardinality(Long(objs, m + 1, n))
    BY <2>4 DEF Words, Long
  <2>6. Size(objs, n) = Size(objs, m) + Words(m + 1, n)
    BY <2>3, <2>4, <2>5
  <2> QED BY <2>2, <2>6
<1>3. sum = [j \in 0..k |-> next(sum, j)]
  <2> SUFFICES ASSUME NEW j \in 0..k
               PROVE  Size(objs, at(j)) = next(sum, j)
    BY Zenon
  <2>1. CASE j = 0
    BY <2>1, SizeOfNone
  <2>2. CASE j # 0
    <3>1. j \in 1..k /\ j - 1 \in 0..k
      BY <2>2
    <3>2. sum[j - 1] = Size(objs, at(j - 1))
      BY <3>1
    <3>3. at(j - 1) = IF j = 1 THEN 0 ELSE labels[j - 1].obj_offset
      BY <3>1
    <3> QED BY <2>2, <3>1, <3>2, <3>3, <1>2
  <2> QED BY <2>1, <2>2
<1>4. off = [j \in 0..k |-> next(off, j)]
  BY <1>3
<1>5. calc_label_offset(k) = off[k]
  BY DEF calc_label_offset
<1> HIDE DEF off
<1>6. \A j \in Nat : j <= k => off[j] = Size(objs, at(j))
  <2> DEFINE S == {j \in Nat : j <= k => off[j] = Size(objs, at(j))}
  <2>1. 0 \in S
    BY <1>4, SizeOfNone
  <2>2. ASSUME NEW j \in S PROVE j + 1 \in S
    <3> SUFFICES ASSUME j + 1 <= k PROVE off[j + 1] = Size(objs, at(j + 1))
      OBVIOUS
    <3>1. j \in Nat /\ j + 1 \in 1..k /\ (j + 1) - 1 = j /\ j <= k
      OBVIOUS
    <3>2. off[j] = Size(objs, at(j))
      BY <3>1
    <3>3. off[j + 1] = off[j] + Words(at(j) + 1, at(j + 1))
      BY <1>4, <3>1
    <3>4. Size(objs, at(j + 1)) = Size(objs, at(j)) + Words(at(j) + 1, at(j + 1))
      BY <1>2, <3>1
    <3> QED BY <3>2, <3>3, <3>4
  <2>3. S \in SUBSET Nat
    OBVIOUS
  <2> HIDE DEF S
  <2>4. S = Nat
    BY <2>1, <2>2, <2>3, Inductive
  <2> QED BY <2>4 DEF S
<1>7. k \in Nat /\ k # 0 /\ k <= k
  OBVIOUS
<1> QED BY <1>5, <1>6, <1>7

-----------------------------------------------------------------------------
(***************************************************************************)
(* The invariant of the assembler.                                         *)
(***************************************************************************)
(* The objects of mnemonics have the opcodes of the table. *)
Parsed == {o \in Object : /\ o.kind = "RRR" => o.op <= 13
                          /\ o.kind = "RX" => o.op <= 8}

(* Object n was written where the sizes before it put it. *)
Placed(n) ==
  LET o == objs[n]
      a == starts[n]
  IN  /\ a = Size(objs, n - 1) /\ a + sizeof(o) <= Len(file)
      /\ file[a + 1] = Encoded(o)[1]
      /\ o.kind = "RX" => file[a + 2] = U16(o.value)

Layout ==
  /\ Len(starts) <= Len(objs)
  /\ Len(file) = Size(objs, Len(starts))
  /\ \A n \in 1..Len(starts) : Placed(n)

Linked ==
  \A n \in 1..Len(objs), k \in 1..Len(labels) :
    objs[n].ref = labels[k].name =>
      objs[n].value = Size(objs, labels[k].obj_offset)

AsmInv ==
  /\ source \in Seq(Line)
  /\ objs \in Seq(Parsed)
  /\ labels \in Seq(LabelBody)
  /\ errors \in BOOLEAN
  /\ file \in Seq(Word) /\ starts \in Seq(Nat)
  /\ status \in {"parsing", "writing", "done", "failed"}
  /\ LabelsOrdered
  /\ Layout
  /\ status = "parsing" => file = << >> /\ starts = << >>
  /\ status \in {"writing", "done"} => Linked
  /\ status = "done" => Len(starts) = Len(objs)

LEMMA ParseNumericInt ==
  ASSUME NEW t \in Token
  PROVE  parse_numeric(t) \in Int
<1> DEFINE ok == {k \in 1..5 : t.reads[k] # None}
<1>1. t.reads \in [1..5 -> Int]
  BY DEF Token
<1>2. CASE ok = {}
  BY <1>2 DEF parse_numeric, None
<1>3. CASE ok # {}
  <2>1. ok \in SUBSET (1..5) /\ ok \in SUBSET Nat
    OBVIOUS
  <2> HIDE DEF ok
  <2>2. \E k \in ok : \A j \in ok : k <= j
    BY <1>3, <2>1, Least
  <2>3. PICK k \in ok : k = CHOOSE i \in ok : \A j \in ok : i <= j
    BY <2>2
  <2>4. parse_numeric(t) = t.reads[k]
    BY <1>3, <2>3 DEF parse_numeric, ok
  <2> QED BY <1>1, <2>1, <2>4
<1> QED BY <1>2, <1>3

LEMMA ParsedObject ==
  ASSUME NEW l \in Line, l.kind \in {"RRR", "RX", "MOV", "DATA"}
  PROVE  parse_instruction(l) \in Parsed
<1>1. /\ l.op \in Reg /\ l.d \in Reg /\ l.sa \in Reg /\ l.sb \in Reg
      /\ l.token \in Token /\ l.token.text \in STRING
      /\ l.kind = "RRR" => l.op <= 13
      /\ l.kind \in {"RX", "MOV"} => l.op <= 8
  BY DEF Line, Token
<1>2. PICK v \in Int : v = parse_numeric(l.token)
  BY <1>1, ParseNumericInt
<1> DEFINE r == IF l.kind = "RX" /\ v = None THEN l.token.text ELSE NoRef
           w == IF v = None THEN 0 ELSE v
           kind == IF l.kind = "MOV" THEN "RX" ELSE l.kind
<1>3. r \in STRING \cup {NoRef} /\ w \in Int /\ kind \in {"RRR", "RX", "DATA"}
  BY <1>1
<1>4. parse_instruction(l) = [kind |-> kind, op |-> l.op, d |-> l.d, sa |-> l.sa,
                              sb |-> l.sb, ref |-> r, value |-> w]
  BY <1>2 DEF parse_instruction
<1>5. /\ kind = "RRR" => l.op <= 13
      /\ kind = "RX" => l.op <= 8
  BY <1>1
<1> HIDE DEF r, w, kind
<1> QED BY <1>1, <1>3, <1>4, <1>5 DEF Parsed, Object

LEMMA HalvesOfFields ==
  ASSUME NEW op \in Reg, NEW d \in Reg, NEW sa \in Reg, NEW sb \in Reg
  PROVE  LET w == RRRWord(op, d, sa, sb)
         IN  /\ w \in Word
             /\ (w \div 256) \div 16 = op /\ (w \div 256) % 16 = d
             /\ (w % 256) \div 16 = sa /\ (w % 256) % 16 = sb
BY FourFields DEF RRRWord, FieldsWord

(* An object becomes as many words as it is long. *)
LEMMA EncodedWords ==
  ASSUME NEW o \in Parsed
  PROVE  /\ Encoded(o) \in Seq(Word) /\ Len(Encoded(o)) = sizeof(o)
         /\ o.kind = "RX" => Encoded(o)[2] = U16(o.value)
<1>1. /\ o.op \in Reg /\ o.d \in Reg /\ o.sa \in Reg /\ o.sb \in Reg
      /\ o.value \in Int /\ o.kind \in {"RRR", "RX", "DATA"}
  BY DEF Parsed, Object
<1>2. U16(o.value) \in Word
  BY <1>1, U16Word
<1>3. /\ RRRWord(o.op, o.d, o.sa, o.sb) \in Word
      /\ RRRWord(15, o.d, o.sa, o.op) \in Word
  <2>1. 15 \in Reg
    BY DEF Reg
  <2> QED BY <1>1, <2>1, HalvesOfFields
<1>4. CASE o.kind = "RRR"
  BY <1>3, <1>4 DEF Encoded, sizeof, RRR
<1>5. CASE o.kind = "RX"
  BY <1>2, <1>3, <1>5 DEF Encoded, sizeof, RX
<1>6. CASE o.kind = "DATA"
  BY <1>2, <1>6 DEF Encoded, sizeof
<1> QED BY <1>1, <1>4, <1>5, <1>6

-----------------------------------------------------------------------------
LEMMA AsmInvInit == AsmInit => AsmInv
<1> SUFFICES ASSUME AsmInit PROVE AsmInv
  OBVIOUS
<1>1. /\ source \in Seq(Line) /\ objs = << >> /\ labels = << >>
      /\ errors = FALSE /\ file = << >> /\ starts = << >> /\ status = "parsing"
  BY SourcesAssumption DEF AsmInit
<1>2. LabelsOrdered
  BY <1>1 DEF LabelsOrdered
<1>3. Layout
  BY <1>1, SizeOfNone DEF Layout
<1>4. \A S : << >> \in Seq(S)
  OBVIOUS
<1>5. /\ objs \in Seq(Parsed) /\ labels \in Seq(LabelBody)
      /\ file \in Seq(Word) /\ starts \in Seq(Nat)
  BY <1>1, <1>4
<1>6. status # "writing" /\ status # "done"
  BY <1>1
<1> QED BY <1>1, <1>2, <1>3, <1>5, <1>6 DEF AsmInv

(* A new label is defined at the end, and its name is new. *)
LEMMA LabelKeepsOrder ==
  ASSUME AsmInv, NEW name \in STRING, name # NoRef, name \notin Defined,
         labels' = Append(labels, [name |-> name, obj_offset |-> Len(objs)]),
         objs' = objs
  PROVE  labels' \in Seq(LabelBody) /\ LabelsOrdered'
<1> DEFINE b == [name |-> name, obj_offset |-> Len(objs)]
           n == Len(labels) + 1
<1>1. b \in LabelBody /\ b.name = name /\ b.obj_offset = Len(objs)
      /\ Len(objs) \in Nat /\ labels \in Seq(LabelBody)
  BY DEF AsmInv, LabelBody
<1>2. labels' = Append(labels, b)
  OBVIOUS
<1> HIDE DEF b
<1>3. /\ labels' \in Seq(LabelBody) /\ Len(labels') = n /\ labels'[n] = b
      /\ Len(labels) \in Nat
      /\ \A k \in 1..Len(labels) : labels'[k] = labels[k]
  BY <1>1, <1>2
<1>4. \A k \in 1..Len(labels) : labels[k].name # name
  BY DEF Defined
<1>5. \A j, k \in 1..Len(labels) :
        /\ labels[k].obj_offset <= Len(objs)
        /\ labels[k].name # NoRef
        /\ j <= k => labels[j].obj_offset <= labels[k].obj_offset
        /\ labels[j].name = labels[k].name => j = k
  BY DEF AsmInv, LabelsOrdered
<1>6. ASSUME NEW j \in 1..n, NEW k \in 1..n
      PROVE  /\ labels'[k].obj_offset <= Len(objs')
             /\ labels'[k].name # NoRef
             /\ j <= k => labels'[j].obj_offset <= labels'[k].obj_offset
             /\ labels'[j].name = labels'[k].name => j = k
  <2>1. CASE k = n /\ j = n
    BY <1>1, <1>3, <2>1
  <2>2. CASE k = n /\ j # n
    <3>1. j \in 1..Len(labels)
      BY <1>3, <2>2
    <3> QED BY <1>1, <1>3, <1>4, <1>5, <2>2, <3>1
  <2>3. CASE k # n /\ j = n
    <3>1. k \in 1..Len(labels) /\ ~ (j <= k)
      BY <1>3, <2>3
    <3> QED BY <1>1, <1>3, <1>4, <1>5, <2>3, <3>1
  <2>4. CASE k # n /\ j # n
    <3>1. j \in 1..Len(labels) /\ k \in 1..Len(labels)
      BY <1>3, <2>4
    <3> QED BY <1>3, <1>5, <3>1
  <2> QED BY <2>1, <2>2, <2>3, <2>4
<1> QED BY <1>3, <1>6 DEF LabelsOrdered

LEMMA ParseKeeps ==
  ASSUME AsmInv, parse_lines
  PROVE  AsmInv'
<1> DEFINE l == Head(source)
<1>1. /\ source # << >> /\ source' = Tail(source) /\ status = "parsing"
      /\ file' = file /\ starts' = starts /\ file = << >> /\ starts = << >>
  BY DEF parse_lines, AsmInv
<1>2. l \in Line /\ source' \in Seq(Line)
  BY <1>1 DEF AsmInv
<1>3. /\ errors' \in BOOLEAN
      /\ status' \in {"parsing", "failed"}
  <2>1. errors' = (errors \/ ParserErrorIn(l))
    BY Zenon DEF parse_lines
  <2>2. status' = "failed" \/ status' = status
    BY Zenon DEF parse_lines
  <2> QED BY <1>1, <2>1, <2>2 DEF AsmInv
<1>4. \/ objs' = objs /\ labels' = labels
      \/ /\ l.kind \in {"RRR", "RX", "MOV", "DATA"} /\ labels' = labels
         /\ objs' = Append(objs, parse_instruction(l))
      \/ /\ l.kind = "label" /\ l.token.text \notin Defined /\ objs' = objs
         /\ labels' = Append(labels, [name |-> l.token.text, obj_offset |-> Len(objs)])
  BY DEF parse_lines
<1>5. objs \in Seq(Parsed) /\ labels \in Seq(LabelBody) /\ LabelsOrdered
  BY DEF AsmInv
<1>6. /\ objs' \in Seq(Parsed)
      /\ labels' \in Seq(LabelBody)
      /\ LabelsOrdered'
  <2>1. CASE objs' = objs /\ labels' = labels
    BY <1>5, <2>1 DEF LabelsOrdered
  <2>2. CASE /\ l.kind \in {"RRR", "RX", "MOV", "DATA"} /\ labels' = labels
             /\ objs' = Append(objs, parse_instruction(l))
    <3>1. parse_instruction(l) \in Parsed
      BY <1>2, <2>2, ParsedObject
    <3>2. objs' \in Seq(Parsed) /\ Len(objs') = Len(objs) + 1 /\ Len(objs) \in Nat
      BY <1>5, <2>2, <3>1
    <3>3. \A k \in 1..Len(labels) : labels[k].obj_offset \in Nat
      <4>1. \A b \in LabelBody : b.obj_offset \in Nat
        BY DEF LabelBody
      <4> QED BY <1>5, <4>1
    <3>4. \A k \in 1..Len(labels) : labels[k].obj_offset <= Len(objs')
      BY <1>5, <3>2, <3>3 DEF LabelsOrdered
    <3> QED BY <1>5, <2>2, <3>2, <3>4 DEF LabelsOrdered
  <2>3. CASE /\ l.kind = "label" /\ l.token.text \notin Defined /\ objs' = objs
             /\ labels' = Append(labels, [name |-> l.token.text, obj_offset |-> Len(objs)])
    <3>1. l.token.text \in STRING /\ l.token.text # NoRef
      BY <1>2 DEF Line, Token
    <3>2. labels' \in Seq(LabelBody) /\ LabelsOrdered'
      BY <2>3, <3>1, LabelKeepsOrder
    <3> QED BY <1>5, <2>3, <3>2
  <2> QED BY <1>4, <2>1, <2>2, <2>3
<1>7. Layout'
  BY <1>1, <1>6, SizeOfNone DEF Layout
<1> QED BY <1>1, <1>2, <1>3, <1>6, <1>7 DEF AsmInv

(* A reference is replaced by the size of what is before its label. *)
LEMMA ResolveObject ==
  ASSUME AsmInv, NEW o \in Parsed, o.ref \in Defined \cup {NoRef}
  PROVE  /\ Resolve(o) \in Parsed
         /\ Resolve(o).kind = o.kind /\ Resolve(o).ref = o.ref
         /\ \A k \in 1..Len(labels) :
              o.ref = labels[k].name =>
                Resolve(o).value = Size(objs, labels[k].obj_offset)
<1>1. labels \in Seq(LabelBody) /\ LabelsOrdered
  BY DEF AsmInv
<1>2. CASE o.ref = NoRef
  BY <1>1, <1>2 DEF Resolve, LabelsOrdered
<1>3. CASE o.ref # NoRef
  <2>1. PICK j \in 1..Len(labels) : labels[j].name = o.ref
    BY <1>3 DEF Defined
  <2>2. \A k \in 1..Len(labels) : labels[k].name = o.ref => k = j
    BY <1>1, <2>1 DEF LabelsOrdered
  <2>3. (CHOOSE k \in 1..Len(labels) : labels[k].name = o.ref) = j
    BY <2>1, <2>2
  <2>4. PICK v : v = calc_label_offset(j)
    OBVIOUS
  <2>5. Resolve(o) = [o EXCEPT !.value = v]
    BY <1>3, <2>3, <2>4 DEF Resolve
  <2>6. v = Size(objs, labels[j].obj_offset)
    BY <1>1, <2>4, OffsetIsSize
  <2>7. v \in Int
    <3>1. labels[j].obj_offset \in Nat
      <4>1. labels[j] \in LabelBody
        BY <1>1
      <4> QED BY <4>1 DEF LabelBody
    <3>2. Size(objs, labels[j].obj_offset) \in Nat
      BY <3>1, SizeSplits
    <3> QED BY <2>6, <3>2
  <2>8. /\ Resolve(o) \in Parsed /\ Resolve(o).kind = o.kind
        /\ Resolve(o).ref = o.ref /\ Resolve(o).value = v
    BY <2>5, <2>7 DEF Parsed, Object
  <2> QED BY <2>2, <2>6, <2>8
<1> QED BY <1>2, <1>3

LEMMA LinkKeeps ==
  ASSUME AsmInv, link
  PROVE  AsmInv'
<1>1. /\ status = "parsing" /\ file' = file /\ starts' = starts
      /\ file = << >> /\ starts = << >>
      /\ source' = source /\ labels' = labels /\ errors' = errors
  BY DEF link, AsmInv
<1>2. CASE status' = "failed" /\ objs' = objs
  BY <1>1, <1>2 DEF AsmInv, LabelsOrdered, Layout, Placed
<1>3. CASE /\ status' = "writing"
           /\ objs' = [k \in 1..Len(objs) |-> Resolve(objs[k])]
           /\ \A k \in 1..Len(objs) : objs[k].ref \in Defined \cup {NoRef}
  <2>1. objs \in Seq(Parsed) /\ labels \in Seq(LabelBody) /\ LabelsOrdered
    BY DEF AsmInv
  <2>2. Len(objs) \in Nat /\ \A k \in 1..Len(objs) : objs[k] \in Parsed
    BY <2>1
  <2>3. \A n \in 1..Len(objs) :
          /\ Resolve(objs[n]) \in Parsed
          /\ Resolve(objs[n]).kind = objs[n].kind
          /\ Resolve(objs[n]).ref = objs[n].ref
          /\ \A k \in 1..Len(labels) :
               objs[n].ref = labels[k].name =>
                 Resolve(objs[n]).value = Size(objs, labels[k].obj_offset)
    BY <1>3, <2>2, ResolveObject
  <2>4. /\ objs' \in Seq(Parsed) /\ Len(objs') = Len(objs)
        /\ \A n \in 1..Len(objs) : objs'[n] = Resolve(objs[n])
    BY <1>3, <2>2, <2>3
  <2>5. \A k \in 1..Len(labels) :
          Size(objs', labels[k].obj_offset) = Size(objs, labels[k].obj_offset)
    <3> SUFFICES ASSUME NEW k \in 1..Len(labels)
                 PROVE  Size(objs', labels[k].obj_offset)
                          = Size(objs, labels[k].obj_offset)
      OBVIOUS
    <3>1. labels[k].obj_offset \in Nat /\ labels[k].obj_offset <= Len(objs)
      <4>1. labels[k] \in LabelBody
        BY <2>1
      <4> QED BY <2>1, <4>1 DEF LabelBody, LabelsOrdered
    <3>2. PICK n \in Nat : n = labels[k].obj_offset /\ n <= Len(objs)
      BY <3>1
    <3>3. \A i \in 1..n : sizeof(objs'[i]) = sizeof(objs[i])
      BY <2>2, <2>3, <2>4, <3>2 DEF sizeof
    <3> QED BY <3>2, <3>3, SizeSame
  <2>6. Linked'
    BY <1>1, <2>3, <2>4, <2>5 DEF Linked
  <2>7. LabelsOrdered'
    BY <1>1, <2>1, <2>4 DEF LabelsOrdered
  <2>8. Layout'
    BY <1>1, <2>2, <2>4, SizeOfNone DEF Layout
  <2> QED BY <1>1, <1>3, <2>1, <2>4, <2>6, <2>7, <2>8 DEF AsmInv
<1> QED BY <1>2, <1>3 DEF link

LEMMA WriteKeeps ==
  ASSUME AsmInv, write_code
  PROVE  AsmInv'
<1> DEFINE o == objs[Len(starts) + 1]
           e == Encoded(o)
<1>k. PICK k : k = Len(starts) + 1
  OBVIOUS
<1>1. /\ status = "writing" /\ source' = source /\ objs' = objs
      /\ labels' = labels /\ errors' = errors /\ Linked
  BY DEF write_code, AsmInv
<1>2. /\ objs \in Seq(Parsed) /\ file \in Seq(Word) /\ starts \in Seq(Nat)
      /\ Layout /\ Len(objs) \in Nat /\ Len(starts) \in Nat /\ Len(file) \in Nat
  BY DEF AsmInv
<1>3. LabelsOrdered' /\ Linked'
  BY <1>1 DEF AsmInv, LabelsOrdered, Linked
<1>4. CASE k > Len(objs) /\ status' = "done" /\ file' = file /\ starts' = starts
  <2>1. Len(starts) = Len(objs)
    BY <1>2, <1>4, <1>k DEF Layout
  <2> QED BY <1>1, <1>2, <1>3, <1>4, <2>1 DEF AsmInv, Layout, Placed
<1>5. CASE status' = "failed" /\ file' = file /\ starts' = starts
  BY <1>1, <1>2, <1>3, <1>5 DEF AsmInv, Layout, Placed
<1>6. CASE /\ ~ (k > Len(objs)) /\ status' = status
           /\ file' = file \o e /\ starts' = Append(starts, Len(file))
  <2>1. k \in 1..Len(objs) /\ o \in Parsed /\ k - 1 = Len(starts)
        /\ k \in Nat /\ o = objs[k]
    BY <1>2, <1>6, <1>k
  <2>2. /\ e \in Seq(Word) /\ Len(e) = sizeof(o) /\ sizeof(o) \in {1, 2}
        /\ o.kind = "RX" <=> sizeof(o) = 2
        /\ o.kind = "RX" => e[2] = U16(o.value)
    BY <2>1, EncodedWords, SizeOfOne
  <2> HIDE DEF o
  <2>3. /\ starts' \in Seq(Nat) /\ Len(starts') = k /\ starts'[k] = Len(file)
        /\ \A n \in 1..Len(starts) : starts'[n] = starts[n]
    BY <1>2, <1>6, <1>k
  <2> HIDE DEF e
  <2>4. /\ file' \in Seq(Word) /\ Len(file') = Len(file) + sizeof(o)
        /\ \A i \in 1..Len(file) : file'[i] = file[i]
        /\ \A i \in 1..Len(e) : file'[Len(file) + i] = e[i]
    BY <1>2, <1>6, <2>2
  <2>5. Len(file') = Size(objs, k)
    <3>1. Size(objs, Len(starts) + 1) = Size(objs, Len(starts)) + sizeof(objs[Len(starts) + 1])
      BY <1>2, SizeOfNext
    <3> QED BY <1>2, <1>k, <2>1, <2>4, <3>1 DEF Layout
  <2>6. ASSUME NEW n \in 1..Len(starts)
        PROVE  Placed(n)'
    <3>1. PICK a, s : a = starts[n] /\ s = sizeof(objs[n])
      OBVIOUS
    <3>2. a \in Nat /\ s \in {1, 2} /\ (objs[n].kind = "RX" <=> s = 2)
      BY <1>2, <3>1, SizeOfOne
    <3>3. /\ a + s <= Len(file)
          /\ a = Size(objs, n - 1) /\ file[a + 1] = Encoded(objs[n])[1]
          /\ objs[n].kind = "RX" => file[a + 2] = U16(objs[n].value)
      BY <1>2, <3>1 DEF Layout, Placed
    <3>4. a + 1 \in 1..Len(file) /\ (s = 2 => a + 2 \in 1..Len(file))
      BY <1>2, <3>2, <3>3
    <3>5. a + s <= Len(file')
      BY <1>2, <2>2, <2>4, <3>2, <3>3
    <3> QED BY <1>1, <2>3, <2>4, <3>1, <3>2, <3>3, <3>4, <3>5 DEF Placed
  <2>7. Placed(k)'
    <3>1. Len(file) = Size(objs, k - 1)
      BY <1>2, <2>1 DEF Layout
    <3>2. 1 \in 1..Len(e) /\ (o.kind = "RX" => 2 \in 1..Len(e))
      BY <2>2
    <3>3. /\ file'[Len(file) + 1] = e[1]
          /\ o.kind = "RX" => file'[Len(file) + 2] = e[2]
      BY <2>4, <3>2
    <3>4. Len(file) + sizeof(o) <= Len(file')
      BY <1>2, <2>2, <2>4
    <3> QED BY <1>1, <2>1, <2>2, <2>3, <3>1, <3>3, <3>4 DEF Placed, e
  <2>8. Layout'
    <3>1. \A n \in 1..k : n \in 1..Len(starts) \/ n = k
      BY <1>2, <1>k
    <3>2. \A n \in 1..k : Placed(n)'
      BY <2>6, <2>7, <3>1
    <3> QED BY <1>1, <2>1, <2>3, <2>5, <3>2 DEF Layout
  <2> QED BY <1>1, <1>2, <1>3, <1>6, <2>3, <2>4, <2>8 DEF AsmInv
<1> QED BY <1>4, <1>5, <1>6, <1>k DEF write_code

-----------------------------------------------------------------------------
LEMMA AsmInvStep == AsmInv /\ [AsmNext]_asmVars => AsmInv'
<1> SUFFICES ASSUME AsmInv, [AsmNext]_asmVars PROVE AsmInv'
  OBVIOUS
<1>1. CASE UNCHANGED asmVars
  BY <1>1 DEF asmVars, AsmInv, LabelsOrdered, Layout, Placed, Linked
<1> QED BY <1>1, ParseKeeps, LinkKeeps, WriteKeeps DEF AsmNext

LEMMA AsmInvTypes == AsmInv => AsmTypeOK
<1> SUFFICES ASSUME AsmInv PROVE objs \in Seq(Object)
  BY DEF AsmInv, AsmTypeOK
<1>1. objs \in Seq(Parsed) /\ \A o \in Parsed : o \in Object
  BY DEF AsmInv, Parsed
<1> QED BY <1>1

(* The targets are the sizes, once everything is written. *)
LEMMA AsmInvResolves == AsmInv => LabelsResolve
<1> SUFFICES ASSUME AsmInv, status = "done",
                    NEW n \in 1..Len(objs), NEW k \in 1..Len(labels),
                    objs[n].ref = labels[k].name
             PROVE  objs[n].value = Target(k)
  BY DEF LabelsResolve
<1>1. /\ Linked /\ Layout /\ LabelsOrdered /\ Len(starts) = Len(objs)
      /\ Len(starts) \in Nat
  BY DEF AsmInv
<1>2. PICK m : m = labels[k].obj_offset
  OBVIOUS
<1>3. m \in Nat /\ m <= Len(starts)
  <2>1. labels[k] \in LabelBody
    BY DEF AsmInv
  <2> QED BY <1>1, <1>2, <2>1 DEF LabelBody, LabelsOrdered
<1>4. objs[n].value = Size(objs, m)
  BY <1>1, <1>2 DEF Linked
<1>5. CASE m < Len(starts)
  <2>1. m + 1 \in 1..Len(starts) /\ (m + 1) - 1 = m
    BY <1>1, <1>3, <1>5
  <2>2. starts[m + 1] = Size(objs, m)
    BY <1>1, <2>1 DEF Layout, Placed
  <2> QED BY <1>2, <1>4, <1>5, <2>2 DEF Target
<1>6. CASE m = Len(starts)
  BY <1>1, <1>2, <1>4, <1>6 DEF Layout, Target
<1> QED BY <1>1, <1>3, <1>5, <1>6

-----------------------------------------------------------------------------
(***************************************************************************)
(* The words of an instruction, taken apart again.                         *)
(***************************************************************************)
(* The first word of an instruction holds its fields. *)
LEMMA HeadOfObject ==
  ASSUME NEW o \in Parsed, o.kind # "DATA"
  PROVE  LET w == Encoded(o)[1]
         IN  /\ w \in Word
             /\ <<(w \div 256) \div 16, (w \div 256) % 16,
                  (w % 256) \div 16, (w % 256) % 16>>
                  = IF o.kind = "RRR" THEN <<o.op, o.d, o.sa, o.sb>>
                                      ELSE <<15, o.d, o.sa, o.op>>
<1>1. /\ o.op \in Reg /\ o.d \in Reg /\ o.sa \in Reg /\ o.sb \in Reg
      /\ o.kind \in {"RRR", "RX"} /\ 15 \in Reg
  BY DEF Parsed, Object, Reg
<1>2. CASE o.kind = "RRR"
  <2>1. Encoded(o)[1] = RRRWord(o.op, o.d, o.sa, o.sb)
    BY <1>2 DEF Encoded, RRR
  <2> QED BY <1>1, <1>2, <2>1, HalvesOfFields
<1>3. CASE o.kind = "RX"
  <2>1. Encoded(o)[1] = RRRWord(15, o.d, o.sa, o.op)
    BY <1>3 DEF Encoded, RX
  <2> QED BY <1>1, <1>3, <2>1, HalvesOfFields
<1> QED BY <1>1, <1>2, <1>3

LEMMA AsmInvEncodes == AsmInv => EncodesForInterpreter
<1> SUFFICES ASSUME AsmInv, status = "done", Len(file) <= MemWords,
                    NEW n \in 1..Len(objs), objs[n].kind # "DATA"
             PROVE  \E f \in Fetched(Load(file), starts[n]) :
                      IsDecodedAs(objs[n], f)
  BY DEF EncodesForInterpreter
<1>1. PICK o \in Parsed : o = objs[n] /\ o.kind \in {"RRR", "RX"}
  <2>1. objs[n] \in Parsed
    BY DEF AsmInv
  <2> QED BY <2>1 DEF Parsed, Object
<1>2. /\ file \in Seq(Word) /\ Len(file) \in Nat
      /\ n \in 1..Len(starts) /\ starts[n] \in Nat /\ Placed(n)
  BY DEF AsmInv, Layout
<1>3. PICK a \in Nat : /\ a = starts[n] /\ a + sizeof(o) <= Len(file)
                       /\ file[a + 1] = Encoded(o)[1]
                       /\ o.kind = "RX" => file[a + 2] = U16(o.value)
  BY <1>1, <1>2 DEF Placed
<1>4. a < Len(file) /\ (o.kind = "RX" => a + 1 < Len(file))
  BY <1>2, <1>3, SizeOfOne
<1>5. PICK w \in Word, raw \in Word :
        /\ w = Encoded(o)[1] /\ raw = bswap_16(w)
        /\ Peek(Load(file), a) = {raw}
        /\ Op(raw) = (w \div 256) \div 16 /\ D(raw) = (w \div 256) % 16
        /\ Sa(raw) = (w % 256) \div 16 /\ Sb(raw) = (w % 256) % 16
  <2>1. PICK w \in Word : w = file[a + 1] /\ Peek(Load(file), a) = {bswap_16(w)}
    BY <1>2, <1>4, ImageWord
  <2>2. bswap_16(w) \in Word
    BY SwapWord
  <2> QED BY <1>3, <2>1, <2>2, FieldsAreHalves
<1>6. <<Op(raw), D(raw), Sa(raw), Sb(raw)>>
        = IF o.kind = "RRR" THEN <<o.op, o.d, o.sa, o.sb>>
                            ELSE <<15, o.d, o.sa, o.op>>
  BY <1>1, <1>5, HeadOfObject
<1>7. o.op \in Reg /\ (o.kind = "RRR" => o.op <= 13)
  BY DEF Parsed, Object
<1>8. CASE o.kind = "RRR"
  <2>1. Op(raw) = o.op /\ Op(raw) \in 0..15 /\ Op(raw) < 14
    BY <1>6, <1>7, <1>8 DEF Reg
  <2>2. Dispatch(raw) \in RRRLabels
    BY <2>1, DispatchLabel
  <2>3. [label |-> Dispatch(raw), i |-> InterpRRR(raw, 0)] \in Fetched(Load(file), a)
    BY <1>5, <2>2, FetchedRRR
  <2>4. FieldsOf(InterpRRR(raw, 0)) = <<o.op, o.d, o.sa, o.sb>>
    BY <1>6, <1>8 DEF FieldsOf, InterpRRR
  <2> QED BY <1>1, <1>3, <1>8, <2>3, <2>4 DEF IsDecodedAs
<1>9. CASE o.kind = "RX"
  <2>1. Op(raw) = 15
    BY <1>6, <1>9
  <2>2. Dispatch(raw) = "do_decode_rx"
    BY <2>1, DispatchLabel
  <2>3. PICK v \in Word : v = U16(o.value) /\ Peek(Load(file), a + 1) = {bswap_16(v)}
    <3>1. PICK b \in Nat : b = a + 1 /\ b < Len(file) /\ b + 1 = a + 2
      BY <1>4, <1>9
    <3>2. file[b + 1] \in Word /\ Peek(Load(file), b) = {bswap_16(file[b + 1])}
      BY <1>2, <3>1, ImageWord
    <3> QED BY <1>3, <1>9, <3>1, <3>2
  <2>4. [label |-> RxDispatch(Sb(raw)), i |-> InterpRX(raw, bswap_16(v))]
          \in Fetched(Load(file), a)
    BY <1>5, <2>2, <2>3, FetchedRX
  <2>5. bswap_16(bswap_16(v)) = v
    BY SwapTwice
  <2>6. /\ FieldsOf(InterpRX(raw, bswap_16(v))) = <<15, o.d, o.sa, o.op>>
        /\ InterpRX(raw, bswap_16(v)).disp = U16(o.value)
    BY <1>6, <1>9, <2>3, <2>5 DEF FieldsOf, InterpRX, InterpRRR
  <2> QED BY <1>1, <1>3, <1>9, <2>4, <2>6 DEF IsDecodedAs
<1> QED BY <1>1, <1>8, <1>9

-----------------------------------------------------------------------------
(***************************************************************************)
(* The listing of an assembled file.                                       *)
(***************************************************************************)
(* There is no data among the first n objects. *)
Plain(n) == \A m \in 1..n : m <= Len(objs) => objs[m].kind # "DATA"

(* The sweep is as far as the lines say, and they echo the objects. *)
Echo ==
  /\ Plain(Len(lines)) => /\ Len(lines) <= Len(starts)
                          /\ offset = Size(objs, Len(lines))
  /\ \A n \in 1..Len(lines) :
       Plain(n) => /\ n <= Len(starts)
                   /\ lines[n].at = starts[n] /\ ~ lines[n].data
                   /\ IsDecodedAs(objs[n], lines[n])

Untouched == binary = << >> /\ lines = << >> /\ offset = 0 /\ outcome = "running"

ToolInv ==
  /\ AsmInv
  /\ DisTypeOK
  /\ Untouched \/ (AsmEnded /\ binary = file)
  /\ Len(binary) <= MemWords => DisInv
  /\ Echo

LEMMA SweepTyped ==
  ASSUME binary \in Seq(Word), DisTypeOK, disasm_binary
  PROVE  DisTypeOK'
<1>1. offset \in Nat /\ lines \in Seq(Listed)
  BY DEF DisTypeOK
<1>2. ASSUME NEW size \in {1, 2}, NEW data \in BOOLEAN, NEW i \in Inst,
             List(size, data, i)
      PROVE  DisTypeOK'
  <2> DEFINE l == [at |-> offset, size |-> size, data |-> data, i |-> i]
  <2>1. l \in Listed
    BY <1>1 DEF Listed
  <2>2. lines' = Append(lines, l) /\ offset' = offset + size /\ outcome' = outcome
    BY <1>2 DEF List
  <2> HIDE DEF l
  <2>3. lines' \in Seq(Listed) /\ offset' \in Nat
    BY <1>1, <2>1, <2>2
  <2> QED BY <2>2, <2>3 DEF DisTypeOK
<1>3. ASSUME NEW e \in {"IndexError", "struct.error"}, Raise(e)
      PROVE  DisTypeOK'
  BY <1>3 DEF Raise, DisTypeOK
<1>4. CASE disasm_rrr
  <2>1. More /\ decode_rrr_inst(offset) \in Inst
    BY <1>1, <1>4, WordAtOffset DEF disasm_rrr
  <2> QED BY <1>2, <1>3, <1>4, <2>1 DEF disasm_rrr
<1>5. CASE disasm_rx
  <2>1. More /\ decode_rrr_inst(offset) \in Inst
    BY <1>1, <1>5, WordAtOffset DEF disasm_rx
  <2>2. NoInst \in Inst
    BY WordDef DEF NoInst, Inst, Reg
  <2>3. offset + 1 # Len(binary) => decode_rx_inst(offset) \in Inst
    <3>1. offset + 1 # Len(binary) => binary[offset + 2] \in Word
      BY <1>1, <2>1 DEF More
    <3> QED BY <2>1, <3>1 DEF decode_rx_inst, Inst
  <2> QED BY <1>2, <1>3, <1>5, <2>2, <2>3 DEF disasm_rx
<1>6. CASE disasm_end
  BY <1>6 DEF disasm_end, DisTypeOK
<1> QED BY <1>4, <1>5, <1>6 DEF disasm_binary

(* A line keeps the echo if it lists the next object, when all is plain. *)
LEMMA EchoKeeps ==
  ASSUME ToolInv, AsmEnded, binary = file, More, UNCHANGED asmVars,
         NEW size \in {1, 2}, NEW data \in BOOLEAN, NEW i, List(size, data, i),
         Plain(Len(lines) + 1) =>
           /\ Len(lines) + 1 <= Len(starts)
           /\ offset = starts[Len(lines) + 1] /\ ~ data
           /\ size = sizeof(objs[Len(lines) + 1])
           /\ IsDecodedAs(objs[Len(lines) + 1],
                          [at |-> offset, size |-> size, data |-> data, i |-> i])
  PROVE  Echo'
<1> DEFINE l == [at |-> offset, size |-> size, data |-> data, i |-> i]
<1>k. PICK k : k = Len(lines) + 1
  OBVIOUS
<1>1. /\ offset \in Nat /\ lines \in Seq(Listed) /\ Len(lines) \in Nat /\ k \in Nat
      /\ lines' = Append(lines, l) /\ offset' = offset + size
  BY <1>k DEF ToolInv, DisTypeOK, List
<1>2. l.at = offset /\ l.data = data
  OBVIOUS
<1>3. Plain(k) => /\ k <= Len(starts) /\ offset = starts[k] /\ ~ data
                  /\ size = sizeof(objs[k]) /\ IsDecodedAs(objs[k], l)
  BY <1>k
<1> HIDE DEF l
<1>4. /\ Len(lines') = k /\ lines'[k] = l
      /\ \A n \in 1..Len(lines) : lines'[n] = lines[n]
  BY <1>1, <1>k
<1>5. objs' = objs /\ starts' = starts /\ \A n : Plain(n)' <=> Plain(n)
  BY DEF asmVars, Plain
<1>6. Plain(k) => offset' = Size(objs, k)
  <2> SUFFICES ASSUME Plain(k) PROVE offset' = Size(objs, k)
    OBVIOUS
  <2>1. Plain(Len(lines))
    BY <1>1, <1>k DEF Plain
  <2>2. offset = Size(objs, Len(lines))
    BY <2>1 DEF ToolInv, Echo
  <2>3. Size(objs, Len(lines) + 1) = Size(objs, Len(lines)) + sizeof(objs[Len(lines) + 1])
    BY <1>1, SizeOfNext
  <2> QED BY <1>1, <1>3, <1>k, <2>2, <2>3
<1>7. ASSUME NEW n \in 1..k, Plain(n)
      PROVE  /\ n <= Len(starts)
             /\ lines'[n].at = starts[n] /\ ~ lines'[n].data
             /\ IsDecodedAs(objs[n], lines'[n])
  <2>1. CASE n = k
    BY <1>2, <1>3, <1>4, <1>7, <2>1
  <2>2. CASE n # k
    <3>1. n \in 1..Len(lines)
      BY <1>1, <1>k, <2>2
    <3> QED BY <1>4, <1>7, <3>1 DEF ToolInv, Echo
  <2> QED BY <2>1, <2>2
<1> QED BY <1>3, <1>4, <1>5, <1>6, <1>7 DEF Echo, IsDecodedAs

(* As long as all is plain, the next object is at the offset. *)
LEMMA NextObject ==
  ASSUME ToolInv, AsmEnded, binary = file, More, Plain(Len(lines) + 1)
  PROVE  \E o \in Parsed :
           /\ o = objs[Len(lines) + 1] /\ o.kind \in {"RRR", "RX"}
           /\ Len(lines) + 1 <= Len(starts)
           /\ offset = starts[Len(lines) + 1]
           /\ FieldsOf(decode_rrr_inst(offset))
                = IF o.kind = "RRR" THEN <<o.op, o.d, o.sa, o.sb>>
                                    ELSE <<15, o.d, o.sa, o.op>>
           /\ o.kind = "RX" => /\ binary[offset + 2] = U16(o.value)
                               /\ offset + 1 # Len(binary)
<1>1. /\ Len(lines) \in Nat /\ offset \in Nat /\ Layout
      /\ Len(starts) \in Nat /\ Len(objs) \in Nat
      /\ Len(file) \in Nat /\ objs \in Seq(Parsed)
  BY DEF ToolInv, DisTypeOK, AsmInv
<1>2. PICK k \in Nat : k = Len(lines) + 1 /\ k - 1 = Len(lines) /\ k >= 1
  BY <1>1
<1>3. Plain(Len(lines))
  BY <1>1 DEF Plain
<1>4. Len(lines) <= Len(starts) /\ offset = Size(objs, Len(lines))
  BY <1>3 DEF ToolInv, Echo
<1>5. Len(lines) # Len(starts)
  <2>1. offset < Size(objs, Len(starts))
    BY DEF More, ToolInv, AsmInv, Layout
  <2> QED BY <1>1, <1>4, <2>1
<1>6. k \in 1..Len(starts) /\ k \in 1..Len(objs)
  BY <1>1, <1>2, <1>4, <1>5 DEF Layout
<1>7. Placed(k)
  BY <1>1, <1>6 DEF Layout
<1>8. PICK o \in Parsed : o = objs[k] /\ o.kind \in {"RRR", "RX"}
  <2>1. objs[k] \in Parsed
    BY <1>1, <1>6
  <2>2. objs[k].kind # "DATA"
    BY <1>1, <1>2, <1>6 DEF Plain
  <2> QED BY <2>1, <2>2 DEF Parsed, Object
<1>9. /\ offset = starts[k] /\ binary[offset + 1] = Encoded(o)[1]
      /\ offset + sizeof(o) <= Len(file)
      /\ o.kind = "RX" => binary[offset + 2] = U16(o.value)
  BY <1>2, <1>4, <1>7, <1>8 DEF Placed
<1>10. FieldsOf(decode_rrr_inst(offset))
         = IF o.kind = "RRR" THEN <<o.op, o.d, o.sa, o.sb>>
                             ELSE <<15, o.d, o.sa, o.op>>
  <2>1. PICK w : w = binary[offset + 1]
    OBVIOUS
  <2>2. FieldsOf(decode_rrr_inst(offset))
          = <<(w \div 256) \div 16, (w \div 256) % 16,
              (w % 256) \div 16, (w % 256) % 16>>
    BY <2>1 DEF FieldsOf, decode_rrr_inst, opcode, split_byte, Byte1, Byte2
  <2> QED BY <1>8, <1>9, <2>1, <2>2, HeadOfObject
<1>11. o.kind = "RX" => offset + 1 # Len(binary)
  <2> SUFFICES ASSUME o.kind = "RX" PROVE offset + 1 # Len(binary)
    OBVIOUS
  <2>1. sizeof(o) = 2
    BY SizeOfOne
  <2> QED BY <1>1, <1>9, <2>1
<1>12. /\ o = objs[Len(lines) + 1] /\ Len(lines) + 1 <= Len(starts)
       /\ offset = starts[Len(lines) + 1]
  BY <1>2, <1>6, <1>8, <1>9
<1> QED BY <1>8, <1>9, <1>10, <1>11, <1>12, Zenon

LEMMA SweepEchoes ==
  ASSUME ToolInv, AsmEnded, binary = file, disasm_binary, UNCHANGED asmVars
  PROVE  Echo'
<1>1. CASE lines' = lines /\ offset' = offset
  BY <1>1 DEF ToolInv, Echo, Plain, asmVars, IsDecodedAs
<1>2. CASE More /\ opcode(offset) < 15 /\ List(1, FALSE, decode_rrr_inst(offset))
  <2> DEFINE i == decode_rrr_inst(offset)
             l == [at |-> offset, size |-> 1, data |-> FALSE, i |-> i]
  <2>1. ASSUME Plain(Len(lines) + 1)
        PROVE  /\ Len(lines) + 1 <= Len(starts)
               /\ offset = starts[Len(lines) + 1]
               /\ 1 = sizeof(objs[Len(lines) + 1])
               /\ IsDecodedAs(objs[Len(lines) + 1], l)
    <3>1. PICK o \in Parsed :
            /\ o = objs[Len(lines) + 1] /\ o.kind \in {"RRR", "RX"}
            /\ Len(lines) + 1 <= Len(starts)
            /\ offset = starts[Len(lines) + 1]
            /\ FieldsOf(i) = IF o.kind = "RRR" THEN <<o.op, o.d, o.sa, o.sb>>
                                               ELSE <<15, o.d, o.sa, o.op>>
      BY <1>2, <2>1, NextObject
    <3>2. opcode(offset) = FieldsOf(i)[1]
      BY DEF FieldsOf, decode_rrr_inst
    <3>3. o.kind = "RRR"
      BY <1>2, <3>1, <3>2
    <3>4. l.i = i
      OBVIOUS
    <3> HIDE DEF i, l
    <3> QED BY <3>1, <3>3, <3>4 DEF IsDecodedAs, sizeof
  <2> HIDE DEF i
  <2> QED BY <1>2, <2>1, EchoKeeps DEF i
<1>3. CASE /\ More /\ opcode(offset) = 15 /\ split_byte(Byte2(offset)).low > 8
           /\ List(2, TRUE, NoInst)
  <2>1. ~ Plain(Len(lines) + 1)
    <3> SUFFICES ASSUME Plain(Len(lines) + 1) PROVE FALSE
      OBVIOUS
    <3>1. PICK o \in Parsed :
            /\ o.kind \in {"RRR", "RX"}
            /\ FieldsOf(decode_rrr_inst(offset))
                 = IF o.kind = "RRR" THEN <<o.op, o.d, o.sa, o.sb>>
                                     ELSE <<15, o.d, o.sa, o.op>>
      BY <1>3, NextObject
    <3>2. /\ opcode(offset) = FieldsOf(decode_rrr_inst(offset))[1]
          /\ split_byte(Byte2(offset)).low = FieldsOf(decode_rrr_inst(offset))[4]
      BY DEF FieldsOf, decode_rrr_inst
    <3>3. /\ o.op \in Reg /\ (o.kind = "RRR" => o.op <= 13)
          /\ (o.kind = "RX" => o.op <= 8)
      BY DEF Parsed, Object
    <3> QED BY <1>3, <3>1, <3>2, <3>3 DEF Reg
  <2> QED BY <1>3, <2>1, EchoKeeps
<1>4. CASE /\ More /\ opcode(offset) = 15
           /\ List(2, FALSE, decode_rx_inst(offset))
  <2> DEFINE j == decode_rrr_inst(offset)
             i == decode_rx_inst(offset)
             l == [at |-> offset, size |-> 2, data |-> FALSE, i |-> i]
  <2>1. ASSUME Plain(Len(lines) + 1)
        PROVE  /\ Len(lines) + 1 <= Len(starts)
               /\ offset = starts[Len(lines) + 1]
               /\ 2 = sizeof(objs[Len(lines) + 1])
               /\ IsDecodedAs(objs[Len(lines) + 1], l)
    <3>1. PICK o \in Parsed :
            /\ o = objs[Len(lines) + 1] /\ o.kind \in {"RRR", "RX"}
            /\ Len(lines) + 1 <= Len(starts)
            /\ offset = starts[Len(lines) + 1]
            /\ FieldsOf(j) = IF o.kind = "RRR" THEN <<o.op, o.d, o.sa, o.sb>>
                                               ELSE <<15, o.d, o.sa, o.op>>
            /\ o.kind = "RX" => binary[offset + 2] = U16(o.value)
      BY <1>4, <2>1, NextObject
    <3>2. opcode(offset) = FieldsOf(j)[1]
      BY DEF FieldsOf, decode_rrr_inst
    <3>3. o.op \in Reg /\ (o.kind = "RRR" => o.op <= 13)
      BY DEF Parsed, Object
    <3>4. o.kind = "RX"
      BY <1>4, <3>1, <3>2, <3>3 DEF Reg
    <3>5. FieldsOf(i) = FieldsOf(j) /\ i.disp = binary[offset + 2]
      BY DEF FieldsOf, decode_rx_inst, decode_rrr_inst
    <3>6. l.i = i
      OBVIOUS
    <3> HIDE DEF i, j, l
    <3> QED BY <3>1, <3>4, <3>5, <3>6 DEF IsDecodedAs, sizeof
  <2> HIDE DEF i
  <2> QED BY <1>4, <2>1, EchoKeeps DEF i
<1> QED BY <1>1, <1>2, <1>3, <1>4
        DEF disasm_binary, disasm_rrr, disasm_rx, disasm_end, Raise

-----------------------------------------------------------------------------
LEMMA ToolInvInit == ToolchainInit => ToolInv
<1> SUFFICES ASSUME ToolchainInit PROVE ToolInv
  OBVIOUS
<1>1. /\ binary = << >> /\ offset = 0 /\ lines = << >> /\ outcome = "running"
      /\ starts = << >> /\ AsmInv
  BY AsmInvInit DEF ToolchainInit, AsmInit
<1>2. \A S : << >> \in Seq(S)
  OBVIOUS
<1>3. DisTypeOK
  BY <1>1, <1>2 DEF DisTypeOK
<1>4. Len(binary) <= MemWords => DisInv
  BY <1>1, <1>2, NothingListed
<1>5. Echo
  BY <1>1, SizeOfNone DEF Echo
<1> QED BY <1>1, <1>3, <1>4, <1>5 DEF ToolInv, Untouched

LEMMA ToolInvStep == ToolInv /\ [ToolchainNext]_toolVars => ToolInv'
<1> SUFFICES ASSUME ToolInv, [ToolchainNext]_toolVars PROVE ToolInv'
  OBVIOUS
<1>1. CASE UNCHANGED toolVars
  <2>1. UNCHANGED asmVars /\ UNCHANGED disVars
    BY <1>1 DEF toolVars
  <2>2. AsmInv'
    BY <2>1, AsmInvStep DEF ToolInv
  <2>3. Len(binary') <= MemWords => DisInv'
    BY <2>1, DisInvStutters DEF ToolInv, disVars
  <2> QED BY <2>1, <2>2, <2>3 DEF ToolInv, asmVars, disVars, DisTypeOK, Untouched,
             AsmEnded, Echo, Plain, IsDecodedAs
<1>2. CASE AsmNext /\ UNCHANGED disVars
  <2>1. AsmInv'
    BY <1>2, AsmInvStep DEF ToolInv
  <2>2. Untouched
    BY <1>2 DEF ToolInv, AsmEnded, AsmNext, parse_lines, link, write_code
  <2>3. Untouched'
    BY <1>2, <2>2 DEF Untouched, disVars
  <2>4. Echo'
    BY <2>1, <2>3, SizeOfNone DEF Echo, Untouched, AsmInv
  <2>5. Len(binary') <= MemWords => DisInv'
    BY <1>2, DisInvStutters DEF ToolInv, disVars
  <2> QED BY <1>2, <2>1, <2>3, <2>4, <2>5 DEF ToolInv, disVars, DisTypeOK
<1>3. CASE open
  <2>1. Untouched /\ UNCHANGED <<asmVars, offset, lines, outcome>>
        /\ AsmEnded /\ binary' = file
    BY <1>3 DEF open, ToolInv
  <2>2. AsmInv'
    BY <2>1, AsmInvStep DEF ToolInv
  <2>3. DisTypeOK' /\ binary' \in Seq(Word)
    BY <2>1 DEF ToolInv, DisTypeOK, AsmInv
  <2>4. DisInv' \/ ~ (Len(binary') <= MemWords)
    <3>1. lines' = << >> /\ offset' = 0 /\ outcome' = "running"
      BY <2>1 DEF Untouched
    <3> QED BY <3>1, <2>3 DEF DisInv, DisTypeOK, Contiguous, Covering, EndsWhereItMay
  <2>5. Echo'
    BY <2>1 DEF ToolInv, Echo, Plain, asmVars, IsDecodedAs
  <2> QED BY <2>1, <2>2, <2>3, <2>4, <2>5 DEF ToolInv, AsmEnded, asmVars
<1>4. CASE sweep
  <2>1. AsmEnded /\ binary = file /\ disasm_binary /\ UNCHANGED asmVars
    BY <1>4 DEF sweep
  <2>2. AsmInv'
    BY <2>1, AsmInvStep DEF ToolInv
  <2>3. binary' = binary
    BY <2>1 DEF disasm_binary, disasm_rrr, disasm_rx, disasm_end, List, Raise
  <2>4. DisTypeOK'
    BY <2>1, SweepTyped DEF ToolInv, AsmInv
  <2>5. Len(binary') <= MemWords => DisInv'
    BY <2>1, <2>3, DisInvStep DEF ToolInv, DisNext
  <2>6. Echo'
    BY <2>1, SweepEchoes
  <2> QED BY <2>1, <2>2, <2>3, <2>4, <2>5, <2>6 DEF ToolInv, AsmEnded, asmVars
<1>5. CASE AsmEnded /\ DisEnded /\ UNCHANGED asmVars
  BY <1>1, <1>5 DEF DisEnded, toolVars
<1> QED BY <1>1, <1>2, <1>3, <1>4, <1>5 DEF ToolchainNext

LEMMA ToolInvariant == ToolchainSpec => []ToolInv
BY ToolInvInit, ToolInvStep, PTL DEF ToolchainSpec

(***************************************************************************)
(* The assembler keeps its types for every source: the words of the file,  *)
(* the offsets of the labels and the operands that replace references      *)
(* (assembler.py:291-369).                                                 *)
(***************************************************************************)
THEOREM AsmTypeCorrect == ToolchainSpec => []AsmTypeOK
<1>1. ToolInv => AsmTypeOK
  BY AsmInvTypes DEF ToolInv
<1> QED BY <1>1, ToolInvariant, PTL

(***************************************************************************)
(* Label references are the addresses at which the objects were written,   *)
(* for any number of lines, labels and references, forward and backward    *)
(* (calc_label_offset, assembler.py:336-342, whose running sum is the size *)
(* of all objects before the label).                                       *)
(***************************************************************************)
THEOREM LabelsAreAddresses == ToolchainSpec => []LabelsResolve
<1>1. ToolInv => LabelsResolve
  BY AsmInvResolves DEF ToolInv
<1> QED BY <1>1, ToolInvariant, PTL

(***************************************************************************)
(* The emulator decodes every instruction of an assembled file that fits   *)
(* into its memory as the assembler parsed it (assembler.py:358-369,       *)
(* instructions.h).                                                        *)
(***************************************************************************)
THEOREM EncodingIsDecoded == ToolchainSpec => []EncodesForInterpreter
<1>1. ToolInv => EncodesForInterpreter
  BY AsmInvEncodes DEF ToolInv
<1> QED BY <1>1, ToolInvariant, PTL

(***************************************************************************)
(* The disassembler lists the source of an assembled file up to its first  *)
(* data, of every length, also when the assembler stopped in the middle    *)
(* (disassembler.py:124-169).                                              *)
(***************************************************************************)
THEOREM ListingIsSource == ToolchainSpec => []RoundTrip
<1>1. ToolInv => RoundTrip
  BY DEF ToolInv, Echo, Plain, RoundTrip
<1> QED BY <1>1, ToolInvariant, PTL

(***************************************************************************)
(* What the assembler wrote is listed as it runs, if it fits into the      *)
(* memory: without a gap to its end, or to the first word met that reads   *)
(* as an EXP instruction or, as the last of the file, an RX instruction.   *)
(***************************************************************************)
THEOREM AssembledUpToUndecodable ==
  ToolchainSpec =>
    [](Len(file) <= MemWords => ListsWhatRuns /\ ListsUpToUndecodable)
<1>1. ToolInv =>
        (Len(file) <= MemWords => ListsWhatRuns /\ ListsUpToUndecodable)
  <2> SUFFICES ASSUME ToolInv, Len(file) <= MemWords
               PROVE  ListsWhatRuns /\ ListsUpToUndecodable
    OBVIOUS
  <2>1. DisInv
    BY StoreAssumption DEF ToolInv, Untouched
  <2> QED BY <2>1, DisInvLists DEF DisInv, Right, ListsWhatRuns
<1> QED BY <1>1, ToolInvariant, PTL
=============================================================================
