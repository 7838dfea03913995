-------------------------- MODULE Sigma16Assembler ---------------------------
(***************************************************************************)
(* The assembler (assembler.py): it parses the lines into objects and      *)
(* labels, links the labels, and writes the objects.  Of a line the model  *)
(* keeps what the parser tells apart: the kind, the operand fields and the *)
(* token that may be a number or a label, as what int() makes of it in     *)
(* each base.                                                              *)
(***************************************************************************)
EXTENDS Sigma16Store, Sigma16Encode, FiniteSets

CONSTANTS
  Sources   \* source files, as sequences of lines

(***************************************************************************)
(* A line is [kind, op, d, sa, sb, token].  The kinds: an object is "RRR", *)
(* "RX", "MOV" (a number) or "DATA"; "label"; "blank"; "bad" makes the     *)
(* parser raise a ParserError, "fatal" another exception (a first word it  *)
(* does not know and no colon, too few operands).                          *)
(* A token is [text, reads, legal]: its value as int() of the bases 10,    *)
(* 16, 2, 8 and as a character, None where that fails; and whether it is   *)
(* made of letters.                                                        *)
(***************************************************************************)
None == 65536

(* An operand that is no label: the text of no token. *)
NoRef == "-"

Kinds == {"RRR", "RX", "MOV", "DATA", "label", "blank", "bad", "fatal"}

Token == [text : STRING, reads : [1..5 -> Int], legal : BOOLEAN]

(* The opcodes are those of the table of mnemonics. *)
Line ==
  {l \in [kind : Kinds, op : Reg, d : Reg, sa : Reg, sb : Reg, token : Token] :
     /\ l.kind = "RRR" => l.op <= 13
     /\ l.kind \in {"RX", "MOV"} => l.op <= 8
     /\ l.token.text # NoRef}

ASSUME SourcesAssumption == \A s \in Sources : s \in Seq(Line)

VARIABLES
  source,   \* the lines that are left
  objs,     \* linker.objs
  labels,   \* linker.labels, in the order of definition
  errors,   \* a line was reported
  file,     \* the words of the output file
  starts,   \* where each object was written
  status    \* "parsing", "writing", "done" or "failed"

asmVars == <<source, objs, labels, errors, file, starts, status>>

AsmInit ==
  /\ source \in Sources
  /\ objs = << >> /\ labels = << >> /\ errors = FALSE
  /\ file = << >> /\ starts = << >>
  /\ status = "parsing"

Object == [kind : {"RRR", "RX", "DATA"}, op : Reg, d : Reg, sa : Reg, sb : Reg,
           ref : STRING \cup {NoRef}, value : Int]

LabelBody == [name : STRING, obj_offset : Nat]

AsmTypeOK ==
  /\ objs \in Seq(Object)
  /\ labels \in Seq(LabelBody)
  /\ errors \in BOOLEAN
  /\ file \in Seq(Word) /\ starts \in Seq(Nat)
  /\ status \in {"parsing", "writing", "done", "failed"}

-----------------------------------------------------------------------------
(* The bases are tried in order. *)
parse_numeric(t) ==
  LET ok == {k \in 1..5 : t.reads[k] # None}
  IN  IF ok = {} THEN None ELSE t.reads[CHOOSE k \in ok : \A j \in ok : k <= j]

(* The line is reported and left out. *)
ParserErrorIn(l) ==
  LET number == parse_numeric(l.token) # None
  IN  \/ l.kind = "bad"
      \/ l.kind \in {"DATA", "MOV"} /\ ~number
      \/ l.kind = "RX" /\ ~number /\ ~l.token.legal
      \/ l.kind = "label" /\ ~l.token.legal

Defined == {labels[k].name : k \in 1..Len(labels)}

(* Mutant: mov is not rewritten into lea. *)
parse_instruction_mov(l) ==
  LET v == parse_numeric(l.token)
  IN  [kind |-> l.kind, op |-> l.op, d |-> l.d, sa |-> l.sa, sb |-> l.sb,
       ref |-> IF l.kind = "RX" /\ v = None THEN l.token.text ELSE NoRef,
       value |-> IF v = None THEN 0 ELSE v]

(* The object of a line.  Only the displacement of RX may be a label. *)
parse_instruction(l) ==
  LET v == parse_numeric(l.token)
  IN  [kind |-> IF l.kind = "MOV" THEN "RX" ELSE l.kind,
       op |-> l.op, d |-> l.d, sa |-> l.sa, sb |-> l.sb,
       ref |-> IF l.kind = "RX" /\ v = None THEN l.token.text ELSE NoRef,
       value |-> IF v = None THEN 0 ELSE v]

parse_lines ==
  /\ status = "parsing" /\ source # << >>
  /\ source' = Tail(source)
  /\ LET l    == Head(source)
         dup  == l.kind = "label" /\ l.token.text \in Defined
         bad  == ParserErrorIn(l)
         good == ~bad /\ ~dup /\ l.kind # "fatal"
     IN  /\ errors' = (errors \/ bad)
         /\ status' = IF ~bad /\ (dup \/ l.kind = "fatal") THEN "failed" ELSE status
         /\ objs' = IF good /\ l.kind \in {"RRR", "RX", "MOV", "DATA"}
                      THEN Append(objs, parse_instruction(l)) ELSE objs
         /\ labels' = IF good /\ l.kind = "label"
              THEN Append(labels, [name |-> l.token.text, obj_offset |-> Len(objs)])
              ELSE labels
  /\ UNCHANGED <<file, starts>>

-----------------------------------------------------------------------------
sizeof(o) == IF o.kind = "RX" THEN 2 ELSE 1

(* The words of the objects from the m-th to the n-th. *)
Words(m, n) == (n - m + 1) + Cardinality({k \in m..n : sizeof(objs[k]) = 2})

(* Mutant: a label is counted in objects. *)
calc_label_offset_objects(k) == labels[k].obj_offset

(* The offset of the k-th label goes on from that of the one before. *)
calc_label_offset(k) ==
  LET off[j \in 0..k] ==
        IF j = 0 THEN 0
        ELSE LET prev == IF j = 1 THEN 0 ELSE labels[j - 1].obj_offset
             IN  off[j - 1] + Words(prev + 1, labels[j].obj_offset)
  IN  off[k]

Resolve(o) ==
  IF o.ref = NoRef THEN o
  ELSE LET k == CHOOSE j \in 1..Len(labels) : labels[j].name = o.ref
       IN  [o EXCEPT !.value = calc_label_offset(k)]

(* An unknown label is a LinkerError: nothing is written. *)
link ==
  /\ status = "parsing" /\ source = << >>
  /\ IF \E k \in 1..Len(objs) : objs[k].ref \notin Defined \cup {NoRef}
       THEN status' = "failed" /\ UNCHANGED objs
       ELSE /\ status' = "writing"
            /\ objs' = [k \in 1..Len(objs) |-> Resolve(objs[k])]
  /\ UNCHANGED <<source, labels, errors, file, starts>>

-----------------------------------------------------------------------------
(* struct.pack(">h", v) *)
Packs(v) == -32768 <= v /\ v <= 32767

(* Mutant: the words are swapped for the host. *)
Encoded_swapped(o) ==
  CASE o.kind = "RRR"  -> <<bswap_16(RRRWord(o.op, o.d, o.sa, o.sb))>>
    [] o.kind = "RX"   -> RX(o.op, o.d, o.sa, U16(o.value))
    [] o.kind = "DATA" -> <<U16(o.value)>>

Encoded(o) ==
  CASE o.kind = "RRR"  -> RRR(o.op, o.d, o.sa, o.sb)
    [] o.kind = "RX"   -> RX(o.op, o.d, o.sa, U16(o.value))
    [] o.kind = "DATA" -> <<U16(o.value)>>

(* The next object.  A value that has no 16-bit form ends the program, and *)
(* what was written before stays in the file.                              *)
write_code ==
  /\ status = "writing"
  /\ LET k == Len(starts) + 1
     IN  IF k > Len(objs)
           THEN status' = "done" /\ UNCHANGED <<file, starts>>
         ELSE IF objs[k].kind # "RRR" /\ ~Packs(objs[k].value)
           THEN status' = "failed" /\ UNCHANGED <<file, starts>>
         ELSE /\ file' = file \o Encoded(objs[k])
              /\ starts' = Append(starts, Len(file))
              /\ UNCHANGED status
  /\ UNCHANGED <<source, objs, labels, errors>>

AsmEnded == status \in {"done", "failed"}

AsmNext == parse_lines \/ link \/ write_code

-----------------------------------------------------------------------------
(* Where the object after label k begins in the file. *)
Target(k) ==
  IF labels[k].obj_offset < Len(starts)
    THEN starts[labels[k].obj_offset + 1] ELSE Len(file)

(***************************************************************************)
(* Every label reference in a finished file is the address at which the    *)
(* object after the label was really written, through lines that are       *)
(* skipped, several labels at one place, and references to labels that     *)
(* come later (assembler.py:336-355).  No name has two places.             *)
(***************************************************************************)
LabelsResolve ==
  status = "done" =>
    \A n \in 1..Len(objs), k \in 1..Len(labels) :
      objs[n].ref = labels[k].name => objs[n].value = Target(k)

(***************************************************************************)
(* Loaded and decoded by the emulator, which reads the words in the other  *)
(* byte order, each instruction is the one that was parsed                 *)
(* (assembler.py:358, vm.c:47, instructions.h).                            *)
(***************************************************************************)
FieldsOf(i) == <<i.op, i.d, i.sa, i.sb>>

IsDecodedAs(o, f) ==
  IF o.kind = "RRR"
    THEN FieldsOf(f.i) = <<o.op, o.d, o.sa, o.sb>>
    ELSE FieldsOf(f.i) = <<15, o.d, o.sa, o.op>> /\ f.i.disp = U16(o.value)

EncodesForInterpreter ==
  status = "done" /\ Len(file) <= MemWords =>
    \A n \in 1..Len(objs) :
      objs[n].kind # "DATA" =>
        \E f \in Fetched(Load(file), starts[n]) : IsDecodedAs(objs[n], f)
=============================================================================
