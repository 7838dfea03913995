----------------------------- MODULE Sigma16Dump -----------------------------
(***************************************************************************)
(* dump_vm_mem (tracing.c): memory from start up to end, sixteen words to  *)
(* a row, each row followed by the characters of its words.  They are kept *)
(* in one buffer for all rows, and a row is finished when the next begins. *)
(***************************************************************************)
EXTENDS Sigma16Store

(* bound: values given for start and end; negative ones are not modelled *)
CONSTANT Bounds

ASSUME BoundsAssumption == Bounds \subseteq Nat

VARIABLES
  mem,    \* vm->mem
  start,  \* the arguments
  end,
  i,      \* the loop counter
  buf,    \* the characters; the last one stays 0
  row,    \* the row being printed
  rows,   \* the rows that are finished, with their characters
  at      \* "loop", "done" or "crashed"

dumpVars == <<mem, start, end, i, buf, row, rows, at>>

None == -1

Columns == 0..16

EmptyRow == [head |-> None, words |-> << >>]

DumpInit ==
  /\ mem \in Loaded
  /\ start \in Bounds /\ end \in Bounds
  /\ i = start
  /\ buf = [c \in Columns |-> 0]
  /\ row = EmptyRow
  /\ rows = << >>
  /\ at = "loop"

DumpTypeOK ==
  /\ mem \in Memory
  /\ start \in Nat /\ end \in Nat /\ i \in Nat
  /\ buf \in [Columns -> Byte]
  /\ row \in [head : Nat \cup {None}, words : Seq(Word)]
  /\ rows \in Seq([head : Nat \cup {None}, words : Seq(Word),
                   pad : Nat, chars : [Columns -> Byte]])
  /\ at \in {"loop", "done", "crashed"}

-----------------------------------------------------------------------------
(* Mutant: the word is not cut to its low byte. *)
Char_word(w) == IF w < 32 THEN 46 ELSE w

(* The low byte of a word, or '.'. *)
Char(w) == IF w % 256 \in 32..126 THEN w % 256 ELSE 46

(* Mutant: the buffer is cleared for the next row before it is printed. *)
print_array_char_cleared(n) ==
  Append(rows, [head |-> row.head, words |-> row.words, pad |-> n,
                chars |-> [c \in Columns |-> 0]])

(* The rows once the current one is finished, padded by n cells. *)
print_array_char(n) ==
  Append(rows, [head |-> row.head, words |-> row.words, pad |-> n, chars |-> buf])

(* Mutant: the loop goes on before it counts. *)
dump_word_continue ==
  /\ at = "loop" /\ i < end
  /\ \E raw \in Peek(mem, U16(i)) :
       LET word == bswap_16(raw)
           b    == [buf EXCEPT ![i % 16] = Char(word)]
       IN  IF Char(word) = 46 THEN UNCHANGED dumpVars ELSE
           /\ buf' = b
           /\ row' = [row EXCEPT !.words = Append(@, word)]
           /\ i' = i + 1
           /\ UNCHANGED <<mem, start, end, rows, at>>

(* One turn of the loop. *)
dump_word ==
  /\ at = "loop" /\ i < end
  /\ \E raw \in Peek(mem, U16(i)) :
       LET word == bswap_16(raw)
       IN  /\ buf' = [buf EXCEPT ![i % 16] = Char(word)]
           /\ IF i % 16 = 0
                THEN /\ rows' = IF i = 0 THEN rows ELSE print_array_char(0)
                     /\ row' = [head |-> i, words |-> <<word>>]
                ELSE /\ row' = [row EXCEPT !.words = Append(@, word)]
                     /\ UNCHANGED rows
  /\ i' = i + 1
  /\ UNCHANGED <<mem, start, end, at>>

(* The word lies past the mapping. *)
dump_fault ==
  /\ at = "loop" /\ i < end /\ U16(i) \notin Address
  /\ at' = "crashed"
  /\ UNCHANGED <<mem, start, end, i, buf, row, rows>>

(* Mutant: i is counted before it is tested. *)
dump_end_counts_first ==
  /\ at = "loop" /\ i >= end
  /\ at' = "done"
  /\ rows' = print_array_char((-i - 1) % 16)
  /\ UNCHANGED <<mem, start, end, i, buf, row>>

(* The last row is filled with blanks. *)
dump_end ==
  /\ at = "loop" /\ i >= end
  /\ at' = "done"
  /\ rows' = print_array_char((-i) % 16)
  /\ UNCHANGED <<mem, start, end, i, buf, row>>

dump_vm_mem == dump_word \/ dump_fault \/ dump_end

Returned == at # "loop" /\ UNCHANGED dumpVars

DumpNext == dump_vm_mem \/ Returned

DumpSpec == DumpInit /\ [][DumpNext]_dumpVars

(* One thread, which nothing blocks. *)
FairDumpSpec == DumpSpec /\ WF_dumpVars(dump_vm_mem)

-----------------------------------------------------------------------------
Data(a) == bswap_16(mem[a])

(* The address of the first word of a row. *)
First(r) == IF r.head = None THEN start ELSE r.head

InRange(a) == start <= a /\ a < end

(***************************************************************************)
(* Every row shows the words that follow its address, rows begin on a      *)
(* multiple of sixteen except for a first one, and under each word, in its *)
(* column, is the character of this word: it was stored before the row is  *)
(* finished and not yet overwritten by the next (tracing.c:256-272).       *)
(***************************************************************************)
CharsUnderWords ==
  \A k \in 1..Len(rows) : \A j \in 1..Len(rows[k].words) :
    LET a == First(rows[k]) + j - 1
    IN  /\ InRange(a)
        /\ a \in Address => rows[k].words[j] = Data(a)
        /\ rows[k].chars[a % 16] = Char(rows[k].words[j])

(***************************************************************************)
(* A dump that returns has shown every address of the range once, in order *)
(* (tracing.c:253-278): the rows are contiguous from start to end, and the *)
(* last one is filled to a multiple of sixteen.                            *)
(***************************************************************************)
NextAddress(r) == First(r) + Len(r.words)

DumpsRange ==
  at = "done" =>
    /\ \A k \in 1..(Len(rows) - 1) : NextAddress(rows[k]) = First(rows[k + 1])
    /\ start < end => /\ First(rows[1]) = start
                      /\ NextAddress(rows[Len(rows)]) = end
    /\ start <= end => (end + rows[Len(rows)].pad) % 16 = 0

(***************************************************************************)
(* dump_vm_mem returns or faults, for all arguments (tracing.c:253, 274).  *)
(***************************************************************************)
DumpEnds == <>(at # "loop")
=============================================================================
