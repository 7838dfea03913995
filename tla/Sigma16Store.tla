---------------------------- MODULE Sigma16Store ----------------------------
(***************************************************************************)
(* The memory of the virtual machine and the output stream, as functions   *)
(* of a memory m and a register file r.  Shared by the abstract machine    *)
(* (Sigma16ISA) and the interpreter (Sigma16VM).                           *)
(*                                                                         *)
(* vm->mem is a uint16_t pointer to a mapping of 1 << 16 BYTES, so half of *)
(* the addresses a uint16_t can name lie past its end.  An access there is *)
(* undefined: it kills the process, or it reaches what else is mapped      *)
(* there.  Foreign is the set of words a read may then find; with Foreign  *)
(* empty every such access is fatal.                                       *)
(***************************************************************************)
EXTENDS Sigma16Words

CONSTANTS
  MemWords,   \* words in the mapping: (1 << 16) / 2 in the code
  Foreign,    \* words that may be found past the mapping
  Images,     \* executables, as sequences of the words in the file
  StdoutCap   \* how many bytes of the output are observed

ASSUME StoreAssumption ==
  /\ MemWords \in Nat \ {0} /\ MemWords <= 65536
  /\ Foreign \subseteq Word
  /\ \A img \in Images : img \in Seq(Word) /\ Len(img) <= MemWords
  /\ StdoutCap \in Nat

Address == 0..(MemWords - 1)

Memory == [Address -> Word]

(* sigma16_vm_init: zeroed pages, then the bytes of the file. *)
Load(img) ==
  [a \in Address |-> IF a < Len(img) THEN bswap_16(img[a + 1]) ELSE 0]

Loaded == {Load(img) : img \in Images}

(* What reading the raw word at address a can return. *)
Peek(m, a) == IF a \in Address THEN {m[a]} ELSE Foreign

(* The memory after writing the raw word w at address a. *)
Poke(m, a, w) == IF a \in Address THEN [m EXCEPT ![a] = w] ELSE m

(* Mutant: the effective address is kept in an int. *)
EAddr_int(r, i) == r[i.sa] + i.disp

(* regs[sa] + disp, as compute_rx_eaddr wraps it to 16 bits. *)
EAddr(r, i) == U16(r[i.sa] + i.disp)

(***************************************************************************)
(* trap_write: R[sb] words from R[sa] on, the address wrapping at 16 bits. *)
(* Only the first StdoutCap bytes of the output are kept, so only the      *)
(* first StdoutCap words of a write matter; far gives those of them that   *)
(* are found past the mapping.                                             *)
(***************************************************************************)
TrapAddr(r, i, k) == U16(r[i.sa] + (k - 1))

TrapAddrs(r, i) == {TrapAddr(r, i, k) : k \in 1..r[i.sb]}

Shown(r, i) == 1..(IF r[i.sb] <= StdoutCap THEN r[i.sb] ELSE StdoutCap)

FarReads(r, i) ==
  [{TrapAddr(r, i, k) : k \in Shown(r, i)} \ Address -> Foreign]

TrapByte(m, a, far) ==
  bswap_16(IF a \in Address THEN m[a] ELSE far[a]) % 256

TrapBytes(m, r, i, far) ==
  [k \in Shown(r, i) |-> TrapByte(m, TrapAddr(r, i, k), far)]

(* The write survives: an access past the mapping finds something. *)
Survives(r, i) == TrapAddrs(r, i) \subseteq Address \/ Foreign # {}

(* The observed output after bytes are put to it. *)
Put(out, bytes) ==
  IF Len(out \o bytes) <= StdoutCap
    THEN out \o bytes
    ELSE SubSeq(out \o bytes, 1, StdoutCap)

(* The addresses the body of instruction i at label lab reads or writes. *)
DataAddrs(lab, r, i) ==
  IF lab = "do_store" \/ (lab = "do_load" /\ i.d # 0) THEN {EAddr(r, i)}
  ELSE IF lab = "do_trap" /\ r[i.d] = 2 THEN TrapAddrs(r, i)
  ELSE {}

(* The further addresses fetching a two-word instruction reads. *)
OperandAddrs(a, w) ==
  IF Dispatch(w) \in {"do_decode_exp", "do_decode_rx"} THEN {a + 1} ELSE {}

(***************************************************************************)
(* The instructions that memory m may hold at address a, as the label      *)
(* whose code runs and the decoded fields (a one-word instruction has no   *)
(* displacement).                                                          *)
(***************************************************************************)
Fetched(m, a) ==
  {[label |-> Dispatch(w), i |-> InterpRRR(w, 0)] :
     w \in {x \in Peek(m, a) : Dispatch(x) \in RRRLabels}}
  \cup
  {[label |-> RxDispatch(Sb(w[1])), i |-> InterpRX(w[1], w[2])] :
     w \in {x \in Peek(m, a) : Dispatch(x) = "do_decode_rx"}
           \X Peek(m, a + 1)}
  \cup
  {[label |-> "do_rfi", i |-> InterpEXP0(w[1], w[2])] :
     w \in {x \in Peek(m, a) : Dispatch(x) = "do_decode_exp"}
           \X Peek(m, a + 1)}
=============================================================================
