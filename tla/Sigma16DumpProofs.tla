-------------------------- MODULE Sigma16DumpProofs --------------------------
(***************************************************************************)
(* A memory dump shows each word of its range once, in order, with its     *)
(* character under it: proofs about Sigma16Dump, for every memory and all  *)
(* natural numbers as bounds.                                              *)
(***************************************************************************)
EXTENDS Sigma16Dump, Sigma16WordsProofs

-----------------------------------------------------------------------------
(***************************************************************************)
(* The inductive invariant.  The row being printed begins at First(row)    *)
(* and has come to the counter; it fits into the columns, so that no word  *)
(* of it takes the place of another's character.                           *)
(***************************************************************************)
Rows == Seq([head : Nat \cup {None}, words : Seq(Word), pad : Nat,
             chars : [Columns -> Byte]])

(* The words of r and their characters in the buffer ch. *)
RowShown(r, ch) ==
  \A j \in 1..Len(r.words) :
    LET a == First(r) + j - 1
    IN  /\ InRange(a)
        /\ a \in Address => r.words[j] = Data(a)
        /\ ch[a % 16] = Char(r.words[j])

RowInv ==
  /\ start <= i
  /\ i <= end \/ i = start
  /\ start <= First(row)
  /\ NextAddress(row) = i
  /\ (First(row) % 16) + Len(row.words) <= 16
  /\ RowShown(row, buf)

(* The finished rows, of which the last ends at address a. *)
FinishedUpTo(a) ==
  /\ \A k \in 1..(Len(rows) - 1) : NextAddress(rows[k]) = First(rows[k + 1])
  /\ Len(rows) > 0 => First(rows[1]) = start /\ NextAddress(rows[Len(rows)]) = a

RowsInv ==
  /\ \A k \in 1..Len(rows) : RowShown(rows[k], rows[k].chars)
  /\ at # "done" => FinishedUpTo(First(row))
  /\ at # "done" /\ Len(rows) = 0 => First(row) = start
  /\ at = "done" => /\ FinishedUpTo(i) /\ i >= end /\ Len(rows) > 0
                    /\ rows[Len(rows)].pad = (-i) % 16

DumpInv == DumpTypeOK /\ RowInv /\ RowsInv

LEMMA DumpInitInv == DumpInit => DumpInv
<1> SUFFICES ASSUME DumpInit PROVE DumpInv
  OBVIOUS
<1>1. /\ start \in Nat /\ end \in Nat /\ i = start
      /\ row = EmptyRow /\ rows = << >> /\ at = "loop"
      /\ buf = [c \in Columns |-> 0] /\ mem \in Loaded
  BY BoundsAssumption DEF DumpInit
<1>2. mem \in Memory
  <2>1. PICK img \in Images : mem = Load(img)
    BY <1>1 DEF Loaded
  <2>2. img \in Seq(Word) /\ 0 \in Word
    BY StoreAssumption, WordDef
  <2>3. \A a \in Address : a < Len(img) => bswap_16(img[a + 1]) \in Word
    BY <2>2, StoreAssumption, SwapWord DEF Address
  <2> QED BY <2>1, <2>2, <2>3 DEF Load, Memory
<1>3. row \in [head : Nat \cup {None}, words : Seq(Word)] /\ Len(row.words) = 0
  BY <1>1 DEF EmptyRow
<1>4. rows \in Rows /\ Len(rows) = 0
  BY <1>1 DEF Rows
<1>5. buf \in [Columns -> Byte]
  BY <1>1 DEF Byte
<1>6. First(row) = start /\ NextAddress(row) = i
  BY <1>1, <1>3 DEF First, NextAddress, EmptyRow
<1>7. DumpTypeOK
  BY <1>1, <1>2, <1>3, <1>4, <1>5 DEF DumpTypeOK, Rows
<1>8. RowInv
  BY <1>1, <1>3, <1>6 DEF RowInv, RowShown
<1>9. RowsInv
  BY <1>1, <1>4, <1>6 DEF RowsInv, FinishedUpTo
<1> QED BY <1>7, <1>8, <1>9 DEF DumpInv

-----------------------------------------------------------------------------
(* A word that is read, and its character. *)
LEMMA ReadWord ==
  ASSUME mem \in Memory, i \in Nat, NEW raw \in Peek(mem, U16(i))
  PROVE  /\ bswap_16(raw) \in Word
         /\ Char(bswap_16(raw)) \in Byte
         /\ i \in Address => bswap_16(raw) = Data(i)
<1>1. raw \in Word
  <2>1. mem \in [Address -> Word] /\ Foreign \subseteq Word
    BY StoreAssumption DEF Memory
  <2> QED BY <2>1 DEF Peek
<1>2. bswap_16(raw) \in Word
  BY <1>1, SwapWord
<1>3. Char(bswap_16(raw)) \in Byte
  <2>1. bswap_16(raw) \in Nat
    BY <1>2, WordDef
  <2> HIDE DEF Data
  <2> QED BY <2>1 DEF Char, Byte
<1>4. i \in Address => bswap_16(raw) = Data(i)
  <2>1. SUFFICES ASSUME i \in Address PROVE raw = mem[i]
    BY DEF Data
  <2>2. U16(i) = i
    BY <2>1, StoreAssumption DEF U16, Address
  <2> QED BY <2>1, <2>2 DEF Peek
<1> QED BY <1>2, <1>3, <1>4

(* A row of n words from address f on does not wrap around its columns. *)
LEMMA Column ==
  ASSUME NEW f \in Nat, NEW n \in Nat, NEW j \in Nat,
         (f % 16) + n < 16, 1 <= j, j <= n
  PROVE  /\ (f + j - 1) % 16 \in Columns
         /\ (f + j - 1) % 16 # (f + n) % 16
<1>1. (f + n) % 16 = (f % 16) + n
  OBVIOUS
<1>2. (f + j - 1) % 16 = (f % 16) + j - 1
  OBVIOUS
<1>3. f % 16 \in Int /\ 0 <= f % 16
  OBVIOUS
<1> QED BY <1>1, <1>2, <1>3 DEF Columns

LEMMA RowFits ==
  ASSUME NEW f \in Nat, NEW n \in Nat, (f % 16) + n <= 16, (f + n) % 16 # 0
  PROVE  (f % 16) + n < 16
OBVIOUS

(* The blank cells fill the last row. *)
LEMMA PadFills ==
  ASSUME NEW x \in Nat, NEW p, p = (-x) % 16
  PROVE  (x + p) % 16 = 0
OBVIOUS

-----------------------------------------------------------------------------
(* The word goes on with a row. *)
AddsWord(word) ==
  /\ i < end /\ i % 16 # 0
  /\ Char(word) \in Byte
  /\ i \in Address => word = Data(i)
  /\ buf' = [buf EXCEPT ![i % 16] = Char(word)]
  /\ row' = [row EXCEPT !.words = Append(@, word)]
  /\ i' = i + 1
  /\ UNCHANGED <<mem, start, end, rows, at>>

LEMMA WordInRow ==
  ASSUME DumpInv, at = "loop", NEW word \in Word, AddsWord(word)
  PROVE  DumpInv'
<1>1. /\ start \in Nat /\ end \in Nat /\ i \in Nat
      /\ row \in [head : Nat \cup {None}, words : Seq(Word)]
      /\ buf \in [Columns -> Byte]
  BY DEF DumpInv, DumpTypeOK
<1>2. First(row) \in Nat /\ Len(row.words) \in Nat /\ row.words \in Seq(Word)
  <2>1. row.head \in Nat \/ row.head = None
    BY <1>1
  <2> QED BY <1>1, <2>1 DEF First
<1> PICK f \in Nat, n \in Nat : f = First(row) /\ n = Len(row.words)
  BY <1>2
<1>0. /\ row' = [row EXCEPT !.words = Append(@, word)]
      /\ i' = i + 1 /\ i < end /\ UNCHANGED <<mem, start, end>>
  BY Zenon DEF AddsWord
<1>3. /\ row'.head = row.head /\ row'.words = Append(row.words, word)
      /\ row' \in [head : Nat \cup {None}, words : Seq(Word)]
  <2>1. Append(row.words, word) \in Seq(Word)
    BY <1>2
  <2> QED BY <1>0, <1>1, <2>1
<1>4. /\ Len(row'.words) = n + 1 /\ row'.words[n + 1] = word
      /\ \A j \in 1..n : row'.words[j] = row.words[j]
  BY <1>2, <1>3
<1>5. First(row)' = f
  BY <1>3 DEF First, AddsWord
<1>6. f + n = i /\ start <= f /\ start <= i /\ (f % 16) + n <= 16
  BY DEF DumpInv, RowInv, NextAddress
<1>7. (f % 16) + n < 16
  <2>1. (f + n) % 16 # 0
    BY <1>6 DEF AddsWord
  <2> QED BY <1>6, <2>1, RowFits
<1>8. i % 16 \in Columns
  BY <1>1 DEF Columns
<1>9. /\ buf' \in [Columns -> Byte] /\ buf'[i % 16] = Char(word)
      /\ \A d \in Columns : d # i % 16 => buf'[d] = buf[d]
  <2> DEFINE c == i % 16
  <2>1. buf' = [buf EXCEPT ![c] = Char(word)] /\ Char(word) \in Byte
    BY DEF AddsWord
  <2>2. c \in Columns
    BY <1>8
  <2> HIDE DEF c
  <2>3. /\ buf' \in [Columns -> Byte] /\ buf'[c] = Char(word)
        /\ \A d \in Columns : d # c => buf'[d] = buf[d]
    BY <2>1, <2>2, <1>1
  <2> QED BY <2>3 DEF c
<1>10. ASSUME NEW j \in 1..(n + 1), NEW a, a = f + j - 1
       PROVE  /\ InRange(a)
              /\ a \in Address => row'.words[j] = Data(a)
              /\ buf'[a % 16] = Char(row'.words[j])
  <2>1. CASE j = n + 1
    <3>1. a = i
      BY <2>1, <1>6, <1>10
    <3>2. row'.words[j] = word /\ buf'[a % 16] = Char(word)
      BY <2>1, <3>1, <1>4, <1>9
    <3>3. InRange(a)
      BY <3>1, <1>6 DEF InRange, AddsWord
    <3> QED BY <3>1, <3>2, <3>3 DEF AddsWord
  <2>2. CASE j \in 1..n
    <3>1. /\ InRange(a)
          /\ a \in Address => row.words[j] = Data(a)
          /\ buf[a % 16] = Char(row.words[j])
      BY <2>2, <1>10 DEF DumpInv, RowInv, RowShown
    <3>2. j \in Nat /\ 1 <= j /\ j <= n
      BY <2>2
    <3>3. a % 16 \in Columns /\ a % 16 # i % 16
      BY <3>2, <1>6, <1>7, <1>10, Column
    <3>4. buf'[a % 16] = buf[a % 16]
      BY <3>3, <1>9
    <3>5. row'.words[j] = row.words[j]
      BY <2>2, <1>4
    <3> QED BY <3>1, <3>4, <3>5, Zenon
  <2> QED BY <2>1, <2>2
<1>11. RowShown(row, buf)'
  BY <1>4, <1>5, <1>10 DEF RowShown, InRange, Data, AddsWord
<1>12. RowInv'
  <2>1. /\ (start <= i)' /\ (i <= end)' /\ (start <= First(row))'
        /\ NextAddress(row)' = i'
    BY <1>0, <1>1, <1>4, <1>5, <1>6 DEF NextAddress
  <2>2. (f % 16) + (n + 1) <= 16
    BY <1>7
  <2> QED BY <1>4, <1>5, <1>11, <2>1, <2>2 DEF RowInv
<1>13. RowsInv'
  BY <1>5 DEF DumpInv, RowsInv, FinishedUpTo, RowShown, NextAddress, First,
              InRange, Data, AddsWord
<1>14. DumpTypeOK'
  BY <1>1, <1>3, <1>9 DEF DumpInv, DumpTypeOK, AddsWord
<1> QED BY <1>12, <1>13, <1>14 DEF DumpInv

-----------------------------------------------------------------------------
(* Rows that are finished do not change. *)
LEMMA RowStaysShown ==
  ASSUME NEW r, NEW ch, RowShown(r, ch), UNCHANGED <<mem, start, end>>
  PROVE  RowShown(r, ch)'
BY DEF RowShown, First, InRange, Data

(* The row is finished, with p blank cells, and joins those before it. *)
LEMMA FinishRow ==
  ASSUME DumpInv, at = "loop", NEW p \in Nat, NEW x \in Nat, x = i,
         rows' = print_array_char(p), UNCHANGED <<mem, start, end>>
  PROVE  /\ rows' \in Rows /\ Len(rows') > 0
         /\ rows'[Len(rows')].pad = p
         /\ (\A k \in 1..Len(rows) : RowShown(rows[k], rows[k].chars))'
         /\ FinishedUpTo(x)'
<1>1. /\ row \in [head : Nat \cup {None}, words : Seq(Word)]
      /\ buf \in [Columns -> Byte] /\ rows \in Rows /\ start \in Nat
  BY DEF DumpInv, DumpTypeOK, Rows
<1> PICK e : e = [head |-> row.head, words |-> row.words, pad |-> p, chars |-> buf]
  OBVIOUS
<1>2. /\ e \in [head : Nat \cup {None}, words : Seq(Word), pad : Nat,
                chars : [Columns -> Byte]]
      /\ e.head = row.head /\ e.words = row.words /\ e.pad = p /\ e.chars = buf
  BY <1>1
<1>3. rows' = Append(rows, e)
  BY DEF print_array_char
<1>4. PICK n \in Nat : n = Len(rows)
  BY <1>1 DEF Rows
<1>5. /\ rows' \in Rows /\ Len(rows') = n + 1 /\ rows'[n + 1] = e
      /\ \A k \in 1..n : rows'[k] = rows[k]
  BY <1>1, <1>2, <1>3, <1>4 DEF Rows
<1>6. First(e) = First(row) /\ NextAddress(e) = x /\ RowShown(e, e.chars)
  BY <1>2 DEF DumpInv, RowInv, RowShown, First, NextAddress
<1>7. (\A k \in 1..Len(rows) : RowShown(rows[k], rows[k].chars))'
  <2>1. SUFFICES ASSUME NEW k \in 1..(n + 1)
                 PROVE  RowShown(rows[k], rows[k].chars)'
    BY <1>5
  <2> PICK r : r = rows'[k]
    OBVIOUS
  <2>2. RowShown(r, r.chars)
    <3>1. CASE k = n + 1
      BY <3>1, <1>5, <1>6
    <3>2. CASE k \in 1..n
      <4>1. r = rows[k]
        BY <3>2, <1>5
      <4> QED BY <3>2, <4>1, <1>4 DEF DumpInv, RowsInv
    <3> QED BY <3>1, <3>2
  <2>3. RowShown(r, r.chars)'
    BY <2>2, RowStaysShown
  <2> QED BY <2>3
<1>8. \A k \in 1..n : First(rows[k])' = First(rows[k])
                      /\ NextAddress(rows[k])' = NextAddress(rows[k])
  BY <1>5 DEF First, NextAddress
<1>9. First(rows[n + 1])' = First(row) /\ NextAddress(rows[n + 1])' = x
  BY <1>5, <1>6 DEF First, NextAddress
<1>10. FinishedUpTo(x)'
  <2>1. /\ \A k \in 1..(n - 1) : NextAddress(rows[k]) = First(rows[k + 1])
        /\ n > 0 => /\ First(rows[1]) = start
                    /\ NextAddress(rows[n]) = First(row)
        /\ n = 0 => First(row) = start
    BY <1>4 DEF DumpInv, RowsInv, FinishedUpTo
  <2>2. \A k \in 1..n : NextAddress(rows[k])' = First(rows[k + 1])'
    <3>1. SUFFICES ASSUME NEW k \in 1..n
                   PROVE  NextAddress(rows[k])' = First(rows[k + 1])'
      OBVIOUS
    <3>2. CASE k = n
      BY <3>2, <2>1, <1>8, <1>9
    <3>3. CASE k < n
      <4>1. k \in 1..(n - 1) /\ (k + 1) \in 1..n
        BY <3>3
      <4> QED BY <4>1, <2>1, <1>8
    <3> QED BY <3>2, <3>3
  <2>3. First(rows[1])' = start
    <3>1. CASE n = 0
      BY <3>1, <2>1, <1>9
    <3>2. CASE n > 0
      BY <3>2, <2>1, <1>8
    <3> QED BY <3>1, <3>2
  <2> QED BY <2>2, <2>3, <1>5, <1>9 DEF FinishedUpTo
<1> QED BY <1>2, <1>5, <1>7, <1>10

-----------------------------------------------------------------------------
(* The word begins a row. *)
BeginsRow(word) ==
  /\ i < end /\ i % 16 = 0
  /\ Char(word) \in Byte
  /\ i \in Address => word = Data(i)
  /\ buf' = [buf EXCEPT ![i % 16] = Char(word)]
  /\ rows' = IF i = 0 THEN rows ELSE print_array_char(0)
  /\ row' = [head |-> i, words |-> <<word>>]
  /\ i' = i + 1
  /\ UNCHANGED <<mem, start, end, at>>

LEMMA WordInNewRow ==
  ASSUME DumpInv, at = "loop", NEW word \in Word, BeginsRow(word)
  PROVE  DumpInv'
<1>1. /\ start \in Nat /\ end \in Nat /\ i \in Nat
      /\ buf \in [Columns -> Byte] /\ rows \in Rows
      /\ row.head \in Nat \cup {None} /\ Len(row.words) \in Nat
  BY DEF DumpInv, DumpTypeOK, Rows
<1> PICK x \in Nat : x = i
  BY <1>1
<1>2. /\ x % 16 = 0 /\ x < end /\ i' = x + 1
      /\ row' = [head |-> x, words |-> <<word>>]
      /\ UNCHANGED <<mem, start, end, at>>
  BY DEF BeginsRow
<1>3. /\ row' \in [head : Nat \cup {None}, words : Seq(Word)]
      /\ Len(row'.words) = 1 /\ row'.words[1] = word /\ row'.head = x
  BY <1>2
<1>4. First(row)' = x
  BY <1>3 DEF First, None
<1>5. buf' \in [Columns -> Byte] /\ buf'[0] = Char(word)
  <2>1. buf' = [buf EXCEPT ![0] = Char(word)] /\ Char(word) \in Byte
    BY <1>2 DEF BeginsRow
  <2> QED BY <2>1, <1>1 DEF Columns
<1>6. start <= x /\ NextAddress(row) = x
  BY DEF DumpInv, RowInv
<1>7. RowShown(row, buf)'
  <2>1. InRange(x)'
    BY <1>2, <1>6 DEF InRange
  <2>2. x \in Address => word = Data(x)'
    BY <1>2 DEF BeginsRow, Data
  <2>3. \A j \in 1..1 : j = 1 /\ x + j - 1 = x
    OBVIOUS
  <2> QED BY <1>2, <1>3, <1>4, <1>5, <2>1, <2>2, <2>3
          DEF RowShown
<1>8. RowInv'
  <2>1. start' <= i' /\ i' <= end' /\ start' <= First(row)'
    BY <1>1, <1>2, <1>4, <1>6
  <2>2. NextAddress(row)' = i'
    BY <1>2, <1>3, <1>4 DEF NextAddress
  <2>3. (First(row)' % 16) + Len(row.words)' <= 16
    BY <1>2, <1>3, <1>4
  <2> QED BY <1>7, <2>1, <2>2, <2>3 DEF RowInv
<1>9. rows' \in Rows /\ RowsInv'
  <2>1. CASE x = 0
    <3>1. rows' = rows
      BY <2>1 DEF BeginsRow
    <3>2. First(row) = x
      <4>1. First(row) \in Nat
        BY <1>1 DEF First
      <4> QED BY <4>1, <2>1, <1>1, <1>6 DEF NextAddress
    <3>3. /\ FinishedUpTo(x)
          /\ Len(rows) = 0 => x = start
          /\ \A k \in 1..Len(rows) : RowShown(rows[k], rows[k].chars)
      BY <3>2 DEF DumpInv, RowsInv
    <3>4. FinishedUpTo(x)'
      BY <3>1, <3>3, <1>2 DEF FinishedUpTo, NextAddress, First
    <3>5. (\A k \in 1..Len(rows) : RowShown(rows[k], rows[k].chars))'
      BY <3>1, <3>3, <1>2 DEF RowShown, First, InRange, Data
    <3> QED BY <1>1, <1>2, <1>4, <3>1, <3>3, <3>4, <3>5 DEF RowsInv
  <2>2. CASE x # 0
    <3>1. rows' = print_array_char(0) /\ UNCHANGED <<mem, start, end>>
      BY <2>2, <1>2 DEF BeginsRow
    <3>2. /\ rows' \in Rows /\ Len(rows') > 0
          /\ (\A k \in 1..Len(rows) : RowShown(rows[k], rows[k].chars))'
          /\ FinishedUpTo(x)'
      BY <3>1, FinishRow
    <3>3. at' = "loop" /\ Len(rows') # 0
      BY <1>2, <3>2
    <3> QED BY <1>4, <3>2, <3>3 DEF RowsInv
  <2> QED BY <2>1, <2>2
<1>10. DumpTypeOK'
  BY <1>1, <1>2, <1>3, <1>5, <1>9 DEF DumpInv, DumpTypeOK, Rows
<1> QED BY <1>8, <1>9, <1>10 DEF DumpInv

-----------------------------------------------------------------------------
LEMMA DumpStepInv == DumpInv /\ [DumpNext]_dumpVars => DumpInv'
<1> SUFFICES ASSUME DumpInv, [DumpNext]_dumpVars PROVE DumpInv'
  OBVIOUS
<1>1. mem \in Memory /\ i \in Nat /\ end \in Nat /\ start \in Nat
  BY DEF DumpInv, DumpTypeOK
<1>2. CASE dump_word
  <2>1. PICK raw \in Peek(mem, U16(i)) :
          LET word == bswap_16(raw)
          IN  /\ buf' = [buf EXCEPT ![i % 16] = Char(word)]
              /\ IF i % 16 = 0
                   THEN /\ rows' = IF i = 0 THEN rows ELSE print_array_char(0)
                        /\ row' = [head |-> i, words |-> <<word>>]
                   ELSE /\ row' = [row EXCEPT !.words = Append(@, word)]
                        /\ UNCHANGED rows
    BY <1>2 DEF dump_word
  <2> PICK word : word = bswap_16(raw)
    OBVIOUS
  <2>2. word \in Word /\ Char(word) \in Byte /\ (i \in Address => word = Data(i))
    BY <1>1, ReadWord
  <2>3. at = "loop" /\ i < end /\ i' = i + 1 /\ UNCHANGED <<mem, start, end, at>>
    BY <1>2 DEF dump_word
  <2>4. CASE i % 16 = 0
    <3>1. BeginsRow(word)
      BY <2>1, <2>2, <2>3, <2>4, Zenon DEF BeginsRow
    <3> QED BY <2>2, <2>3, <3>1, WordInNewRow
  <2>5. CASE i % 16 # 0
    <3>1. AddsWord(word)
      BY <2>1, <2>2, <2>3, <2>5, Zenon DEF AddsWord
    <3> QED BY <2>2, <2>3, <3>1, WordInRow
  <2> QED BY <2>4, <2>5
<1>3. CASE dump_fault
  <2>1. /\ at = "loop" /\ at' = "crashed"
        /\ UNCHANGED <<mem, start, end, i, buf, row, rows>>
    BY <1>3 DEF dump_fault
  <2>2. RowInv' /\ DumpTypeOK'
    BY <2>1 DEF DumpInv, DumpTypeOK, RowInv, RowShown, NextAddress, First,
                InRange, Data
  <2>3. RowsInv'
    BY <2>1 DEF DumpInv, RowsInv, FinishedUpTo, RowShown, NextAddress, First,
                InRange, Data
  <2> QED BY <2>2, <2>3 DEF DumpInv
<1>4. CASE dump_end
  <2>1. /\ at = "loop" /\ at' = "done" /\ i >= end
        /\ rows' = print_array_char((-i) % 16)
        /\ UNCHANGED <<mem, start, end, i, buf, row>>
    BY <1>4 DEF dump_end
  <2>2. (-i) % 16 \in Nat
    BY <1>1
  <2> PICK x \in Nat : x = i
    BY <1>1
  <2>3. /\ rows' \in Rows /\ Len(rows') > 0
        /\ rows'[Len(rows')].pad = (-i) % 16
        /\ (\A k \in 1..Len(rows) : RowShown(rows[k], rows[k].chars))'
        /\ FinishedUpTo(x)'
    BY <2>1, <2>2, FinishRow
  <2>4. RowsInv'
    BY <2>1, <2>3 DEF RowsInv
  <2>5. RowInv'
    BY <2>1 DEF DumpInv, RowInv, RowShown, NextAddress, First, InRange, Data
  <2>6. DumpTypeOK'
    BY <2>1, <2>3 DEF DumpInv, DumpTypeOK, Rows
  <2> QED BY <2>4, <2>5, <2>6 DEF DumpInv
<1>5. CASE UNCHANGED dumpVars
  <2>1. UNCHANGED <<mem, start, end, i, buf, row, rows, at>>
    BY <1>5 DEF dumpVars
  <2>2. RowInv' /\ DumpTypeOK'
    BY <2>1 DEF DumpInv, DumpTypeOK, RowInv, RowShown, NextAddress, First,
                InRange, Data
  <2>3. RowsInv'
    BY <2>1 DEF DumpInv, RowsInv, FinishedUpTo, RowShown, NextAddress, First,
                InRange, Data
  <2> QED BY <2>2, <2>3 DEF DumpInv
<1> QED BY <1>2, <1>3, <1>4, <1>5 DEF DumpNext, dump_vm_mem, Returned

LEMMA DumpInvariant == DumpSpec => []DumpInv
BY DumpInitInv, DumpStepInv, PTL DEF DumpSpec

-----------------------------------------------------------------------------
(***************************************************************************)
(* The counters, rows and characters of a dump keep their types, for all   *)
(* natural numbers as bounds: i % 16 is then a column of buf.  The m       *)
(* command also takes negative numbers (debugger.c:376), of which this     *)
(* says nothing: from a negative start to a negative end the remainder is  *)
(* negative, and the index is before the buffer (tracing.c:268).           *)
(***************************************************************************)
THEOREM DumpTypeCorrect == DumpSpec => []DumpTypeOK
<1>1. DumpInv => DumpTypeOK
  BY DEF DumpInv
<1> QED BY <1>1, DumpInvariant, PTL

(***************************************************************************)
(* In every finished row the words are those in memory and each has its    *)
(* own character under it, although all rows share one buffer.             *)
(***************************************************************************)
THEOREM CharactersBelong == DumpSpec => []CharsUnderWords
<1>1. DumpInv => CharsUnderWords
  <2>1. DumpInv => \A k \in 1..Len(rows) : RowShown(rows[k], rows[k].chars)
    BY DEF DumpInv, RowsInv
  <2> QED BY <2>1 DEF RowShown, CharsUnderWords
<1> QED BY <1>1, DumpInvariant, PTL

(***************************************************************************)
(* A dump that returns has shown every address from start up to end once,  *)
(* in order, in rows that follow one another, for all natural bounds.      *)
(***************************************************************************)
THEOREM DumpIsComplete == DumpSpec => []DumpsRange
<1>1. DumpInv => DumpsRange
  <2>1. SUFFICES ASSUME DumpInv, at = "done" PROVE DumpsRange
    BY DEF DumpsRange
  <2>2. /\ FinishedUpTo(i) /\ i >= end /\ Len(rows) > 0
        /\ rows[Len(rows)].pad = (-i) % 16
        /\ i <= end \/ i = start
    BY <2>1 DEF DumpInv, RowsInv, RowInv
  <2>3. i \in Nat /\ start \in Nat /\ end \in Nat
    BY <2>1 DEF DumpInv, DumpTypeOK
  <2>4. start <= end => i = end
    BY <2>2, <2>3
  <2>5. start <= end => (end + rows[Len(rows)].pad) % 16 = 0
    <3>1. SUFFICES ASSUME i = end
                   PROVE  (i + rows[Len(rows)].pad) % 16 = 0
      BY <2>4
    <3> DEFINE p == rows[Len(rows)].pad
    <3>2. p = (-i) % 16
      BY <2>2
    <3> HIDE DEF p
    <3>3. (i + p) % 16 = 0
      BY <2>3, <3>2, PadFills
    <3> QED BY <3>3 DEF p
  <2>6. start < end => start <= end
    BY <2>3
  <2> QED BY <2>2, <2>4, <2>5, <2>6 DEF FinishedUpTo, DumpsRange
<1> QED BY <1>1, DumpInvariant, PTL
=============================================================================
