------------------------- MODULE Sigma16WordsProofs -------------------------
(***************************************************************************)
(* Facts about the operators of Sigma16Words, and what Sigma16Store        *)
(* fetches from a loaded file.                                             *)
(***************************************************************************)
EXTENDS Sigma16Store, TLAPS

(***************************************************************************)
(* A word is an integer between two bounds.  Proofs cite this instead of   *)
(* the definition: the provers reason about the bounds, not the interval.  *)
(***************************************************************************)
LEMMA MaxWordInt == MaxWord \in Int
BY SMT DEF MaxWord

LEMMA WordInterval ==
  ASSUME NEW n
  PROVE  n \in Word <=> n \in Int /\ 0 <= n /\ n <= MaxWord
BY MaxWordInt, SMT DEF Word

LEMMA WordDef ==
  ASSUME NEW n
  PROVE  n \in Word <=> n \in Int /\ 0 <= n /\ n <= 65535
BY WordInterval, SMT DEF MaxWord

(* Every result that is converted to uint16_t is a word. *)
LEMMA U16Word ==
  ASSUME NEW n \in Int
  PROVE  U16(n) \in Word
BY WordDef DEF U16

(* Swapping the bytes of a word gives a word. *)
LEMMA SwapWord ==
  ASSUME NEW w \in Word
  PROVE  bswap_16(w) \in Word
BY WordDef DEF bswap_16

(* A product is cut to its low 16 bits. *)
LEMMA MulWord ==
  ASSUME NEW a \in Word, NEW b \in Word
  PROVE  Mul16(a, b) \in Word
<1> DEFINE x == a * (b % 256)
           y == a * (b \div 256)
<1>1. x \in Int /\ y \in Int
  BY WordDef
<1>2. x + 256 * (y % 256) \in Int
  BY <1>1
<1> QED BY <1>2, U16Word DEF Mul16

(***************************************************************************)
(* The two halves of Mul16 are the low 16 bits of the product itself,      *)
(* which is what do_mul (vm.c:167-169) stores.                             *)
(***************************************************************************)
LEMMA MulIsProduct ==
  ASSUME NEW a \in Word, NEW b \in Word
  PROVE  Mul16(a, b) = U16(a * b)
<1>1. PICK q \in Int, r \in Int : /\ q = b \div 256 /\ r = b % 256
                                 /\ b = 256 * q + r
  BY WordDef
<1>2. PICK x \in Int, y \in Int, p \in Int : x = a * r /\ y = a * q /\ p = a * b
  BY <1>1, WordDef
<1>3. p = 256 * y + x
  <2>1. a \in Int /\ a * (256 * q + r) = 256 * (a * q) + a * r
    BY WordDef
  <2> QED BY <1>1, <1>2, <2>1
<1>4. PICK t \in Int : y % 256 = y - 256 * t
  <2>1. y \div 256 \in Int /\ y % 256 = y - 256 * (y \div 256)
    OBVIOUS
  <2> QED BY <2>1
<1>5. x + 256 * (y % 256) = p - 65536 * t
  BY <1>3, <1>4
<1>6. (p - 65536 * t) % 65536 = p % 65536
  OBVIOUS
<1> QED BY <1>1, <1>2, <1>5, <1>6 DEF Mul16, U16

(* Sixteen bits make a word. *)
LEMMA FromBitsWord ==
  ASSUME NEW S
  PROVE  FromBits(S) \in Word
<1> DEFINE b(k) == IF k \in S THEN 1 ELSE 0
<1>1. \A k : b(k) \in Int /\ 0 <= b(k) /\ b(k) <= 1
  OBVIOUS
<1> HIDE DEF b
<1> DEFINE low  == b(0) + 2 * b(1) + 4 * b(2) + 8 * b(3)
                   + 16 * b(4) + 32 * b(5) + 64 * b(6) + 128 * b(7)
           high == 256 * b(8) + 512 * b(9) + 1024 * b(10) + 2048 * b(11)
                   + 4096 * b(12) + 8192 * b(13) + 16384 * b(14)
                   + 32768 * b(15)
<1>2. /\ b(0) \in {0, 1} /\ b(1) \in {0, 1} /\ b(2) \in {0, 1}
      /\ b(3) \in {0, 1} /\ b(4) \in {0, 1} /\ b(5) \in {0, 1}
      /\ b(6) \in {0, 1} /\ b(7) \in {0, 1} /\ b(8) \in {0, 1}
      /\ b(9) \in {0, 1} /\ b(10) \in {0, 1} /\ b(11) \in {0, 1}
      /\ b(12) \in {0, 1} /\ b(13) \in {0, 1} /\ b(14) \in {0, 1}
      /\ b(15) \in {0, 1}
  BY <1>1
<1>3. low \in Int /\ 0 <= low /\ low <= 255
  BY <1>2
<1>4. high \in Int /\ 0 <= high /\ high <= 65280
  BY <1>2
<1>5. FromBits(S) = low + high
  BY <1>2 DEF FromBits, b
<1> HIDE DEF low, high
<1> QED BY <1>3, <1>4, <1>5, WordDef

(* The results of the bitwise instructions, cmp and add are words. *)
LEMMA BitwiseWord ==
  ASSUME NEW a \in Word, NEW b \in Word
  PROVE  /\ Inv16(a) \in Word
         /\ And16(a, b) \in Word /\ Or16(a, b) \in Word /\ Xor16(a, b) \in Word
<1>1. Inv16(a) \in Word
  BY WordDef DEF Inv16, MaxWord
<1>2. And16(a, b) \in Word /\ Or16(a, b) \in Word /\ Xor16(a, b) \in Word
  BY FromBitsWord DEF And16, Or16, Xor16
<1> QED BY <1>1, <1>2

LEMMA StatusWord ==
  ASSUME NEW F
  PROVE  Status(F) \in Word
BY FromBitsWord DEF Status

LEMMA TruthWord ==
  ASSUME NEW p
  PROVE  Truth(p) \in Word
BY WordDef DEF Truth

(* Quotient and remainder: what op_div stores fits in a register. *)
LEMMA DivWord ==
  ASSUME NEW a \in Word, NEW b \in Word, b # 0
  PROVE  /\ a \div b \in Word /\ a % b \in Word
         /\ a = b * (a \div b) + (a % b) /\ a % b < b
BY WordDef

(* The decoded fields are register numbers, the displacement a word. *)
LEMMA InterpInst ==
  ASSUME NEW w \in Word, NEW x \in Word
  PROVE  InterpRRR(w, x) \in Inst /\ InterpRX(w, x) \in Inst
         /\ InterpEXP0(w, x) \in Inst
<1>1. Op(w) \in Reg /\ D(w) \in Reg /\ Sa(w) \in Reg /\ Sb(w) \in Reg
  BY WordDef DEF Op, D, Sa, Sb, Reg
<1>2. \A y \in Word : InterpRRR(w, y) \in Inst
  BY <1>1 DEF InterpRRR, Inst
<1> QED BY <1>2, SwapWord DEF InterpRX, InterpEXP0

(* Every entry of rx_dispatch_table is an RX label or do_bad_op. *)
LEMMA RxDispatchLabel ==
  ASSUME NEW k \in Reg
  PROVE  RxDispatch(k) \in RXLabels \cup {"do_bad_op"}
BY DEF RxDispatch, rx_dispatch_table, RXLabels, Reg

-----------------------------------------------------------------------------
(***************************************************************************)
(* Words and their bits.                                                   *)
(***************************************************************************)
(* The bytes of a word. *)
LEMMA BytesOfWord ==
  ASSUME NEW w \in Word
  PROVE  /\ w \div 256 \in 0..255 /\ w % 256 \in 0..255
         /\ w = 256 * (w \div 256) + (w % 256)
<1> DEFINE h == w \div 256
           l == w % 256
<1>1. 256 \in Word
  BY WordDef
<1>2. /\ h \in Int /\ l \in Int /\ 0 <= h /\ 0 <= l /\ l < 256
      /\ w = 256 * h + l /\ w <= 65535
  BY <1>1, DivWord, WordDef
<1> HIDE DEF h, l
<1>3. h <= 255
  BY <1>2
<1>4. h \in 0..255 /\ l \in 0..255 /\ w = 256 * h + l
  BY <1>2, <1>3
<1> QED BY <1>4 DEF h, l

(* The bits of a byte, by their weights. *)
LEMMA ByteOfBits ==
  ASSUME NEW x0 \in {0, 1}, NEW x1 \in {0, 1}, NEW x2 \in {0, 1},
         NEW x3 \in {0, 1}, NEW x4 \in {0, 1}, NEW x5 \in {0, 1},
         NEW x6 \in {0, 1}, NEW x7 \in {0, 1},
         NEW v, v = x0 + 2 * x1 + 4 * x2 + 8 * x3
                    + 16 * x4 + 32 * x5 + 64 * x6 + 128 * x7
  PROVE  /\ v \in Byte
         /\ (v \div 1) % 2 = x0 /\ (v \div 2) % 2 = x1
         /\ (v \div 4) % 2 = x2 /\ (v \div 8) % 2 = x3
         /\ (v \div 16) % 2 = x4 /\ (v \div 32) % 2 = x5
         /\ (v \div 64) % 2 = x6 /\ (v \div 128) % 2 = x7
<1>1. v \in Byte
  BY DEF Byte
<1>2. (v \div 1) % 2 = x0 /\ (v \div 2) % 2 = x1
  OBVIOUS
<1>3. (v \div 4) % 2 = x2 /\ (v \div 8) % 2 = x3
  OBVIOUS
<1>4. (v \div 16) % 2 = x4 /\ (v \div 32) % 2 = x5
  OBVIOUS
<1>5. (v \div 64) % 2 = x6 /\ (v \div 128) % 2 = x7
  OBVIOUS
<1> QED BY <1>1, <1>2, <1>3, <1>4, <1>5

LEMMA BitsOfByte ==
  ASSUME NEW v \in Byte
  PROVE  v = ((v \div 1) % 2) + 2 * ((v \div 2) % 2) + 4 * ((v \div 4) % 2)
             + 8 * ((v \div 8) % 2) + 16 * ((v \div 16) % 2)
             + 32 * ((v \div 32) % 2) + 64 * ((v \div 64) % 2)
             + 128 * ((v \div 128) % 2)
BY DEF Byte

Weights == {1, 2, 4, 8, 16, 32, 64, 128}

(* The bit of weight p. *)
Shifted(w, p) == (w \div p) % 2

(* The bits of a word are those of its bytes. *)
LEMMA BitsOfBytes ==
  ASSUME NEW lo \in Byte, NEW hi \in Byte, NEW w, w = lo + 256 * hi,
         NEW p \in Weights
  PROVE  /\ Shifted(w, p) = Shifted(lo, p)
         /\ Shifted(w, 256 * p) = Shifted(hi, p)
<1>1. CASE p = 1
  <2>1. w \div 1 = lo \div 1 + 2 * (128 * hi) /\ w \div 256 = hi \div 1
    BY DEF Byte
  <2> QED BY <1>1, <2>1 DEF Byte, Shifted
<1>2. CASE p = 2
  <2>1. w \div 2 = lo \div 2 + 2 * (64 * hi) /\ w \div 512 = hi \div 2
    BY DEF Byte
  <2> QED BY <1>2, <2>1 DEF Byte, Shifted
<1>3. CASE p = 4
  <2>1. w \div 4 = lo \div 4 + 2 * (32 * hi) /\ w \div 1024 = hi \div 4
    BY DEF Byte
  <2> QED BY <1>3, <2>1 DEF Byte, Shifted
<1>4. CASE p = 8
  <2>1. w \div 8 = lo \div 8 + 2 * (16 * hi) /\ w \div 2048 = hi \div 8
    BY DEF Byte
  <2> QED BY <1>4, <2>1 DEF Byte, Shifted
<1>5. CASE p = 16
  <2>1. w \div 16 = lo \div 16 + 2 * (8 * hi) /\ w \div 4096 = hi \div 16
    BY DEF Byte
  <2> QED BY <1>5, <2>1 DEF Byte, Shifted
<1>6. CASE p = 32
  <2>1. w \div 32 = lo \div 32 + 2 * (4 * hi) /\ w \div 8192 = hi \div 32
    BY DEF Byte
  <2> QED BY <1>6, <2>1 DEF Byte, Shifted
<1>7. CASE p = 64
  <2>1. w \div 64 = lo \div 64 + 2 * (2 * hi) /\ w \div 16384 = hi \div 64
    BY DEF Byte
  <2> QED BY <1>7, <2>1 DEF Byte, Shifted
<1>8. CASE p = 128
  <2>1. w \div 128 = lo \div 128 + 2 * (1 * hi) /\ w \div 32768 = hi \div 128
    BY DEF Byte
  <2> QED BY <1>8, <2>1 DEF Byte, Shifted
<1> QED BY <1>1, <1>2, <1>3, <1>4, <1>5, <1>6, <1>7, <1>8 DEF Weights

(* The complement of a byte. *)
LEMMA ByteComplement ==
  ASSUME NEW v \in Byte, NEW p \in Weights
  PROVE  Shifted(255 - v, p) = 1 - Shifted(v, p)
BY DEF Byte, Weights, Shifted

LEMMA PowersOfTwo ==
  /\ 2^0 = 1 /\ 2^1 = 2 /\ 2^2 = 4 /\ 2^3 = 8 /\ 2^4 = 16 /\ 2^5 = 32
  /\ 2^6 = 64 /\ 2^7 = 128 /\ 2^8 = 256 /\ 2^9 = 512 /\ 2^10 = 1024
  /\ 2^11 = 2048 /\ 2^12 = 4096 /\ 2^13 = 8192 /\ 2^14 = 16384
  /\ 2^15 = 32768
OBVIOUS

LEMMA SmallPowers ==
  ASSUME NEW k \in 0..7
  PROVE  2^k \in Weights /\ 2^(k + 8) = 256 * 2^k
<1> DEFINE P(j) == 2^j \in Weights /\ 2^(j + 8) = 256 * 2^j
<1>1. P(0) /\ P(1)
  BY PowersOfTwo DEF Weights
<1>2. P(2) /\ P(3)
  BY PowersOfTwo DEF Weights
<1>3. P(4) /\ P(5)
  BY PowersOfTwo DEF Weights
<1>4. P(6) /\ P(7)
  BY PowersOfTwo DEF Weights
<1>5. P(k)
  <2> HIDE DEF P
  <2> QED BY <1>1, <1>2, <1>3, <1>4
<1> QED BY <1>5

LEMMA PowersPositive ==
  ASSUME NEW k \in 0..15
  PROVE  2^k \in Nat /\ 2^k # 0
<1> DEFINE P(j) == 2^j \in Nat /\ 2^j # 0
<1>1. P(0) /\ P(1) /\ P(2) /\ P(3) /\ P(4) /\ P(5) /\ P(6) /\ P(7)
  BY PowersOfTwo
<1>2. P(8) /\ P(9) /\ P(10) /\ P(11) /\ P(12) /\ P(13) /\ P(14) /\ P(15)
  BY PowersOfTwo
<1>3. P(k)
  <2> HIDE DEF P
  <2> QED BY <1>1, <1>2
<1> QED BY <1>3

(* Bit k of a word. *)
Bit(w, k) == Shifted(w, 2^k)

LEMMA BitValue ==
  ASSUME NEW w \in Word, NEW k \in 0..15
  PROVE  /\ Bit(w, k) \in {0, 1}
         /\ k \in Bits(w) <=> Bit(w, k) = 1
<1>1. PICK p \in Nat : p = 2^k /\ p # 0
  BY PowersPositive
<1>2. (w \div p) % 2 \in {0, 1}
  <2>1. w \div p \in Int
    BY <1>1, WordDef
  <2> QED BY <2>1
<1> QED BY <1>1, <1>2 DEF Bit, Bits, Shifted

(* The bits by their weights. *)
LEMMA BitByWeight ==
  ASSUME NEW v
  PROVE  /\ Bit(v, 0) = (v \div 1) % 2 /\ Bit(v, 1) = (v \div 2) % 2
         /\ Bit(v, 2) = (v \div 4) % 2 /\ Bit(v, 3) = (v \div 8) % 2
         /\ Bit(v, 4) = (v \div 16) % 2 /\ Bit(v, 5) = (v \div 32) % 2
         /\ Bit(v, 6) = (v \div 64) % 2 /\ Bit(v, 7) = (v \div 128) % 2
BY PowersOfTwo DEF Bit, Shifted

(* A word is its low and its high byte; a bit of it is a bit of one. *)
LEMMA BitOfWord ==
  ASSUME NEW lo \in Byte, NEW hi \in Byte, NEW w, w = lo + 256 * hi,
         NEW k \in 0..7
  PROVE  Bit(w, k) = Bit(lo, k) /\ Bit(w, k + 8) = Bit(hi, k)
<1>1. PICK p \in Weights : p = 2^k /\ 256 * p = 2^(k + 8)
  BY SmallPowers
<1> QED BY <1>1, BitsOfBytes DEF Bit

LEMMA ByteBitComplement ==
  ASSUME NEW v \in Byte, NEW k \in 0..7
  PROVE  Bit(255 - v, k) = 1 - Bit(v, k)
<1>1. PICK p \in Weights : p = 2^k
  BY SmallPowers
<1> QED BY <1>1, ByteComplement DEF Bit

LEMMA WordIsBytes ==
  ASSUME NEW w \in Word
  PROVE  \E lo \in Byte, hi \in Byte : w = lo + 256 * hi
<1>1. PICK l \in Byte, h \in Byte : w = 256 * h + l
  <2>1. w = 256 * (w \div 256) + (w % 256)
    BY BytesOfWord
  <2>2. w \div 256 \in Byte /\ w % 256 \in Byte
    BY BytesOfWord DEF Byte
  <2> QED BY <2>1, <2>2, Zenon
<1>2. w = l + 256 * h
  BY <1>1 DEF Byte
<1> QED BY <1>2

LEMMA BitNumbers ==
  ASSUME NEW k \in 0..15
  PROVE  k \in 0..7 \/ \E j \in 0..7 : k = j + 8
<1>1. k \in 0..7 \/ (k - 8 \in 0..7 /\ k = (k - 8) + 8)
  OBVIOUS
<1> QED BY <1>1

(* The sum of the bits that are set. *)
LEMMA BitOfFromBits ==
  ASSUME NEW S, NEW k \in 0..15
  PROVE  Bit(FromBits(S), k) = IF k \in S THEN 1 ELSE 0
<1> DEFINE b(j) == IF j \in S THEN 1 ELSE 0
           lo == b(0) + 2 * b(1) + 4 * b(2) + 8 * b(3)
                 + 16 * b(4) + 32 * b(5) + 64 * b(6) + 128 * b(7)
           hi == b(8) + 2 * b(9) + 4 * b(10) + 8 * b(11)
                 + 16 * b(12) + 32 * b(13) + 64 * b(14) + 128 * b(15)
<1>1. /\ b(0) \in {0, 1} /\ b(1) \in {0, 1} /\ b(2) \in {0, 1} /\ b(3) \in {0, 1}
      /\ b(4) \in {0, 1} /\ b(5) \in {0, 1} /\ b(6) \in {0, 1} /\ b(7) \in {0, 1}
  OBVIOUS
<1>2. /\ b(8) \in {0, 1} /\ b(9) \in {0, 1} /\ b(10) \in {0, 1}
      /\ b(11) \in {0, 1} /\ b(12) \in {0, 1} /\ b(13) \in {0, 1}
      /\ b(14) \in {0, 1} /\ b(15) \in {0, 1}
  OBVIOUS
<1> HIDE DEF b
<1>3. FromBits(S) = lo + 256 * hi
  BY <1>1, <1>2 DEF FromBits, b
<1>4. /\ lo \in Byte
      /\ (lo \div 1) % 2 = b(0) /\ (lo \div 2) % 2 = b(1)
      /\ (lo \div 4) % 2 = b(2) /\ (lo \div 8) % 2 = b(3)
      /\ (lo \div 16) % 2 = b(4) /\ (lo \div 32) % 2 = b(5)
      /\ (lo \div 64) % 2 = b(6) /\ (lo \div 128) % 2 = b(7)
  BY <1>1, ByteOfBits
<1>5. /\ hi \in Byte
      /\ (hi \div 1) % 2 = b(8) /\ (hi \div 2) % 2 = b(9)
      /\ (hi \div 4) % 2 = b(10) /\ (hi \div 8) % 2 = b(11)
      /\ (hi \div 16) % 2 = b(12) /\ (hi \div 32) % 2 = b(13)
      /\ (hi \div 64) % 2 = b(14) /\ (hi \div 128) % 2 = b(15)
  BY <1>2, ByteOfBits
<1> HIDE DEF lo, hi
<1>6. \A j \in 0..7 : /\ Bit(FromBits(S), j) = Bit(lo, j)
                      /\ Bit(FromBits(S), j + 8) = Bit(hi, j)
  BY <1>3, <1>4, <1>5, BitOfWord
<1>7. \A j \in 0..7 : Bit(lo, j) = b(j) /\ Bit(hi, j) = b(j + 8)
  BY <1>4, <1>5, BitByWeight
<1> QED BY <1>6, <1>7, BitNumbers DEF b

LEMMA BitsOfFromBits ==
  ASSUME NEW S \in SUBSET (0..15)
  PROVE  Bits(FromBits(S)) = S
<1>1. \A k \in 0..15 : k \in Bits(FromBits(S)) <=> k \in S
  BY FromBitsWord, BitValue, BitOfFromBits
<1> QED BY <1>1 DEF Bits

(* No two words have the same bits. *)
LEMMA FromBitsOfBits ==
  ASSUME NEW w \in Word
  PROVE  FromBits(Bits(w)) = w
<1> DEFINE b(k) == IF k \in Bits(w) THEN 1 ELSE 0
<1>1. PICK lo \in Byte, hi \in Byte : w = lo + 256 * hi
  BY WordIsBytes
<1>2. \A k \in 0..15 : b(k) = Bit(w, k)
  BY BitValue
<1>3. \A k \in 0..7 : b(k) = Bit(lo, k) /\ b(k + 8) = Bit(hi, k)
  <2>1. \A k \in 0..7 : k \in 0..15 /\ k + 8 \in 0..15
    OBVIOUS
  <2> HIDE DEF b
  <2> QED BY <1>1, <1>2, <2>1, BitOfWord
<1>4. \A k : b(k) \in {0, 1}
  OBVIOUS
<1> HIDE DEF b
<1>5. FromBits(Bits(w)) =
        (b(0) + 2 * b(1) + 4 * b(2) + 8 * b(3)
         + 16 * b(4) + 32 * b(5) + 64 * b(6) + 128 * b(7))
        + 256 * (b(8) + 2 * b(9) + 4 * b(10) + 8 * b(11)
                 + 16 * b(12) + 32 * b(13) + 64 * b(14) + 128 * b(15))
  BY <1>4 DEF FromBits, b
<1>6. lo = b(0) + 2 * b(1) + 4 * b(2) + 8 * b(3)
           + 16 * b(4) + 32 * b(5) + 64 * b(6) + 128 * b(7)
  BY <1>3, BitsOfByte, BitByWeight
<1>7. hi = b(8) + 2 * b(9) + 4 * b(10) + 8 * b(11)
           + 16 * b(12) + 32 * b(13) + 64 * b(14) + 128 * b(15)
  <2>1. /\ b(8) = Bit(hi, 0) /\ b(9) = Bit(hi, 1) /\ b(10) = Bit(hi, 2)
        /\ b(11) = Bit(hi, 3) /\ b(12) = Bit(hi, 4) /\ b(13) = Bit(hi, 5)
        /\ b(14) = Bit(hi, 6) /\ b(15) = Bit(hi, 7)
    BY <1>3
  <2> QED BY <2>1, BitsOfByte, BitByWeight
<1> QED BY <1>1, <1>5, <1>6, <1>7

LEMMA BitsOfInv ==
  ASSUME NEW w \in Word
  PROVE  Bits(Inv16(w)) = (0..15) \ Bits(w)
<1>1. PICK lo \in Byte, hi \in Byte : w = lo + 256 * hi
  BY WordIsBytes
<1>2. /\ 255 - lo \in Byte /\ 255 - hi \in Byte
      /\ Inv16(w) = (255 - lo) + 256 * (255 - hi)
  BY <1>1 DEF Byte, Inv16, MaxWord
<1>3. ASSUME NEW k \in 0..7
      PROVE  /\ Bit(Inv16(w), k) = 1 - Bit(w, k)
             /\ Bit(Inv16(w), k + 8) = 1 - Bit(w, k + 8)
  BY <1>1, <1>2, BitOfWord, ByteBitComplement
<1>4. \A k \in 0..15 : Bit(Inv16(w), k) = 1 - Bit(w, k)
  BY <1>3, BitNumbers
<1>5. Inv16(w) \in Word
  BY BitwiseWord
<1>6. \A k \in 0..15 : k \in Bits(Inv16(w)) <=> k \notin Bits(w)
  BY <1>4, <1>5, BitValue
<1> QED BY <1>6 DEF Bits

(***************************************************************************)
(* The bitwise instructions, bit by bit, and the laws that a program may   *)
(* rely on (vm.c, labels do_invold, do_andold, do_orold, do_xorold): inv   *)
(* is its own inverse, xor with the same word twice gives the word back,   *)
(* and inv exchanges and and or.                                           *)
(***************************************************************************)
THEOREM BitwiseLaws ==
  ASSUME NEW a \in Word, NEW b \in Word
  PROVE  /\ Bits(And16(a, b)) = Bits(a) \cap Bits(b)
         /\ Bits(Or16(a, b)) = Bits(a) \cup Bits(b)
         /\ Bits(Xor16(a, b)) = (Bits(a) \ Bits(b)) \cup (Bits(b) \ Bits(a))
         /\ Bits(Inv16(a)) = (0..15) \ Bits(a)
         /\ Inv16(Inv16(a)) = a /\ Xor16(Xor16(a, b), b) = a
         /\ Inv16(And16(a, b)) = Or16(Inv16(a), Inv16(b))
<1>1. Bits(a) \in SUBSET (0..15) /\ Bits(b) \in SUBSET (0..15)
  BY DEF Bits
<1>2. /\ Bits(And16(a, b)) = Bits(a) \cap Bits(b)
      /\ Bits(Or16(a, b)) = Bits(a) \cup Bits(b)
      /\ Bits(Xor16(a, b)) = (Bits(a) \ Bits(b)) \cup (Bits(b) \ Bits(a))
  BY <1>1, BitsOfFromBits DEF And16, Or16, Xor16
<1>3. /\ Inv16(a) \in Word /\ Inv16(b) \in Word /\ And16(a, b) \in Word
      /\ Inv16(And16(a, b)) \in Word
  BY BitwiseWord
<1>4. Inv16(Inv16(a)) = a
  BY WordDef DEF Inv16, MaxWord
<1>5. Xor16(Xor16(a, b), b) = a
  <2>1. (Bits(Xor16(a, b)) \ Bits(b)) \cup (Bits(b) \ Bits(Xor16(a, b))) = Bits(a)
    BY <1>2
  <2> QED BY <2>1, FromBitsOfBits DEF Xor16
<1>6. Inv16(And16(a, b)) = Or16(Inv16(a), Inv16(b))
  <2>1. /\ Bits(Inv16(And16(a, b))) = (0..15) \ (Bits(a) \cap Bits(b))
        /\ Bits(Inv16(a)) = (0..15) \ Bits(a) /\ Bits(Inv16(b)) = (0..15) \ Bits(b)
    BY <1>2, <1>3, BitsOfInv
  <2>2. Bits(Inv16(a)) \cup Bits(Inv16(b)) = Bits(Inv16(And16(a, b)))
    BY <2>1
  <2> QED BY <1>3, <2>2, FromBitsOfBits DEF Or16
<1> QED BY <1>2, <1>4, <1>5, <1>6, BitsOfInv

(***************************************************************************)
(* The bits that the conditional jumps test, numbered from the left,       *)
(* whatever the other flags are.                                           *)
(***************************************************************************)
LEMMA SelectFromBits ==
  ASSUME NEW S, NEW k \in 0..15
  PROVE  select_bit(FromBits(S), k) = IF 15 - k \in S THEN 1 ELSE 0
<1>1. 15 - k \in 0..15
  OBVIOUS
<1> QED BY <1>1, BitOfFromBits DEF select_bit, Bit, Shifted

(***************************************************************************)
(* What do_cmp leaves for the conditional jumps: the three bits they test  *)
(* compare the words as signed numbers.                                    *)
(***************************************************************************)
LEMMA SelectCmpFlags ==
  ASSUME NEW a, NEW b
  PROVE  LET w == Status(CmpFlags(a, b))
         IN  /\ select_bit(w, 1) = IF Int16(a) > Int16(b) THEN 1 ELSE 0
             /\ select_bit(w, 2) = IF a = b THEN 1 ELSE 0
             /\ select_bit(w, 3) = IF Int16(a) < Int16(b) THEN 1 ELSE 0
<1> DEFINE F == CmpFlags(a, b)
           S == {FlagBit[f] : f \in F}
<1>1. /\ "g" \in F <=> Int16(a) > Int16(b)
      /\ "E" \in F <=> a = b
      /\ "l" \in F <=> Int16(a) < Int16(b)
  BY Zenon DEF CmpFlags
<1>2. F \subseteq {"G", "g", "E", "l", "L"}
  BY DEF CmpFlags
<1>3. /\ FlagBit["G"] = 15 /\ FlagBit["g"] = 14 /\ FlagBit["E"] = 13
      /\ FlagBit["l"] = 12 /\ FlagBit["L"] = 11
  BY DEF FlagBit
<1> HIDE DEF F
<1>4. \A f \in F : /\ FlagBit[f] = 14 <=> f = "g"
                   /\ FlagBit[f] = 13 <=> f = "E"
                   /\ FlagBit[f] = 12 <=> f = "l"
  BY <1>2, <1>3
<1>5. (14 \in S <=> "g" \in F) /\ (13 \in S <=> "E" \in F) /\ (12 \in S <=> "l" \in F)
  BY <1>4
<1>6. /\ 1 \in 0..15 /\ 2 \in 0..15 /\ 3 \in 0..15
      /\ 15 - 1 = 14 /\ 15 - 2 = 13 /\ 15 - 3 = 12
  OBVIOUS
<1> QED BY <1>1, <1>5, <1>6, SelectFromBits DEF Status, F

(* Equal words are equal numbers. *)
LEMMA Int16Injective ==
  ASSUME NEW a \in Word, NEW b \in Word
  PROVE  /\ Int16(a) \in Int /\ Int16(b) \in Int
         /\ Int16(a) = Int16(b) <=> a = b
BY WordDef DEF Int16

-----------------------------------------------------------------------------
(***************************************************************************)
(* The two views of a word: bytes of the file, bit fields of the memory.   *)
(***************************************************************************)
(* The fields the emulator takes from the raw word are the halves of the   *)
(* bytes that the disassembler splits.                                     *)
LEMMA FieldsAreHalves ==
  ASSUME NEW w \in Word
  PROVE  LET raw == bswap_16(w)
         IN  /\ Op(raw) = (w \div 256) \div 16 /\ D(raw) = (w \div 256) % 16
             /\ Sa(raw) = (w % 256) \div 16 /\ Sb(raw) = (w % 256) % 16
<1> DEFINE h == w \div 256
           l == w % 256
<1>1. h \in 0..255 /\ l \in 0..255
  BY BytesOfWord
<1>2. bswap_16(w) = 256 * l + h
  BY <1>1 DEF bswap_16
<1> HIDE DEF h, l
<1>3. Op(256 * l + h) = h \div 16 /\ D(256 * l + h) = h % 16
  BY <1>1 DEF Op, D
<1>4. Sa(256 * l + h) = l \div 16 /\ Sb(256 * l + h) = l % 16
  BY <1>1 DEF Sa, Sb
<1> QED BY <1>2, <1>3, <1>4 DEF h, l

(* Swapping twice gives the word back. *)
LEMMA SwapTwice ==
  ASSUME NEW w \in Word
  PROVE  bswap_16(bswap_16(w)) = w
<1> DEFINE h == w \div 256
           l == w % 256
<1>1. h \in 0..255 /\ l \in 0..255 /\ w = 256 * h + l
  BY BytesOfWord
<1>2. bswap_16(w) = 256 * l + h
  BY <1>1 DEF bswap_16
<1> HIDE DEF h, l
<1>3. (256 * l + h) % 256 = h /\ (256 * l + h) \div 256 = l
  BY <1>1
<1> QED BY <1>1, <1>2, <1>3 DEF bswap_16

(* The label of a word is given by its high half-byte. *)
LEMMA DispatchLabel ==
  ASSUME NEW w, Op(w) \in 0..15
  PROVE  /\ Op(w) < 14 => Dispatch(w) \in RRRLabels
         /\ Op(w) = 14 => Dispatch(w) = "do_decode_exp"
         /\ Op(w) = 15 => Dispatch(w) = "do_decode_rx"
BY DEF Dispatch, dispatch_table, RRRLabels

LEMMA RxLabel ==
  ASSUME NEW k \in Reg
  PROVE  /\ k > 8 <=> RxDispatch(k) = "do_bad_op"
         /\ RxDispatch(k) \notin RRRLabels
BY DEF RxDispatch, rx_dispatch_table, RRRLabels, Reg

(* A word made of four fields gives them back. *)
FieldsWord(op, d, sa, sb) == 4096 * op + 256 * d + 16 * sa + sb

LEMMA FourFields ==
  ASSUME NEW op \in Reg, NEW d \in Reg, NEW sa \in Reg, NEW sb \in Reg
  PROVE  LET w == FieldsWord(op, d, sa, sb)
         IN  /\ w \in Word
             /\ (w \div 256) \div 16 = op /\ (w \div 256) % 16 = d
             /\ (w % 256) \div 16 = sa /\ (w % 256) % 16 = sb
<1>1. PICK h, l : h = 16 * op + d /\ l = 16 * sa + sb
  OBVIOUS
<1>2. /\ h \in 0..255 /\ h \div 16 = op /\ h % 16 = d
      /\ l \in 0..255 /\ l \div 16 = sa /\ l % 16 = sb
  <2>1. h \in 0..255 /\ h \div 16 = op /\ h % 16 = d
    BY <1>1 DEF Reg
  <2>2. l \in 0..255 /\ l \div 16 = sa /\ l % 16 = sb
    BY <1>1 DEF Reg
  <2> QED BY <2>1, <2>2
<1> DEFINE w == FieldsWord(op, d, sa, sb)
<1>3. w = 256 * h + l
  BY <1>1 DEF FieldsWord, Reg
<1> HIDE DEF w
<1>4. w \in Word /\ w \div 256 = h /\ w % 256 = l
  <2>1. w \in Int /\ 0 <= w /\ w <= 65535 /\ w \div 256 = h /\ w % 256 = l
    BY <1>2, <1>3
  <2> QED BY <2>1, WordDef
<1>5. /\ w \in Word
      /\ (w \div 256) \div 16 = op /\ (w \div 256) % 16 = d
      /\ (w % 256) \div 16 = sa /\ (w % 256) % 16 = sb
  BY <1>2, <1>4, Zenon
<1> QED BY <1>5 DEF w

-----------------------------------------------------------------------------
(***************************************************************************)
(* What the emulator fetches from a loaded file.                           *)
(***************************************************************************)
LEMMA ImageWord ==
  ASSUME NEW img \in Seq(Word), NEW a \in Nat, a < Len(img), Len(img) <= MemWords
  PROVE  img[a + 1] \in Word /\ Peek(Load(img), a) = {bswap_16(img[a + 1])}
<1>1. Len(img) \in Nat /\ MemWords \in Nat
  BY StoreAssumption
<1>2. img[a + 1] \in Word
  BY <1>1
<1>3. a \in Address
  BY <1>1 DEF Address
<1>4. Load(img)[a] = bswap_16(img[a + 1])
  BY <1>3 DEF Load
<1> QED BY <1>2, <1>3, <1>4 DEF Peek

(* One word with an opcode below 14 is one RRR instruction. *)
LEMMA FetchedRRR ==
  ASSUME NEW m, NEW a, NEW raw, Peek(m, a) = {raw}, Dispatch(raw) \in RRRLabels
  PROVE  Fetched(m, a) = {[label |-> Dispatch(raw), i |-> InterpRRR(raw, 0)]}
<1>1. Dispatch(raw) # "do_decode_rx" /\ Dispatch(raw) # "do_decode_exp"
  BY DEF RRRLabels
<1> QED BY <1>1 DEF Fetched

(* A first word of an RX instruction, with any second word. *)
LEMMA FetchedRX ==
  ASSUME NEW m, NEW a, NEW raw, Peek(m, a) = {raw},
         Dispatch(raw) = "do_decode_rx"
  PROVE  Fetched(m, a) =
           {[label |-> RxDispatch(Sb(raw)), i |-> InterpRX(raw, y)] :
              y \in Peek(m, a + 1)}
<1>1. Dispatch(raw) \notin RRRLabels /\ Dispatch(raw) # "do_decode_exp"
  BY DEF RRRLabels
<1>3. {x \in Peek(m, a) : Dispatch(x) = "do_decode_rx"} = {raw}
      /\ {x \in Peek(m, a) : Dispatch(x) = "do_decode_exp"} = {}
      /\ {x \in Peek(m, a) : Dispatch(x) \in RRRLabels} = {}
  BY <1>1
<1>4. \A y \in Peek(m, a + 1) :
        /\ <<raw, y>> \in {raw} \X Peek(m, a + 1)
        /\ <<raw, y>>[1] = raw /\ <<raw, y>>[2] = y
  OBVIOUS
<1>5. \A w \in {raw} \X Peek(m, a + 1) : w[1] = raw /\ w[2] \in Peek(m, a + 1)
  OBVIOUS
<1> DEFINE One(y) == [label |-> RxDispatch(Sb(raw)), i |-> InterpRX(raw, y)]
           Two(w) == [label |-> RxDispatch(Sb(w[1])), i |-> InterpRX(w[1], w[2])]
<1>6. {Two(w) : w \in {raw} \X Peek(m, a + 1)} = {One(y) : y \in Peek(m, a + 1)}
  <2>1. ASSUME NEW w \in {raw} \X Peek(m, a + 1)
        PROVE  Two(w) \in {One(y) : y \in Peek(m, a + 1)}
    BY <1>5
  <2>2. ASSUME NEW y \in Peek(m, a + 1)
        PROVE  One(y) \in {Two(w) : w \in {raw} \X Peek(m, a + 1)}
    <3>1. One(y) = Two(<<raw, y>>)
      BY <1>4
    <3> HIDE DEF One, Two
    <3> QED BY <3>1, <1>4
  <2> HIDE DEF One, Two
  <2> QED BY <2>1, <2>2
<1> QED BY <1>3, <1>6 DEF Fetched

(***************************************************************************)
(* Instructions in a file, as the emulator fetches them: the four fields   *)
(* of the first word and, for RX, the second word as displacement.         *)
(***************************************************************************)
LEMMA FileFields ==
  ASSUME NEW op \in Reg, NEW d \in Reg, NEW sa \in Reg, NEW sb \in Reg,
         NEW w, w = FieldsWord(op, d, sa, sb)
  PROVE  /\ w \in Word
         /\ Op(bswap_16(w)) = op /\ D(bswap_16(w)) = d
         /\ Sa(bswap_16(w)) = sa /\ Sb(bswap_16(w)) = sb
<1>1. /\ w \in Word
      /\ (w \div 256) \div 16 = op /\ (w \div 256) % 16 = d
      /\ (w % 256) \div 16 = sa /\ (w % 256) % 16 = sb
  BY FourFields
<1> QED BY <1>1, FieldsAreHalves

LEMMA FileRRR ==
  ASSUME NEW img \in Seq(Word), Len(img) <= MemWords,
         NEW a \in Nat, a < Len(img),
         NEW op \in Reg, op < 14, NEW d \in Reg, NEW sa \in Reg, NEW sb \in Reg,
         img[a + 1] = FieldsWord(op, d, sa, sb)
  PROVE  Fetched(Load(img), a) =
           {[label |-> dispatch_table[op + 1],
             i |-> [op |-> op, d |-> d, sa |-> sa, sb |-> sb, disp |-> 0]]}
<1> DEFINE raw == bswap_16(img[a + 1])
<1>1. Peek(Load(img), a) = {raw}
  BY ImageWord
<1>2. Op(raw) = op /\ D(raw) = d /\ Sa(raw) = sa /\ Sb(raw) = sb
  BY FileFields
<1> HIDE DEF raw
<1>3. Dispatch(raw) = dispatch_table[op + 1] /\ Dispatch(raw) \in RRRLabels
  <2>1. Op(raw) \in 0..15 /\ Op(raw) < 14
    BY <1>2 DEF Reg
  <2> QED BY <1>2, <2>1, DispatchLabel DEF Dispatch
<1> QED BY <1>1, <1>2, <1>3, FetchedRRR DEF InterpRRR

LEMMA FileRX ==
  ASSUME NEW img \in Seq(Word), Len(img) <= MemWords,
         NEW a \in Nat, a + 1 < Len(img),
         NEW d \in Reg, NEW sa \in Reg, NEW sb \in Reg,
         img[a + 1] = FieldsWord(15, d, sa, sb)
  PROVE  Fetched(Load(img), a) =
           {[label |-> RxDispatch(sb),
             i |-> [op |-> 15, d |-> d, sa |-> sa, sb |-> sb,
                    disp |-> img[a + 2]]]}
<1> DEFINE raw == bswap_16(img[a + 1])
<1>1. a + 1 \in Nat /\ a < Len(img) /\ (a + 1) + 1 = a + 2 /\ 15 \in Reg
  BY DEF Reg
<1>2. Peek(Load(img), a) = {raw}
  BY <1>1, ImageWord
<1>3. img[a + 2] \in Word /\ Peek(Load(img), a + 1) = {bswap_16(img[a + 2])}
  BY <1>1, ImageWord
<1>4. Op(raw) = 15 /\ D(raw) = d /\ Sa(raw) = sa /\ Sb(raw) = sb
  BY <1>1, FileFields
<1> HIDE DEF raw
<1>5. Dispatch(raw) = "do_decode_rx"
  BY <1>4, DispatchLabel
<1>6. bswap_16(bswap_16(img[a + 2])) = img[a + 2]
  BY <1>3, SwapTwice
<1> QED BY <1>2, <1>3, <1>4, <1>5, <1>6, FetchedRX DEF InterpRX, InterpRRR
=============================================================================
