--------------------------- MODULE PipelineProofs ---------------------------
(***************************************************************************)
(* Proofs about Pipeline, for every program and every width of a word:     *)
(* that loads come one instruction late, that an instruction that faults   *)
(* leaves no trace, that the instruction cache gives the words of memory,  *)
(* unless the guest has made them doubtful, and that the instructions for  *)
(* the two ends of an unaligned word move that word.                       *)
(***************************************************************************)
EXTENDS Pipeline, SequenceTheorems, TLAPS

-----------------------------------------------------------------------------
(***************************************************************************)
(* Numbers: what a division gives, and a word as its four bytes.           *)
(***************************************************************************)
WordValues == 0 .. Word - 1
ByteValues == 0 .. Byte - 1

\* The sizes are numbers, and so are the powers and sums made of them.
Numbers ==
  /\ Word \in Nat \ {0} /\ Half \in Nat \ {0} /\ Byte \in Nat \ {0}
  /\ Byte <= Half /\ Half <= Word /\ WordBits \in Nat \ {0}
  /\ ByteBits \in Nat \ {0} /\ LineWords \in Nat \ {0} /\ Lines \in Nat \ {0} /\ Vector \in WordValues
  /\ \A b \in 0 .. WordBits : 2 ^ b \in Nat \ {0}
  /\ \A n \in 0 .. 4 : Byte ^ n \in Nat \ {0}
  /\ \A S \in SUBSET (0 .. WordBits - 1) : word_of(S) \in WordValues

LEMMA NumbersHold == Numbers
<1>1. ByteBits \in 0 .. WordBits /\ WordBits \in Nat \ {0} /\ ByteBits \in Nat \ {0}
  BY WordsAssumption DEF WordBits
<1>2. Byte \in Nat \ {0}
  BY <1>1, PowersAssumption DEF Byte
<1>3. \A x \in Nat \ {0} : x * x \in Nat \ {0} /\ x <= x * x
  OBVIOUS
<1>4. Half \in Nat \ {0} /\ Byte <= Half
  BY <1>2, <1>3 DEF Half
<1>5. Word \in Nat \ {0} /\ Half <= Word
  BY <1>3, <1>4 DEF Word
<1>6. ASSUME NEW n \in 0 .. 4 PROVE Byte ^ n \in Nat \ {0}
  <2>1. /\ Byte ^ 0 = 1 /\ Byte ^ 1 = Byte /\ Byte ^ 2 = Half
        /\ Byte ^ 3 = Half * Byte /\ Byte ^ 4 = Word
    BY PowersAssumption
  <2>2. Half * Byte \in Nat \ {0}
    BY <1>2, <1>4
  <2>3. n \in {0, 1, 2, 3, 4}
    OBVIOUS
  <2> QED
    BY <1>2, <1>4, <1>5, <2>1, <2>2, <2>3
<1> QED
  BY <1>1, <1>2, <1>4, <1>5, <1>6, PowersAssumption, InstructionsAssumption DEF Numbers, WordValues

LEMMA DivOf ==
  ASSUME NEW x \in Nat, NEW u \in Nat \ {0}
  PROVE  /\ x \div u \in Nat /\ x % u \in 0 .. u - 1 /\ x = u * (x \div u) + (x % u)
OBVIOUS

LEMMA DivIs ==
  ASSUME NEW x \in Nat, NEW u \in Nat \ {0}, NEW q \in Nat, u * q <= x, x < u * q + u
  PROVE  x \div u = q /\ x % u = x - u * q
<1>1. x \div u \in Nat /\ x % u \in 0 .. u - 1 /\ x = u * (x \div u) + (x % u)
  BY DivOf
<1> DEFINE p == x \div u
           r == x % u
<1>2. p \in Nat /\ r \in Nat /\ r < u /\ x = u * p + r
  BY <1>1
<1> HIDE DEF p, r
<1>3. ~(p < q)
  <2>1. SUFFICES ASSUME p < q PROVE FALSE
    OBVIOUS
  <2>2. PICK d \in Nat : q = p + 1 + d
    <3>1. q - p - 1 \in Nat /\ q = p + 1 + (q - p - 1)
      BY <1>2, <2>1
    <3> QED
      BY <3>1
  <2>3. u * q = u * p + u + u * d /\ u * d \in Nat /\ u * p \in Nat
    BY <1>2, <2>2
  <2> QED
    BY <1>2, <2>3
<1>4. ~(q < p)
  <2>1. SUFFICES ASSUME q < p PROVE FALSE
    OBVIOUS
  <2>2. PICK d \in Nat : p = q + 1 + d
    <3>1. p - q - 1 \in Nat /\ p = q + 1 + (p - q - 1)
      BY <1>2, <2>1
    <3> QED
      BY <3>1
  <2>3. u * p = u * q + u + u * d /\ u * d \in Nat /\ u * q \in Nat
    BY <1>2, <2>2
  <2> QED
    BY <1>2, <2>3
<1>5. p = q
  BY <1>2, <1>3, <1>4
<1> QED
  BY <1>2, <1>5 DEF p, r

LEMMA DivDiv ==
  ASSUME NEW x \in Nat, NEW u \in Nat \ {0}, NEW v \in Nat \ {0}
  PROVE  (x \div u) \div v = x \div (u * v)
<1> DEFINE q == x \div u
           r == q \div v
           a == x % u
           b == q % v
<1>1. q \in Nat /\ a \in Nat /\ a < u /\ x = u * q + a
  BY DivOf
<1> HIDE DEF q, a
<1>2. r \in Nat /\ b \in Nat /\ b < v /\ q = v * r + b
  BY <1>1, DivOf
<1> HIDE DEF r, b
<1>3. u * v \in Nat \ {0}
  OBVIOUS
<1>4. u * q = (u * v) * r + u * b /\ (u * v) * r \in Nat /\ u * b \in Nat /\ u * q \in Nat
  BY <1>1, <1>2
<1>5. u * b + u <= u * v
  <2>1. PICK d \in Nat : v = b + 1 + d
    <3>1. v - b - 1 \in Nat /\ v = b + 1 + (v - b - 1)
      BY <1>2
    <3> QED
      BY <3>1
  <2>2. u * v = u * b + u + u * d /\ u * d \in Nat
    BY <1>2, <2>1
  <2> QED
    BY <1>4, <2>2
<1> DEFINE w == u * v
<1>6. w * r <= x /\ x < w * r + w
  BY <1>1, <1>3, <1>4, <1>5
<1>7. w \in Nat \ {0}
  BY <1>3
<1> HIDE DEF w
<1>8. x \div w = r
  BY <1>2, <1>6, <1>7, DivIs
<1> QED
  BY <1>8 DEF w, r, q

LEMMA DivShift ==
  ASSUME NEW x \in Nat, NEW u \in Nat \ {0}, NEW t \in Nat
  PROVE  (x + u * t) \div u = (x \div u) + t /\ (x + u * t) % u = x % u
<1> DEFINE q == x \div u
           a == x % u
           y == x + u * t
<1>1. q \in Nat /\ a \in Nat /\ a < u /\ x = u * q + a
  BY DivOf
<1> HIDE DEF q, a
<1>2. u * (q + t) = u * q + u * t /\ u * q \in Nat /\ u * t \in Nat /\ q + t \in Nat
  BY <1>1
<1>3. y \in Nat /\ u * (q + t) <= y /\ y < u * (q + t) + u
  BY <1>1, <1>2
<1>4. y \div u = q + t /\ y % u = y - u * (q + t)
  BY <1>2, <1>3, DivIs
<1>5. y - u * (q + t) = a
  BY <1>1, <1>2
<1> QED
  BY <1>4, <1>5 DEF q, a

-----------------------------------------------------------------------------
\* A word is its four bytes.
LEMMA Powers ==
  ASSUME Numbers, NEW i \in 0 .. 4, NEW j \in 0 .. 4, i + j <= 4
  PROVE  Byte ^ (i + j) = Byte ^ i * Byte ^ j
<1> DEFINE c == Byte
           P(k) == Byte ^ k
<1>1. P(0) = 1 /\ P(1) = c /\ P(2) = c * c /\ P(3) = c * c * c /\ P(4) = (c * c) * (c * c)
  BY PowersAssumption DEF Half, Word
<1>2. c \in Nat
  BY DEF Numbers
<1>3. P(i + j) = P(i) * P(j)
  <2> HIDE DEF P, c
  <2>1. CASE i = 0
    <3>1. P(j) \in Nat
      BY <1>1, <1>2
    <3> QED
      BY <1>1, <2>1, <3>1
  <2>2. CASE j = 0
    <3>1. P(i) \in Nat
      BY <1>1, <1>2
    <3> QED
      BY <1>1, <2>2, <3>1
  <2>3. CASE i = 1 /\ j \in {1, 2, 3}
    BY <1>1, <1>2, <2>3
  <2>4. CASE i = 2 /\ j \in {1, 2}
    BY <1>1, <1>2, <2>4
  <2>5. CASE i = 3 /\ j = 1
    BY <1>1, <1>2, <2>5
  <2> QED
    BY <2>1, <2>2, <2>3, <2>4, <2>5
<1> QED
  BY <1>3

\* Bytes from the one above j on do not matter to byte j.
LEMMA LaneLow ==
  ASSUME Numbers, NEW x \in Nat, NEW t \in Nat, NEW j \in 0 .. 3, NEW k \in 0 .. 4, j < k
  PROVE  lane(x + Byte ^ k * t, j) = lane(x, j)
<1> DEFINE u == Byte ^ j
           s == Byte ^ (k - j - 1)
<1>1. u \in Nat \ {0} /\ s \in Nat /\ Byte \in Nat \ {0}
  BY DEF Numbers
<1>2. Byte ^ k = u * (Byte * s)
  <2>1. Byte ^ k = u * Byte ^ (k - j)
    <3>1. k - j \in 0 .. 4 /\ j + (k - j) = k
      OBVIOUS
    <3> QED
      BY <3>1, Powers
  <2>2. Byte ^ (k - j) = Byte * s
    <3>1. k - j - 1 \in 0 .. 4 /\ 1 + (k - j - 1) = k - j /\ 1 \in 0 .. 4
      OBVIOUS
    <3>2. Byte ^ (1 + (k - j - 1)) = Byte ^ 1 * Byte ^ (k - j - 1)
      BY <3>1, Powers
    <3> QED
      BY <3>1, <3>2, PowersAssumption
  <2> QED
    BY <2>1, <2>2
<1>3. lane(x + Byte ^ k * t, j) = ((x + Byte ^ k * t) \div u) % Byte /\ lane(x, j) = (x \div u) % Byte
  BY DEF lane
<1> HIDE DEF u, s
<1>4. s * t \in Nat /\ Byte * (s * t) \in Nat /\ Byte ^ k * t = u * (Byte * (s * t))
  BY <1>1, <1>2
<1>5. (x + u * (Byte * (s * t))) \div u = (x \div u) + Byte * (s * t)
  BY <1>1, <1>4, DivShift
<1>6. x \div u \in Nat
  BY <1>1
<1>7. ((x \div u) + Byte * (s * t)) % Byte = (x \div u) % Byte
  BY <1>1, <1>4, <1>6, DivShift
<1> QED
  BY <1>3, <1>4, <1>5, <1>7

LEMMA LaneByte == ASSUME Numbers, NEW v \in Nat, NEW k \in 0 .. 3 PROVE lane(v, k) \in ByteValues
<1> DEFINE b == Byte ^ k
<1>1. b \in Nat \ {0} /\ Byte \in Nat \ {0}
  BY DEF Numbers
<1>2. lane(v, k) = (v \div b) % Byte
  BY DEF lane
<1> HIDE DEF b
<1> QED
  BY <1>1, <1>2 DEF ByteValues

\* A shift to the right moves the bytes down.
LEMMA LaneRight ==
  ASSUME Numbers, NEW v \in Nat, NEW k \in 0 .. 4, NEW j \in 0 .. 4, j + k <= 4
  PROVE  right(v, k) \in Nat /\ lane(right(v, k), j) = lane(v, j + k)
<1> DEFINE a == Byte ^ k
           b == Byte ^ j
<1>1. a \in Nat \ {0} /\ b \in Nat \ {0}
  BY DEF Numbers
<1>2. Byte ^ (j + k) = a * b
  <2>1. k + j = j + k
    OBVIOUS
  <2> QED
    BY <2>1, Powers
<1>3. right(v, k) = v \div a /\ lane(right(v, k), j) = ((v \div a) \div b) % Byte
      /\ lane(v, j + k) = (v \div Byte ^ (j + k)) % Byte
  BY DEF right, lane
<1> HIDE DEF a, b
<1>4. v \div a \in Nat
  BY <1>1
<1>5. (v \div a) \div b = v \div (a * b)
  BY <1>1, DivDiv
<1> QED
  BY <1>2, <1>3, <1>4, <1>5

\* A number is what is below byte k and what is from there on.
LEMMA Halves ==
  ASSUME Numbers, NEW v \in Nat, NEW k \in 0 .. 4
  PROVE  /\ v % Byte ^ k \in Nat /\ v % Byte ^ k < Byte ^ k /\ right(v, k) \in Nat
         /\ v = (v % Byte ^ k) + Byte ^ k * right(v, k)
<1> DEFINE a == Byte ^ k
<1>1. a \in Nat \ {0}
  BY DEF Numbers
<1>2. right(v, k) = v \div a
  BY DEF right
<1> HIDE DEF a
<1>3. v \div a \in Nat /\ v % a \in 0 .. a - 1 /\ v = a * (v \div a) + (v % a)
  BY <1>1, DivOf
<1>4. a * (v \div a) \in Nat
  BY <1>1, <1>3
<1>5. v % a \in Nat /\ v % a < a /\ right(v, k) \in Nat /\ v = (v % a) + a * right(v, k)
  BY <1>1, <1>2, <1>3, <1>4
<1> QED
  BY <1>5 DEF a

\* The bytes of a word put together from two.
LEMMA LaneJoin ==
  ASSUME Numbers, NEW x \in Nat, NEW y \in Nat, NEW k \in 0 .. 4, NEW j \in 0 .. 3
  PROVE  /\ join(x, y, k) \in Nat
         /\ lane(join(x, y, k), j) = IF j < k THEN lane(x, j) ELSE lane(y, j)
<1> DEFINE a == Byte ^ k
           below == x % a
           above == right(y, k)
<1>1. a \in Nat \ {0} /\ below \in Nat /\ below < a /\ above \in Nat /\ y = (y % a) + a * above /\ y % a \in Nat
  BY Halves DEF Numbers
<1>2. join(x, y, k) = below + (y - (y % a))
  BY DEF join
<1>3. x = below + a * right(x, k) /\ right(x, k) \in Nat
  BY Halves
<1> HIDE DEF below, above
<1>4. join(x, y, k) = below + a * above /\ a * above \in Nat
  <2> HIDE DEF a
  <2> QED
    BY <1>1, <1>2
<1>5. join(x, y, k) \in Nat
  BY <1>1, <1>4
<1>6. CASE j < k
  <2> DEFINE r == right(x, k)
  <2>1. r \in Nat /\ x = below + a * r
    BY <1>3
  <2> HIDE DEF r
  <2>2. lane(below + Byte ^ k * above, j) = lane(below, j)
    BY <1>1, <1>6, LaneLow
  <2>3. lane(below + Byte ^ k * r, j) = lane(below, j)
    <3>1. r \in Nat /\ below \in Nat
      BY <1>1, <2>1
    <3> QED
      BY <1>6, <3>1, LaneLow
  <2>4. lane(join(x, y, k), j) = lane(below, j)
    BY <1>4, <2>2
  <2>5. lane(x, j) = lane(below, j)
    BY <2>1, <2>3
  <2> QED
    BY <1>5, <1>6, <2>4, <2>5
<1>7. CASE ~(j < k)
  <2> DEFINE z == join(x, y, k)
  <2>1. (below + a * above) \div a = above
    <3> HIDE DEF a
    <3> DEFINE h == below + a * above
    <3>1. a * above <= h /\ h < a * above + a /\ h \in Nat
      BY <1>1, <1>4
    <3> HIDE DEF h
    <3>2. h \div a = above
      BY <1>1, <3>1, DivIs
    <3> QED
      BY <3>2 DEF h
  <2>2. right(z, k) = above
    BY <1>4, <2>1 DEF right
  <2>3. j - k \in 0 .. 4 /\ (j - k) + k = j /\ (j - k) + k <= 4
    BY <1>7
  <2>4. lane(right(z, k), j - k) = lane(z, (j - k) + k) /\ lane(right(y, k), j - k) = lane(y, (j - k) + k)
    BY <1>5, <2>3, LaneRight
  <2> QED
    BY <1>5, <1>7, <2>2, <2>3, <2>4 DEF above
<1> QED
  BY <1>6, <1>7

\* A shift to the left moves them up.
LEMMA LaneLeft ==
  ASSUME Numbers, NEW v \in Nat, NEW k \in 0 .. 3, NEW j \in 0 .. 3, k <= j
  PROVE  left(v, k) \in WordValues /\ lane(left(v, k), j) = lane(v, j - k)
<1> DEFINE a == Byte ^ k
           x == v * a
           z == left(v, k)
<1>1. a \in Nat \ {0} /\ Word \in Nat \ {0} /\ Word = Byte ^ 4
  BY PowersAssumption DEF Numbers
<1>2. z = x % Word
  BY DEF left, wrap
<1> HIDE DEF a
<1>3. x \in Nat
  BY <1>1
<1>4. z \in WordValues /\ z \in Nat
  <2> HIDE DEF x, z
  <2> QED
    BY <1>1, <1>2, <1>3 DEF WordValues
<1>5. x = z + Byte ^ 4 * right(x, 4) /\ right(x, 4) \in Nat
  <2>1. 4 \in 0 .. 4
    OBVIOUS
  <2> HIDE DEF x, z
  <2> QED
    BY <1>1, <1>2, <1>3, <2>1, Halves
<1>6. lane(z, j) = lane(x, j)
  <2>1. 4 \in 0 .. 4 /\ j < 4
    OBVIOUS
  <2>2. lane(z + Byte ^ 4 * right(x, 4), j) = lane(z, j)
    BY <1>4, <1>5, <2>1, LaneLow
  <2> QED
    BY <1>5, <2>2
<1>7. right(x, k) = v
  <2>1. a * v <= x /\ x < a * v + a /\ v \in Nat
    BY <1>1
  <2>2. x \div a = v
    <3> HIDE DEF x
    <3> QED
      BY <1>1, <1>3, <2>1, DivIs
  <2> QED
    BY <2>2 DEF right, a
<1>8. lane(right(x, k), j - k) = lane(x, (j - k) + k) /\ (j - k) + k = j
  <2>1. j - k \in 0 .. 4 /\ (j - k) + k = j /\ (j - k) + k <= 4 /\ k \in 0 .. 4
    OBVIOUS
  <2> HIDE DEF x
  <2> QED
    BY <1>3, <2>1, LaneRight
<1> QED
  BY <1>4, <1>6, <1>7, <1>8

\* A word from its bytes, and its bytes from the word.
Made(b0, b1, b2, b3) == b0 + Byte * b1 + Half * b2 + Half * Byte * b3

LEMMA Below ==
  ASSUME NEW u \in Nat \ {0}, NEW w \in Nat \ {0}, NEW x \in 0 .. u - 1, NEW y \in 0 .. w - 1
  PROVE  x + u * y \in 0 .. u * w - 1
<1>1. PICK d \in Nat : w = y + 1 + d
  <2>1. w - y - 1 \in Nat /\ w = y + 1 + (w - y - 1)
    OBVIOUS
  <2> QED
    BY <2>1
<1>2. u * w = u * y + u + u * d /\ u * d \in Nat /\ u * y \in Nat
  BY <1>1
<1>3. u * w \in Nat
  OBVIOUS
<1> QED
  BY <1>2, <1>3

LEMMA DivBelow ==
  ASSUME NEW x \in Nat, NEW u \in Nat \ {0}, NEW w \in Nat \ {0}, x < u * w PROVE x \div u \in 0 .. w - 1
<1> DEFINE q == x \div u
<1>1. q \in Nat /\ u * q <= x
  <2>1. q \in Nat /\ x % u \in 0 .. u - 1 /\ x = u * q + (x % u)
    BY DivOf
  <2> HIDE DEF q
  <2>2. u * q \in Nat /\ x % u \in Nat
    BY <2>1
  <2> QED
    BY <2>1, <2>2
<1> HIDE DEF q
<1>2. SUFFICES ASSUME ~(q < w) PROVE FALSE
  BY <1>1 DEF q
<1>3. PICK d \in Nat : q = w + d
  <2>1. q - w \in Nat /\ q = w + (q - w)
    BY <1>1, <1>2
  <2> QED
    BY <2>1
<1>4. u * q = u * w + u * d /\ u * d \in Nat /\ u * w \in Nat
  BY <1>1, <1>3
<1> QED
  BY <1>1, <1>4

LEMMA DivLess == ASSUME NEW x \in Nat, NEW u \in Nat \ {0} PROVE x \div u \in 0 .. x
<1> DEFINE w == x + 1
<1>1. PICK d \in Nat : u = 1 + d
  <2>1. u - 1 \in Nat /\ u = 1 + (u - 1)
    OBVIOUS
  <2> QED
    BY <2>1
<1>2. u * w = w + d * w /\ d * w \in Nat
  BY <1>1
<1>3. x \div u \in 0 .. w - 1
  BY <1>2, DivBelow
<1> QED
  BY <1>3

LEMMA ProductBelow ==
  ASSUME NEW w \in Nat \ {0}, NEW x \in 0 .. w - 1, NEW y \in 0 .. w - 1 PROVE x * y \in Nat /\ x * y < w * w
<1>1. x * y + (w - y) \in Nat /\ y + w * x \in 0 .. w * w - 1
  BY Below
<1>2. PICK d \in Nat : w = x + 1 + d
  <2>1. w - x - 1 \in Nat /\ w = x + 1 + (w - x - 1)
    OBVIOUS
  <2> QED
    BY <2>1
<1>3. PICK e \in Nat : w = y + 1 + e
  <2>1. w - y - 1 \in Nat /\ w = y + 1 + (w - y - 1)
    OBVIOUS
  <2> QED
    BY <2>1
<1>4. w * x = x * y + x + x * e /\ x * e \in Nat /\ x * y \in Nat /\ w * x \in Nat
  BY <1>3
<1>5. w * w \in Nat
  OBVIOUS
<1> QED
  BY <1>1, <1>4, <1>5

\* A word put together from two words is one.
LEMMA JoinWord ==
  ASSUME Numbers, NEW x \in Nat, NEW y \in WordValues, NEW k \in 0 .. 4 PROVE join(x, y, k) \in WordValues
<1> DEFINE a == Byte ^ k
           b == Byte ^ (4 - k)
           rest == right(y, k)
<1>1. a \in Nat \ {0} /\ b \in Nat \ {0} /\ y \in Nat /\ y < Word
  BY DEF Numbers, WordValues
<1>2. a * b = Word
  <2>1. 4 - k \in 0 .. 4 /\ k + (4 - k) = 4
    OBVIOUS
  <2> QED
    BY <2>1, Powers, PowersAssumption
<1>3. x % a \in 0 .. a - 1 /\ y = (y % a) + a * rest /\ rest \in Nat /\ y % a \in Nat
  <2>1. x % a \in Nat /\ x % a < a /\ y = (y % a) + a * rest /\ rest \in Nat /\ y % a \in Nat
    BY <1>1, Halves
  <2> HIDE DEF a, rest
  <2> QED
    BY <1>1, <2>1
<1>4. join(x, y, k) = (x % a) + (y - (y % a))
  BY DEF join
<1>5. rest = y \div a
  BY DEF right
<1> HIDE DEF a, b, rest
<1>6. rest \in 0 .. b - 1
  BY <1>1, <1>2, <1>5, DivBelow
<1>7. (x % a) + a * rest \in 0 .. a * b - 1
  BY <1>1, <1>3, <1>6, Below
<1>8. a * rest \in Nat
  BY <1>1, <1>3
<1> QED
  BY <1>2, <1>3, <1>4, <1>7, <1>8 DEF WordValues

LEMMA MadeOf ==
  ASSUME Numbers, NEW b0 \in ByteValues, NEW b1 \in ByteValues, NEW b2 \in ByteValues, NEW b3 \in ByteValues
  PROVE  LET v == Made(b0, b1, b2, b3)
         IN  v \in WordValues /\ lane(v, 0) = b0 /\ lane(v, 1) = b1 /\ lane(v, 2) = b2 /\ lane(v, 3) = b3
<1> DEFINE v == Made(b0, b1, b2, b3)
           c == Byte
           x3 == b3
           x2 == b2 + c * x3
           x1 == b1 + c * x2
           x0 == b0 + c * x1
<1>1. c \in Nat \ {0} /\ b0 \in 0 .. c - 1 /\ b1 \in 0 .. c - 1 /\ b2 \in 0 .. c - 1 /\ b3 \in 0 .. c - 1
  BY DEF Numbers, ByteValues
<1>2. c * c \in Nat \ {0} /\ c * (c * c) \in Nat \ {0} /\ c * (c * (c * c)) = Word
  <2>1. Word = (c * c) * (c * c)
    BY DEF Word, Half
  <2> HIDE DEF c
  <2> QED
    BY <1>1, <2>1
<1>3. v = x0
  <2>1. v = b0 + c * b1 + (c * c) * b2 + (c * c) * c * b3
    BY DEF Made, Half
  <2> HIDE DEF c, v
  <2>2. b0 \in Nat /\ b1 \in Nat /\ b2 \in Nat /\ b3 \in Nat
    BY <1>1
  <2>3. c * (b2 + c * b3) = c * b2 + c * (c * b3)
    BY <1>1, <2>2
  <2>4. c * (b1 + c * (b2 + c * b3)) = c * b1 + c * (c * b2) + c * (c * (c * b3))
    BY <1>1, <2>2
  <2> QED
    BY <1>1, <2>1, <2>2, <2>4
<1> HIDE DEF c, v, x0, x1, x2
<1>4. x2 \in 0 .. c * c - 1
  BY <1>1, Below DEF x2
<1>5. x1 \in 0 .. c * (c * c) - 1
  BY <1>1, <1>2, <1>4, Below DEF x1
<1>6. x0 \in 0 .. c * (c * (c * c)) - 1
  BY <1>1, <1>2, <1>5, Below DEF x0
<1>7. x0 \in Nat /\ x1 \in Nat /\ x2 \in Nat
  BY <1>4, <1>5, <1>6
<1>8. ASSUME NEW b \in 0 .. c - 1, NEW x \in Nat PROVE (b + c * x) \div c = x /\ (b + c * x) % c = b
  <2>1. b + c * x \in Nat /\ c * x <= b + c * x /\ b + c * x < c * x + c /\ c * x \in Nat
    BY <1>1
  <2>2. (b + c * x) \div c = x /\ (b + c * x) % c = (b + c * x) - c * x
    BY <1>1, <2>1, DivIs
  <2> QED
    BY <2>1, <2>2
<1>9. x0 \div c = x1 /\ x0 % c = b0 /\ x1 \div c = x2 /\ x1 % c = b1 /\ x2 \div c = b3 /\ x2 % c = b2
  <2>1. x0 = b0 + c * x1 /\ x1 = b1 + c * x2 /\ x2 = b2 + c * b3 /\ b3 \in Nat
    BY <1>1 DEF x0, x1, x2
  <2> QED
    BY <1>1, <1>7, <1>8, <2>1
<1>10. right(v, 0) = x0 /\ right(v, 1) = x1 /\ right(v, 2) = x2 /\ right(v, 3) = b3
  <2>1. Byte ^ 0 = 1 /\ Byte ^ 1 = c /\ Byte ^ 2 = c * c /\ Byte ^ 3 = (c * c) * c
    BY PowersAssumption DEF c, Half
  <2>2. x0 \div 1 = x0
    BY <1>7
  <2>3. x0 \div (c * c) = x2
    BY <1>1, <1>7, <1>9, DivDiv
  <2>4. x0 \div ((c * c) * c) = b3
    <3>1. (x0 \div (c * c)) \div c = x0 \div ((c * c) * c)
      BY <1>1, <1>2, <1>7, DivDiv
    <3> QED
      BY <1>9, <2>3, <3>1
  <2> QED
    BY <1>3, <1>9, <2>1, <2>2, <2>3, <2>4 DEF right
<1>11. \A k \in 0 .. 3 : lane(v, k) = right(v, k) % c
  BY DEF lane, right, c
<1>12. b3 % c = b3
  BY <1>1
<1> QED
  BY <1>2, <1>3, <1>6, <1>9, <1>10, <1>11, <1>12 DEF WordValues, v

LEMMA MadeFrom ==
  ASSUME Numbers, NEW v \in WordValues PROVE Made(lane(v, 0), lane(v, 1), lane(v, 2), lane(v, 3)) = v
<1> DEFINE c == Byte
           q(k) == right(v, k)
<1>1. v \in Nat /\ c \in Nat \ {0}
  BY DEF Numbers, WordValues
<1>2. q(0) = v /\ q(1) \in Nat /\ q(2) \in Nat /\ q(3) \in Nat
  <2>1. right(v, 0) = v
    BY <1>1, PowersAssumption DEF right
  <2> QED
    BY <1>1, <2>1, Halves
<1>3. q(1) = v \div c /\ q(2) = q(1) \div c /\ q(3) = q(2) \div c
  <2>1. Byte ^ 1 = c /\ Byte ^ 2 = c * c /\ Byte ^ 3 = (c * c) * c /\ c * c \in Nat \ {0}
    BY <1>1, PowersAssumption DEF Half
  <2>2. (v \div c) \div c = v \div (c * c) /\ (v \div (c * c)) \div c = v \div ((c * c) * c)
    <3> HIDE DEF c
    <3> QED
      BY <1>1, <2>1, DivDiv
  <2> QED
    BY <2>1, <2>2 DEF right
<1>4. q(3) < c
  <2>1. v = (v % Byte ^ 3) + Byte ^ 3 * right(v, 3) /\ v % Byte ^ 3 \in Nat
    BY <1>1, Halves
  <2> DEFINE t == Byte ^ 3
  <2>2. t \in Nat \ {0} /\ Word = t * c
    <3>1. Word = Half * Half /\ Half = c * c /\ t = Half * c
      BY PowersAssumption DEF Word, Half
    <3>2. Half \in Nat \ {0}
      BY DEF Numbers
    <3> HIDE DEF c, t
    <3>3. Half * (c * c) = (Half * c) * c
      BY <1>1, <3>2
    <3> QED
      BY <3>1, <3>2, <3>3, <1>1
  <2> DEFINE r == right(v, 3)
  <2> HIDE DEF t, c, r
  <2>3. v = (v % t) + t * r /\ r \in Nat /\ v < t * c /\ v % t \in Nat
    BY <1>2, <2>1, <2>2 DEF WordValues, t, r
  <2>4. v \div t = r
    BY DEF right, r, t
  <2>5. v \div t \in 0 .. c - 1
    BY <1>1, <2>2, <2>3, DivBelow
  <2> QED
    BY <1>1, <2>3, <2>4, <2>5 DEF r
<1>5. \A k \in 0 .. 3 : lane(v, k) = q(k) % c
  BY DEF lane, right
<1> DEFINE b0 == q(0) % c
           b1 == q(1) % c
           b2 == q(2) % c
           b3 == q(3)
<1>6. lane(v, 0) = b0 /\ lane(v, 1) = b1 /\ lane(v, 2) = b2 /\ lane(v, 3) = b3
  <2>1. q(3) % c = q(3)
    <3> HIDE DEF q, c
    <3> QED
      BY <1>1, <1>2, <1>4
  <2> QED
    BY <1>5, <2>1
<1>7. v = c * q(1) + b0 /\ q(1) = c * q(2) + b1 /\ q(2) = c * b3 + b2
  <2> HIDE DEF q, c
  <2> QED
    BY <1>1, <1>2, <1>3, DivOf
<1>8. b0 \in Nat /\ b1 \in Nat /\ b2 \in Nat /\ b3 \in Nat
  <2> HIDE DEF q, c
  <2> QED
    BY <1>1, <1>2
<1>9. Made(b0, b1, b2, b3) = b0 + c * b1 + (c * c) * b2 + (c * c) * c * b3
  BY DEF Made, Half
<1> HIDE DEF b0, b1, b2, b3, q, c
<1>10. c * (c * b3 + b2) = c * (c * b3) + c * b2
  BY <1>1, <1>8
<1>11. c * (c * (c * b3 + b2) + b1) = (c * c) * c * b3 + (c * c) * b2 + c * b1
  BY <1>1, <1>8
<1> QED
  BY <1>1, <1>6, <1>7, <1>8, <1>9, <1>11
-----------------------------------------------------------------------------
(***************************************************************************)
(* Registers and the load delay slot.                                      *)
(***************************************************************************)
MachineFields == {"last_pc", "pc", "next_pc", "in_branch_delay", "branched", "hi", "lo", "regs",
           "load_delay", "gte", "cop0", "mem", "ctrl", "icache"}
CopFields == {"isolated", "bad", "code", "epc"}

\* The machine's fields and registers, whatever they hold.
Shape(n) ==
  /\ n = [x \in MachineFields |-> n[x]]
  /\ n.cop0 = [x \in CopFields |-> n.cop0[x]]
  /\ n.regs = [r \in Regs |-> n.regs[r]]
  /\ n.load_delay.reg \in Regs

Same(n, e, S) == \A x \in MachineFields \ S : e[x] = n[x]

Put(regs, r, v) == IF r = ZERO THEN regs ELSE [regs EXCEPT ![r] = v]
Delivered(n) == Put(n.regs, n.load_delay.reg, n.load_delay.val)

Thrown(n, e) ==
  /\ Shape(e) /\ Same(n, e, {"regs", "load_delay", "cop0", "pc", "next_pc", "icache"})
  /\ e.cop0.code # "none" /\ e.cop0.isolated = n.cop0.isolated /\ e.pc = Vector
  /\ e.cop0.epc = IF n.in_branch_delay THEN wrap(n.last_pc - 4) ELSE n.last_pc

Refused(n, e) == Thrown(n, e) /\ e.regs = n.regs /\ e.load_delay = n.load_delay
Trapped(n, e) == Thrown(n, e) /\ e.regs = Delivered(n) /\ e.load_delay = NoLoad

Stored(n, e, r, v) ==
  /\ Shape(e) /\ e.cop0.code = n.cop0.code
  /\ e.regs = Put(Delivered(n), r, v) /\ e.load_delay = NoLoad

Loaded(n, e, r, v) ==
  /\ Shape(e) /\ e.cop0.code = n.cop0.code
  /\ e.regs = Put(n.regs, IF n.load_delay.reg = r THEN ZERO ELSE n.load_delay.reg, n.load_delay.val)
  /\ e.load_delay = [reg |-> r, val |-> v]

Registers == Regs \subseteq Nat /\ ZERO \in Regs /\ RA \in Regs \ {ZERO}

LEMMA StoreReg ==
  ASSUME NEW n, Shape(n), NEW r \in Regs, NEW v
  PROVE  LET e == store_reg(n, r, v) IN Shape(e) /\ e.regs = Put(n.regs, r, v) /\ Same(n, e, {"regs"})
<1> DEFINE R == [n.regs EXCEPT ![r] = v]
<1>1. CASE r = ZERO
  BY <1>1 DEF store_reg, Put, Same
<1>2. CASE r # ZERO
  <2>1. store_reg(n, r, v) = [n EXCEPT !.regs = R] /\ Put(n.regs, r, v) = R
    BY <1>2 DEF store_reg, Put
  <2>2. R = [x \in Regs |-> R[x]]
    BY DEF Shape
  <2> HIDE DEF R
  <2> QED
    BY <2>1, <2>2 DEF Shape, Same, MachineFields
<1> QED
  BY <1>1, <1>2

LEMMA Slot ==
  ASSUME Registers, NEW n, Shape(n)
  PROVE  LET e == fetch_load_slot(n)
         IN  /\ Shape(e) /\ e.regs = Delivered(n) /\ e.load_delay = NoLoad
             /\ Same(n, e, {"regs", "load_delay"})
<1> DEFINE s == store_reg(n, n.load_delay.reg, n.load_delay.val)
<1>1. Shape(s) /\ s.regs = Delivered(n) /\ Same(n, s, {"regs"})
  BY StoreReg DEF Shape, Delivered
<1>2. fetch_load_slot(n) = [s EXCEPT !.load_delay = NoLoad]
  BY DEF fetch_load_slot
<1> HIDE DEF s
<1>3. NoLoad.reg \in Regs
  BY DEF NoLoad, Registers
<1> QED
  BY <1>1, <1>2, <1>3 DEF Shape, Same, MachineFields

LEMMA PipelineLoad ==
  ASSUME Registers, NEW n, Shape(n), NEW r \in Regs, NEW v
  PROVE  Loaded(n, pipeline_load(n, r, v), r, v)
<1> DEFINE d == IF n.load_delay.reg = r THEN ZERO ELSE n.load_delay.reg
           s == store_reg(n, d, n.load_delay.val)
           L == [reg |-> r, val |-> v]
<1>1. d \in Regs
  BY DEF Shape, Registers
<1>2. Shape(s) /\ s.regs = Put(n.regs, d, n.load_delay.val) /\ Same(n, s, {"regs"})
  BY <1>1, StoreReg
<1>3. pipeline_load(n, r, v) = [s EXCEPT !.load_delay = L]
  BY DEF pipeline_load
<1>4. L.reg = r
  OBVIOUS
<1> HIDE DEF s, d, L
<1> DEFINE e == [s EXCEPT !.load_delay = L]
<1>5. Shape(e) /\ e.cop0 = s.cop0 /\ e.regs = s.regs /\ e.load_delay = L
  BY <1>2, <1>4 DEF Shape, MachineFields
<1>6. s.cop0 = n.cop0
  BY <1>2 DEF Same, MachineFields
<1> HIDE DEF e
<1> QED
  BY <1>2, <1>3, <1>5, <1>6 DEF Loaded, d, L, e

LEMMA Throw ==
  ASSUME NEW n, Shape(n), NEW code, code # "none"
  PROVE  LET e == throw_exception(n, code)
         IN  Thrown(n, e) /\ e.regs = n.regs /\ e.load_delay = n.load_delay
<1> DEFINE epc == IF n.in_branch_delay THEN wrap(n.last_pc - 4) ELSE n.last_pc
           next == wrap(Vector + 4)
           e == [n EXCEPT !.cop0.code = code, !.cop0.epc = epc, !.pc = Vector, !.next_pc = next]
<1>1. throw_exception(n, code) = e
  BY DEF throw_exception
<1> HIDE DEF next, epc
<1>2. e = [x \in MachineFields |-> e[x]] /\ Same(n, e, {"cop0", "pc", "next_pc"}) /\ e.pc = Vector
  BY DEF Shape, Same, MachineFields
<1>3. /\ e.cop0 = [x \in CopFields |-> e.cop0[x]] /\ e.cop0.code = code /\ e.cop0.epc = epc
      /\ e.cop0.isolated = n.cop0.isolated
  BY DEF Shape, CopFields, MachineFields
<1> HIDE DEF e
<1>4. e.regs = n.regs /\ e.load_delay = n.load_delay
  BY <1>2 DEF Same, MachineFields
<1>5. Shape(e) /\ Same(n, e, {"regs", "load_delay", "cop0", "pc", "next_pc", "icache"})
  BY <1>2, <1>3, <1>4 DEF Shape, Same
<1> QED
  BY <1>1, <1>2, <1>3, <1>4, <1>5 DEF Thrown, epc

LEMMA Bad ==
  ASSUME NEW n, Shape(n), NEW a
  PROVE  LET e == [n EXCEPT !.cop0.bad = a]
         IN  /\ Shape(e) /\ Same(n, e, {"cop0"}) /\ e.regs = n.regs /\ e.load_delay = n.load_delay
             /\ e.cop0.code = n.cop0.code /\ e.cop0.isolated = n.cop0.isolated
<1> DEFINE e == [n EXCEPT !.cop0.bad = a]
<1>2. e = [x \in MachineFields |-> e[x]] /\ Same(n, e, {"cop0"})
  BY DEF Shape, Same, MachineFields
<1>3. /\ e.cop0 = [x \in CopFields |-> e.cop0[x]]
      /\ e.cop0.code = n.cop0.code /\ e.cop0.isolated = n.cop0.isolated
  BY DEF Shape, CopFields, MachineFields
<1> HIDE DEF e
<1>4. e.regs = n.regs /\ e.load_delay = n.load_delay
  BY <1>2 DEF Same, MachineFields
<1> QED
  BY <1>2, <1>3, <1>4 DEF Shape, e

LEMMA RefusedBy ==
  ASSUME NEW n, NEW d, Shape(d), Same(n, d, {"cop0"}), d.cop0.isolated = n.cop0.isolated,
         NEW code, code # "none"
  PROVE  Refused(n, throw_exception(d, code))
<1> DEFINE e == throw_exception(d, code)
<1>1. Thrown(d, e) /\ e.regs = d.regs /\ e.load_delay = d.load_delay
  BY Throw
<1> HIDE DEF e
<1>2. /\ d.in_branch_delay = n.in_branch_delay /\ d.last_pc = n.last_pc
      /\ d.regs = n.regs /\ d.load_delay = n.load_delay
  BY DEF Same, MachineFields
<1>3. Same(n, e, {"regs", "load_delay", "cop0", "pc", "next_pc", "icache"})
  BY <1>1 DEF Thrown, Same
<1> QED
  BY <1>1, <1>2, <1>3 DEF Thrown, Refused, e

\* What is refused after the pending load was delivered.
LEMMA RefusedAfter ==
  ASSUME Registers, NEW n, Shape(n), NEW e, Refused(fetch_load_slot(n), e) PROVE Trapped(n, e)
<1> DEFINE d == fetch_load_slot(n)
<1>1. Shape(d) /\ d.regs = Delivered(n) /\ d.load_delay = NoLoad /\ Same(n, d, {"regs", "load_delay"})
  BY Slot
<1>2. Refused(d, e)
  OBVIOUS
<1> HIDE DEF d
<1>3. d.in_branch_delay = n.in_branch_delay /\ d.last_pc = n.last_pc /\ d.cop0 = n.cop0
  BY <1>1 DEF Same, MachineFields
<1>4. Same(n, e, {"regs", "load_delay", "cop0", "pc", "next_pc", "icache"})
  BY <1>1, <1>2 DEF Refused, Thrown, Same
<1> QED
  BY <1>1, <1>2, <1>3, <1>4 DEF Thrown, Refused, Trapped

LEMMA ThrowRefused ==
  ASSUME NEW n, Shape(n), NEW code, code # "none" PROVE Refused(n, throw_exception(n, code))
BY Throw DEF Refused

LEMMA LoadFailed ==
  ASSUME NEW n, Shape(n), NEW a, NEW exc, exc # "none"
  PROVE  Refused(n, load_failed(n, a, exc))
<1>1. CASE exc = "AddressLoadError"
  <2> DEFINE B == [n EXCEPT !.cop0.bad = a]
  <2>1. Shape(B) /\ Same(n, B, {"cop0"}) /\ B.cop0.isolated = n.cop0.isolated
    BY Bad
  <2>2. load_failed(n, a, exc) = throw_exception(B, exc)
    BY <1>1 DEF load_failed
  <2> HIDE DEF B
  <2> QED
    BY <2>1, <2>2, RefusedBy
<1>2. CASE exc # "AddressLoadError"
  BY <1>2, ThrowRefused DEF load_failed
<1> QED
  BY <1>1, <1>2

LEMMA LoadMapped ==
  ASSUME NEW n, NEW w, NEW a, load(n, w, a).exc = "none"
  PROVE  is_aligned_to(w, a) /\ bus_target(regioned_addr(a)) # "none"
<1> DEFINE phys == regioned_addr(a)
           val == bus_load(n.mem, n.ctrl, w, phys)
<1>1. load(n, w, a) = CASE ~is_aligned_to(w, a) -> [exc |-> "AddressLoadError"]
        [] is_aligned_to(w, a) /\ phys \in ScratchPad ->
             [exc |-> "none", val |-> load_unchecked(n.mem, w, phys)]
        [] OTHER -> IF val = Unmapped THEN [exc |-> "BusDataError"] ELSE [exc |-> "none", val |-> val]
  BY DEF load
<1> HIDE DEF phys
<1>2. is_aligned_to(w, a)
  BY <1>1
<1>3. phys \in ScratchPad \/ val # Unmapped
  BY <1>1, <1>2
<1>4. phys \in ScratchPad \/ phys \in Ram \/ phys \in CacheCtrl
  BY <1>3 DEF bus_load
<1>5. bus_target(phys) # "none"
  BY <1>4 DEF bus_target
<1> QED
  BY <1>2, <1>5 DEF phys

StoreFails(n, w, a) == 
  ~is_aligned_to(w, a) \/ (~n.cop0.isolated /\ bus_target(regioned_addr(a)) = "none")

LEMMA BusTarget == ASSUME NEW a PROVE bus_target(a) \in {"mem", "ctrl", "none"}
BY DEF bus_target

LEMMA Store ==
  ASSUME NEW n, Shape(n), NEW w, NEW a, NEW v
  PROVE  LET e == store(n, w, a, v)
         IN  /\ StoreFails(n, w, a) => Refused(n, e)
             /\ ~StoreFails(n, w, a) =>
                  Shape(e) /\ e.regs = n.regs /\ e.load_delay = n.load_delay /\ e.cop0 = n.cop0
<1> DEFINE phys == regioned_addr(a)
           l == line_idx(phys)
           t == bus_target(phys)
           M == store_unchecked(n.mem, w, phys, v)
           C == v % Byte ^ w
           I1 == [n.icache EXCEPT ![l] = invalidate(@)]
           I2 == [n.icache EXCEPT ![l].data[word_idx(phys)] = C]
           B == [n EXCEPT !.cop0.bad = a]
<1>1. store(n, w, a, v) =
        CASE ~is_aligned_to(w, a) -> throw_exception(B, "AddressStoreError")
          [] is_aligned_to(w, a) /\ ~n.cop0.isolated ->
               CASE t = "mem" -> [n EXCEPT !.mem = M]
                 [] t = "ctrl" -> [n EXCEPT !.ctrl = C]
                 [] OTHER -> throw_exception(n, "BusDataError")
          [] OTHER ->
               CASE ~icache_enabled(n.ctrl) -> n
                 [] icache_enabled(n.ctrl) /\ tag_test_enabled(n.ctrl) -> [n EXCEPT !.icache = I1]
                 [] OTHER -> [n EXCEPT !.icache = I2]
  BY DEF store
<1>2. t \in {"mem", "ctrl", "none"}
  BY BusTarget
<1>3. Shape(B) /\ Same(n, B, {"cop0"}) /\ B.cop0.isolated = n.cop0.isolated
  BY Bad
<1> HIDE DEF M, C, I1, I2, t, B
<1>4. ASSUME NEW e, e \in {n, [n EXCEPT !.mem = M], [n EXCEPT !.ctrl = C], [n EXCEPT !.icache = I1], [n EXCEPT !.icache = I2]}
      PROVE  Shape(e) /\ e.regs = n.regs /\ e.load_delay = n.load_delay /\ e.cop0 = n.cop0
  BY <1>4 DEF Shape, MachineFields
<1>5. Refused(n, throw_exception(B, "AddressStoreError")) /\ Refused(n, throw_exception(n, "BusDataError"))
  BY <1>3, RefusedBy, ThrowRefused
<1>6. CASE ~is_aligned_to(w, a)
  BY <1>1, <1>5, <1>6 DEF StoreFails
<1>7. CASE is_aligned_to(w, a) /\ ~n.cop0.isolated
  BY <1>1, <1>2, <1>4, <1>5, <1>7 DEF StoreFails, t, phys
<1>8. CASE is_aligned_to(w, a) /\ n.cop0.isolated
  BY <1>1, <1>4, <1>8 DEF StoreFails
<1> QED
  BY <1>6, <1>7, <1>8

\* A store after the pending load was delivered.
LEMMA StoreOutcome ==
  ASSUME Registers, NEW n, Shape(n), NEW w, NEW a, NEW v
  PROVE  LET e == store(fetch_load_slot(n), w, a, v)
         IN  IF StoreFails(n, w, a) THEN Trapped(n, e) ELSE \A u : Stored(n, e, ZERO, u)
<1> DEFINE s == fetch_load_slot(n)
           e == store(s, w, a, v)
<1>1. Shape(s) /\ s.regs = Delivered(n) /\ s.load_delay = NoLoad /\ Same(n, s, {"regs", "load_delay"})
  BY Slot
<1>2. s.cop0 = n.cop0
  BY <1>1 DEF Same, MachineFields
<1> HIDE DEF s
<1>3. StoreFails(s, w, a) = StoreFails(n, w, a)
  BY <1>2 DEF StoreFails
<1>4. CASE StoreFails(n, w, a)
  <2>1. Refused(s, e)
    BY <1>1, <1>3, <1>4, Store
  <2> QED
    BY <1>4, <2>1, RefusedAfter DEF s
<1>5. CASE ~StoreFails(n, w, a)
  <2>1. Shape(e) /\ e.regs = s.regs /\ e.load_delay = s.load_delay /\ e.cop0 = s.cop0
    BY <1>1, <1>3, <1>5, Store
  <2> HIDE DEF e
  <2> QED
    BY <1>1, <1>2, <1>5, <2>1 DEF Stored, Put, e, s
<1> QED
  BY <1>4, <1>5

-----------------------------------------------------------------------------
\* The pending load was delivered, and no exception thrown.
Settled(n, e) ==
  Shape(e) /\ e.regs = Delivered(n) /\ e.load_delay = NoLoad /\ e.cop0.code = n.cop0.code

LEMMA SlotSettled == ASSUME Registers, NEW n, Shape(n) PROVE Settled(n, fetch_load_slot(n))
BY Slot DEF Settled, Same, MachineFields

LEMMA JumpShape ==
  ASSUME NEW n, Shape(n), NEW a
  PROVE  Shape(jump(n, a)) /\ Same(n, jump(n, a), {"next_pc", "branched"})
BY DEF Shape, Same, MachineFields, jump

LEMMA JumpSettled == ASSUME NEW n, NEW e, Settled(n, e), NEW a PROVE Settled(n, jump(e, a))
<1> DEFINE j == jump(e, a)
<1>1. Shape(j) /\ Same(e, j, {"next_pc", "branched"})
  BY JumpShape DEF Settled
<1> HIDE DEF j
<1>2. j.regs = e.regs /\ j.load_delay = e.load_delay /\ j.cop0 = e.cop0
  BY <1>1 DEF Same, MachineFields
<1> QED
  BY <1>1, <1>2 DEF Settled, j

LEMMA SettledAfterJump ==
  ASSUME Registers, NEW n, Shape(n), NEW a PROVE Settled(n, fetch_load_slot(jump(n, a)))
<1> DEFINE j == jump(n, a)
<1>1. Shape(j) /\ Same(n, j, {"next_pc", "branched"})
  BY JumpShape
<1> HIDE DEF j
<1>2. j.regs = n.regs /\ j.load_delay = n.load_delay /\ j.cop0 = n.cop0
  BY <1>1 DEF Same, MachineFields
<1>3. Settled(j, fetch_load_slot(j))
  BY <1>1, SlotSettled
<1> QED
  BY <1>2, <1>3 DEF Settled, Delivered, j

LEMMA HiLoSettled == ASSUME Registers, NEW n, Shape(n), NEW h, NEW l PROVE Settled(n, set_hi_lo(n, h, l))
<1> DEFINE d == fetch_load_slot(n)
<1>1. Settled(n, d)
  BY SlotSettled
<1>2. set_hi_lo(n, h, l) = [d EXCEPT !.hi = h, !.lo = l]
  BY DEF set_hi_lo
<1> HIDE DEF d
<1> QED
  BY <1>1, <1>2 DEF Settled, Shape, MachineFields

LEMMA SettledStored ==
  ASSUME NEW n, NEW e, Settled(n, e), NEW r \in Regs, NEW v PROVE Stored(n, store_reg(e, r, v), r, v)
<1> DEFINE s == store_reg(e, r, v)
<1>1. Shape(s) /\ s.regs = Put(e.regs, r, v) /\ Same(e, s, {"regs"})
  BY StoreReg DEF Settled
<1> HIDE DEF s
<1>2. s.load_delay = e.load_delay /\ s.cop0 = e.cop0
  BY <1>1 DEF Same, MachineFields
<1> QED
  BY <1>1, <1>2 DEF Settled, Stored, s

LEMMA NothingStored == ASSUME NEW n, NEW e, Settled(n, e), NEW v PROVE Stored(n, e, ZERO, v)
BY DEF Settled, Stored, Put

-----------------------------------------------------------------------------
\* Two machines that differ in the pending load and the last exception.
Agree(n, k) ==
  /\ Shape(n) /\ Shape(k) /\ Same(n, k, {"load_delay", "cop0"})
  /\ k.cop0.isolated = n.cop0.isolated /\ k.cop0.bad = n.cop0.bad /\ k.cop0.epc = n.cop0.epc

\* They take the same course, each with its pending load.
Outcome(n, k, i) ==
  \/ Refused(n, exec(n, i)) /\ Refused(k, exec(k, i)) /\ LeavesPending(i)
  \/ Trapped(n, exec(n, i)) /\ Trapped(k, exec(k, i)) /\ ~LeavesPending(i)
  \/ /\ \E v : Stored(n, exec(n, i), Now(i), v) /\ Stored(k, exec(k, i), Now(i), v)
     /\ Later(i) = ZERO /\ Now(i) \in Regs
  \/ /\ \E v, u : /\ Loaded(n, exec(n, i), Later(i), v) /\ Loaded(k, exec(k, i), Later(i), u)
                  /\ Later(i) # ZERO => v = u
     /\ Now(i) = ZERO /\ Later(i) \in Regs

LEMMA SettledOutcome ==
  ASSUME NEW n, NEW k, NEW i, Settled(n, exec(n, i)), Settled(k, exec(k, i)),
         Now(i) = ZERO, Later(i) = ZERO, Registers
  PROVE  Outcome(n, k, i)
<1>1. Stored(n, exec(n, i), ZERO, 0) /\ Stored(k, exec(k, i), ZERO, 0)
  BY NothingStored
<1> QED
  BY <1>1 DEF Outcome, Registers

LEMMA FormDomains ==
  /\ DOMAIN ShiftForms = {"sll", "srl", "sra", "sllv", "srlv", "srav"}
  /\ DOMAIN RegisterForms = {"add", "addu", "sub", "subu", "and", "or", "xor", "nor", "slt", "sltu"}
  /\ DOMAIN ImmediateForms = {"addi", "addiu", "slti", "sltui", "andi", "ori", "xori", "lui"}
BY DEF ShiftForms, RegisterForms, ImmediateForms

LEMMA Operand ==
  ASSUME NEW n, NEW k, NEW i, k.regs = n.regs,
         NEW src \in {"rs", "rt", "rs_shift", "shift", "imm", "signed_imm", "half"}
  PROVE  operand(n, i, src) = operand(k, i, src)
BY DEF operand

Sources_ == {"rs", "rt", "rs_shift", "shift", "imm", "signed_imm", "half"}

LEMMA ShiftForm ==
  ASSUME NEW i, i.op \in DOMAIN ShiftForms
  PROVE  LET f == ShiftForms[i.op]
         IN  (\A n : exec(n, i) = op_alu(n, i, f)) /\ i[f.d] = i.rd /\ f.a \in Sources_ /\ f.b \in Sources_
BY FormDomains DEF exec, ShiftForms, Form, Sources_

LEMMA RegisterForm ==
  ASSUME NEW i, i.op \in DOMAIN RegisterForms
  PROVE  LET f == RegisterForms[i.op]
         IN  (\A n : exec(n, i) = op_alu(n, i, f)) /\ i[f.d] = i.rd /\ f.a \in Sources_ /\ f.b \in Sources_
BY FormDomains DEF exec, RegisterForms, Form, Sources_

LEMMA ImmediateForm ==
  ASSUME NEW i, i.op \in DOMAIN ImmediateForms
  PROVE  LET f == ImmediateForms[i.op]
         IN  (\A n : exec(n, i) = op_alu(n, i, f)) /\ i[f.d] = i.rt /\ f.a \in Sources_ /\ f.b \in Sources_
BY FormDomains DEF exec, ImmediateForms, Form, Sources_

LEMMA AluOutcome ==
  ASSUME Registers, NEW n, NEW k, Agree(n, k), NEW i, NEW f, \A x : exec(x, i) = op_alu(x, i, f),
         i[f.d] = Now(i), Now(i) \in Regs, f.a \in Sources_, f.b \in Sources_,
         Later(i) = ZERO, ~LeavesPending(i)
  PROVE  Outcome(n, k, i)
<1> DEFINE a == operand(n, i, f.a)
           b == operand(n, i, f.b)
           trap == f.trap /\ overflows(f.f, a, b)
           v == alu(f.f, a, b)
<1>1. Shape(n) /\ Shape(k) /\ k.regs = n.regs
  BY DEF Agree, Same, MachineFields
<1>2. operand(k, i, f.a) = a /\ operand(k, i, f.b) = b
  BY <1>1, Operand DEF Sources_
<1>3. ASSUME NEW x \in {n, k}
      PROVE  exec(x, i) = IF trap THEN throw_exception(fetch_load_slot(x), "ArithmeticOverflow")
                          ELSE store_reg(fetch_load_slot(x), Now(i), v)
  BY <1>2 DEF op_alu
<1> HIDE DEF trap, v
<1>4. ASSUME NEW x \in {n, k} PROVE Shape(x) /\ Settled(x, fetch_load_slot(x))
  BY <1>1, SlotSettled
<1>5. CASE trap
  <2>1. ASSUME NEW x \in {n, k} PROVE Trapped(x, exec(x, i))
    <3>1. Refused(fetch_load_slot(x), throw_exception(fetch_load_slot(x), "ArithmeticOverflow"))
      BY <1>4, ThrowRefused DEF Settled
    <3> QED
      BY <1>3, <1>4, <1>5, <3>1, RefusedAfter
  <2> QED
    BY <2>1 DEF Outcome
<1>6. CASE ~trap
  <2>1. ASSUME NEW x \in {n, k} PROVE Stored(x, exec(x, i), Now(i), v)
    BY <1>3, <1>4, <1>6, SettledStored
  <2> QED
    BY <2>1 DEF Outcome
<1> QED
  BY <1>5, <1>6

LEMMA FormOutcome ==
  ASSUME Registers, NEW n, NEW k, Agree(n, k), NEW i, i.rt \in Regs, i.rd \in Regs,
         i.op \in DOMAIN ShiftForms \cup DOMAIN RegisterForms \cup DOMAIN ImmediateForms
  PROVE  Outcome(n, k, i)
<1>1. Later(i) = ZERO /\ ~LeavesPending(i)
  BY FormDomains DEF Later, LeavesPending
<1>2. CASE i.op \in DOMAIN ShiftForms
  <2>1. Now(i) = i.rd
    BY <1>2, FormDomains DEF Now
  <2> QED
    BY <1>1, <1>2, <2>1, ShiftForm, AluOutcome
<1>3. CASE i.op \in DOMAIN RegisterForms
  <2>1. Now(i) = i.rd
    BY <1>3, FormDomains DEF Now
  <2> QED
    BY <1>1, <1>3, <2>1, RegisterForm, AluOutcome
<1>4. CASE i.op \in DOMAIN ImmediateForms
  <2>1. Now(i) = i.rt
    BY <1>4, FormDomains DEF Now
  <2> QED
    BY <1>1, <1>4, <2>1, ImmediateForm, AluOutcome
<1> QED
  BY <1>2, <1>3, <1>4

\* An instruction that only settles.
LEMMA SettlingOutcome ==
  ASSUME Registers, NEW n, NEW k, Agree(n, k), NEW i,
         \A x : Shape(x) => Settled(x, exec(x, i)), Now(i) = ZERO, Later(i) = ZERO
  PROVE  Outcome(n, k, i)
BY SettledOutcome DEF Agree

LEMMA MoveFrom ==
  ASSUME Registers, NEW n, NEW k, Agree(n, k), NEW i, i.op \in {"mfhi", "mflo"}, i.rd \in Regs
  PROVE  Outcome(n, k, i)
<1> DEFINE V(x) == IF i.op = "mfhi" THEN x.hi ELSE x.lo
<1>1. Shape(n) /\ Shape(k) /\ V(k) = V(n)
  BY DEF Agree, Same, MachineFields
<1>2. Now(i) = i.rd /\ Later(i) = ZERO
  BY FormDomains DEF Now, Later
<1>3. ASSUME NEW x PROVE exec(x, i) = op_move_hi_lo(x, i)
  BY FormDomains DEF exec
<1>4. ASSUME NEW x PROVE op_move_hi_lo(x, i) = store_reg(fetch_load_slot(x), i.rd, V(x))
  BY DEF op_move_hi_lo
<1> HIDE DEF V
<1>5. ASSUME NEW x, Shape(x) PROVE Stored(x, exec(x, i), i.rd, V(x))
  BY <1>3, <1>4, <1>5, SlotSettled, SettledStored
<1> QED
  BY <1>1, <1>2, <1>5 DEF Outcome

LEMMA HiLo ==
  ASSUME Registers, NEW n, NEW k, Agree(n, k), NEW i,
         i.op \in {"mthi", "mtlo", "mult", "multu", "div", "divu"}
  PROVE  Outcome(n, k, i)
<1>1. Now(i) = ZERO /\ Later(i) = ZERO
  BY FormDomains DEF Now, Later
<1>2. ASSUME NEW x, Shape(x) PROVE Settled(x, exec(x, i))
  <2>1. CASE i.op \in {"mthi", "mtlo"}
    <3>1. exec(x, i) = op_move_hi_lo(x, i)
      BY <2>1, FormDomains DEF exec
    <3>2. \E h, l : op_move_hi_lo(x, i) = set_hi_lo(x, h, l)
      BY <2>1 DEF op_move_hi_lo
    <3> QED
      BY <1>2, <3>1, <3>2, HiLoSettled
  <2>2. CASE i.op = "mult"
    <3>1. exec(x, i) = op_mult(x, i)
      BY <2>2, FormDomains DEF exec
    <3>2. \E h, l : op_mult(x, i) = set_hi_lo(x, h, l)
      BY DEF op_mult
    <3> QED
      BY <1>2, <3>1, <3>2, HiLoSettled
  <2>3. CASE i.op = "multu"
    <3>1. exec(x, i) = op_multu(x, i)
      BY <2>3, FormDomains DEF exec
    <3>2. \E h, l : op_multu(x, i) = set_hi_lo(x, h, l)
      BY DEF op_multu
    <3> QED
      BY <1>2, <3>1, <3>2, HiLoSettled
  <2>4. CASE i.op = "div"
    <3>1. exec(x, i) = op_div(x, i)
      BY <2>4, FormDomains DEF exec
    <3> DEFINE a == signed(x.regs[i.rs])
               b == signed(x.regs[i.rt])
               one == IF a < 0 THEN 1 ELSE Word - 1
    <3>2. \/ op_div(x, i) = set_hi_lo(x, wrap(a), one)
          \/ op_div(x, i) = set_hi_lo(x, 0, Word \div 2)
          \/ op_div(x, i) = set_hi_lo(x, wrap(a - b * quotient(a, b)), wrap(quotient(a, b)))
      BY DEF op_div
    <3> QED
      BY <1>2, <3>1, <3>2, HiLoSettled
  <2>5. CASE i.op = "divu"
    <3>1. exec(x, i) = op_divu(x, i)
      BY <2>5, FormDomains DEF exec
    <3> DEFINE a == x.regs[i.rs]
               b == x.regs[i.rt]
    <3>2. op_divu(x, i) = set_hi_lo(x, a, Word - 1) \/ op_divu(x, i) = set_hi_lo(x, a % b, a \div b)
      BY DEF op_divu
    <3> QED
      BY <1>2, <3>1, <3>2, HiLoSettled
  <2> QED
    BY <2>1, <2>2, <2>3, <2>4, <2>5
<1> QED
  BY <1>1, <1>2, SettlingOutcome

LEMMA BranchOutcome ==
  ASSUME Registers, NEW n, NEW k, Agree(n, k), NEW i, i.op \in {"beq", "bne", "blez", "bgtz"}
  PROVE  Outcome(n, k, i)
<1>1. Now(i) = ZERO /\ Later(i) = ZERO
  BY FormDomains DEF Now, Later
<1>2. ASSUME NEW x, Shape(x) PROVE Settled(x, exec(x, i))
  <2> DEFINE d == fetch_load_slot(x)
             to == wrap(d.pc + signed_imm(i) * 4)
  <2>1. exec(x, i) = op_branch(x, i)
    BY FormDomains DEF exec
  <2>2. op_branch(x, i) = d \/ op_branch(x, i) = jump(d, to)
    BY DEF op_branch, branch
  <2>3. Settled(x, d) /\ Settled(x, jump(d, to))
    BY <1>2, SlotSettled, JumpSettled
  <2> QED
    BY <2>1, <2>2, <2>3
<1> QED
  BY <1>1, <1>2, SettlingOutcome

LEMMA JumpStored ==
  ASSUME NEW n, NEW e, NEW r, NEW v, Stored(n, e, r, v), NEW a PROVE Stored(n, jump(e, a), r, v)
<1> DEFINE j == jump(e, a)
<1>1. Shape(j) /\ Same(e, j, {"next_pc", "branched"})
  BY JumpShape DEF Stored
<1> HIDE DEF j
<1>2. j.regs = e.regs /\ j.load_delay = e.load_delay /\ j.cop0 = e.cop0
  BY <1>1 DEF Same, MachineFields
<1> QED
  BY <1>1, <1>2 DEF Stored, j

LEMMA BcondzOutcome ==
  ASSUME Registers, NEW n, NEW k, Agree(n, k), NEW i, i.op \in {"bltz", "bgez", "bltzal", "bgezal"}
  PROVE  Outcome(n, k, i)
<1> DEFINE link == i.op \in {"bltzal", "bgezal"}
<1>1. Now(i) = (IF link THEN RA ELSE ZERO) /\ Later(i) = ZERO
  BY FormDomains DEF Now, Later
<1>2. Shape(n) /\ Shape(k) /\ k.next_pc = n.next_pc
  BY DEF Agree, Same, MachineFields
<1>3. ASSUME NEW x, Shape(x) PROVE Stored(x, exec(x, i), Now(i), x.next_pc)
  <2> DEFINE d == fetch_load_slot(x)
             linked == IF link THEN store_reg(d, RA, d.next_pc) ELSE d
             to == wrap(linked.pc + signed_imm(i) * 4)
  <2>1. exec(x, i) = op_bcondz(x, i)
    BY FormDomains DEF exec
  <2>2. op_bcondz(x, i) = linked \/ op_bcondz(x, i) = jump(linked, to)
    BY DEF op_bcondz, branch
  <2>3. Settled(x, d) /\ d.next_pc = x.next_pc
    BY <1>3, SlotSettled, Slot DEF Same, MachineFields
  <2>4. Stored(x, linked, Now(i), x.next_pc)
    BY <1>1, <2>3, SettledStored, NothingStored DEF Registers
  <2>5. Stored(x, jump(linked, to), Now(i), x.next_pc)
    BY <2>4, JumpStored
  <2> QED
    BY <2>1, <2>2, <2>4, <2>5
<1>4. Now(i) \in Regs
  BY <1>1 DEF Registers
<1> QED
  BY <1>1, <1>2, <1>3, <1>4 DEF Outcome

LEMMA JumpOutcome ==
  ASSUME Registers, NEW n, NEW k, Agree(n, k), NEW i, i.op \in {"j", "jal", "jr", "jalr"}, i.rd \in Regs
  PROVE  Outcome(n, k, i)
<1>1. Later(i) = ZERO
  BY DEF Later
<1>2. Shape(n) /\ Shape(k) /\ k.next_pc = n.next_pc
  BY DEF Agree, Same, MachineFields
<1>3. ASSUME NEW x, Shape(x) PROVE Settled(x, op_j(x, i)) /\ Settled(x, op_jr(x, i))
  BY <1>3, SettledAfterJump DEF op_j, op_jr
<1>4. CASE i.op = "j"
  <2>1. Now(i) = ZERO /\ \A x : exec(x, i) = op_j(x, i)
    BY <1>4, FormDomains DEF Now, exec
  <2> QED
    BY <1>1, <1>3, <2>1, SettlingOutcome
<1>5. CASE i.op = "jr"
  <2>1. Now(i) = ZERO /\ \A x : exec(x, i) = op_jr(x, i)
    BY <1>5, FormDomains DEF Now, exec
  <2> QED
    BY <1>1, <1>3, <2>1, SettlingOutcome
<1>6. CASE i.op = "jal"
  <2>1. Now(i) = RA /\ RA \in Regs /\ \A x : exec(x, i) = store_reg(op_j(x, i), RA, x.next_pc)
    BY <1>6, FormDomains DEF Now, exec, op_jal, Registers
  <2>2. ASSUME NEW x, Shape(x) PROVE Stored(x, exec(x, i), Now(i), x.next_pc)
    BY <1>3, <2>1, <2>2, SettledStored
  <2> QED
    BY <1>1, <1>2, <2>1, <2>2 DEF Outcome
<1>7. CASE i.op = "jalr"
  <2>1. Now(i) = i.rd /\ \A x : exec(x, i) = store_reg(op_jr(x, i), i.rd, x.next_pc)
    BY <1>7, FormDomains DEF Now, exec, op_jalr
  <2>2. ASSUME NEW x, Shape(x) PROVE Stored(x, exec(x, i), Now(i), x.next_pc)
    BY <1>3, <2>1, <2>2, SettledStored
  <2> QED
    BY <1>1, <1>2, <2>1, <2>2 DEF Outcome
<1> QED
  BY <1>4, <1>5, <1>6, <1>7

-----------------------------------------------------------------------------
LEMMA AgreeLoads ==
  ASSUME NEW n, NEW k, Agree(n, k), NEW i
  PROVE  /\ effective_addr(k, i) = effective_addr(n, i)
         /\ \A w, a : load(k, w, a) = load(n, w, a)
         /\ Shape(n) /\ Shape(k) /\ k.regs = n.regs /\ k.gte = n.gte
<1>1. k.regs = n.regs /\ k.mem = n.mem /\ k.ctrl = n.ctrl /\ k.gte = n.gte
  BY DEF Agree, Same, MachineFields
<1>2. effective_addr(k, i) = effective_addr(n, i)
  BY <1>1 DEF effective_addr
<1>3. ASSUME NEW w, NEW a PROVE load(k, w, a) = load(n, w, a)
  BY <1>1 DEF load
<1> QED
  BY <1>1, <1>2, <1>3 DEF Agree

\* A load of any kind: its address a, its width w, and the value V(x) it makes.
LEMMA LoadOutcome ==
  ASSUME Registers, NEW n, NEW k, Agree(n, k), NEW i, i.rt \in Regs,
         i.op \in {"lb", "lbu", "lh", "lhu", "lw", "lwl", "lwr"},
         NEW l, NEW a, NEW v, NEW u, i.rt # ZERO => v = u,
         exec(n, i) = IF l.exc = "none" THEN pipeline_load(n, i.rt, v) ELSE load_failed(n, a, l.exc),
         exec(k, i) = IF l.exc = "none" THEN pipeline_load(k, i.rt, u) ELSE load_failed(k, a, l.exc)
  PROVE  Outcome(n, k, i)
<1>1. Now(i) = ZERO /\ Later(i) = i.rt /\ LeavesPending(i) /\ Shape(n) /\ Shape(k)
  BY FormDomains DEF Now, Later, LeavesPending, Agree
<1>2. CASE l.exc = "none"
  <2>1. Loaded(n, exec(n, i), i.rt, v) /\ Loaded(k, exec(k, i), i.rt, u)
    BY <1>1, <1>2, PipelineLoad
  <2> QED
    BY <1>1, <2>1 DEF Outcome
<1>3. CASE l.exc # "none"
  <2>1. Refused(n, exec(n, i)) /\ Refused(k, exec(k, i))
    BY <1>1, <1>3, LoadFailed
  <2> QED
    BY <1>1, <2>1 DEF Outcome
<1> QED
  BY <1>2, <1>3

LEMMA LoadsOutcome ==
  ASSUME Registers, NEW n, NEW k, Agree(n, k), NEW i, i.rt \in Regs,
         i.op \in {"lb", "lbu", "lh", "lhu", "lw", "lwl", "lwr"},
         i.op \in {"lwl", "lwr"} /\ i.rt # ZERO => old_value(k, i.rt) = old_value(n, i.rt)
  PROVE  Outcome(n, k, i)
<1> DEFINE addr == effective_addr(n, i)
           r == addr % 4
<1>1. effective_addr(k, i) = addr /\ \A w, a : load(k, w, a) = load(n, w, a)
  BY AgreeLoads
<1>2. CASE i.op \in {"lb", "lbu", "lh", "lhu", "lw"}
  <2> DEFINE l == load(n, Width(i.op), addr)
             v == extend(i.op, l.val)
  <2>1. ASSUME NEW x PROVE exec(x, i) = op_load(x, i)
    BY <1>2, FormDomains DEF exec
  <2>2. ASSUME NEW x \in {n, k}
        PROVE  op_load(x, i) = IF l.exc = "none" THEN pipeline_load(x, i.rt, v) ELSE load_failed(x, addr, l.exc)
    BY <1>1 DEF op_load
  <2> HIDE DEF l, v, addr
  <2> QED
    BY <1>2, <2>1, <2>2, LoadOutcome
<1>3. CASE i.op = "lwl"
  <2> DEFINE l == load(n, 4, addr - r)
             V(x) == join(old_value(x, i.rt), left(l.val, 3 - r), 3 - r)
  <2>1. ASSUME NEW x PROVE exec(x, i) = op_lwl(x, i)
    BY <1>3, FormDomains DEF exec
  <2>2. ASSUME NEW x \in {n, k}
        PROVE  op_lwl(x, i) = IF l.exc = "none" THEN pipeline_load(x, i.rt, V(x)) ELSE load_failed(x, addr - r, l.exc)
    BY <1>1 DEF op_lwl
  <2>3. i.rt # ZERO => V(n) = V(k)
    BY <1>3
  <2> DEFINE a == addr - r
  <2> HIDE DEF l, V, addr, r, a
  <2> QED
    BY <1>3, <2>1, <2>2, <2>3, LoadOutcome DEF a
<1>4. CASE i.op = "lwr"
  <2> DEFINE l == load(n, 4, addr - r)
             V(x) == join(right(l.val, r), old_value(x, i.rt), 4 - r)
  <2>1. ASSUME NEW x PROVE exec(x, i) = op_lwr(x, i)
    BY <1>4, FormDomains DEF exec
  <2>2. ASSUME NEW x \in {n, k}
        PROVE  op_lwr(x, i) = IF l.exc = "none" THEN pipeline_load(x, i.rt, V(x)) ELSE load_failed(x, addr - r, l.exc)
    BY <1>1 DEF op_lwr
  <2>3. i.rt # ZERO => V(n) = V(k)
    BY <1>4
  <2> DEFINE a == addr - r
  <2> HIDE DEF l, V, addr, r, a
  <2> QED
    BY <1>4, <2>1, <2>2, <2>3, LoadOutcome DEF a
<1> QED
  BY <1>2, <1>3, <1>4

LEMMA StoresOutcome ==
  ASSUME Registers, NEW n, NEW k, Agree(n, k), NEW i, i.op \in {"sb", "sh", "sw", "swc2"}
  PROVE  Outcome(n, k, i)
<1> DEFINE addr == effective_addr(n, i)
           w == Width(i.op)
           V(x) == IF i.op = "swc2" THEN x.gte ELSE x.regs[i.rt]
<1>1. effective_addr(k, i) = addr /\ Shape(n) /\ Shape(k)
  BY AgreeLoads
<1>2. Now(i) = ZERO /\ Later(i) = ZERO /\ ~LeavesPending(i)
  BY FormDomains DEF Now, Later, LeavesPending
<1>3. ASSUME NEW x \in {n, k} PROVE exec(x, i) = store(fetch_load_slot(x), w, addr, V(x))
  <2>1. CASE i.op = "swc2"
    <3>1. exec(x, i) = op_swc2(x, i) /\ w = 4
      BY <2>1, FormDomains DEF exec, Width
    <3> QED
      BY <1>1, <2>1, <3>1 DEF op_swc2
  <2>2. CASE i.op # "swc2"
    <3>1. exec(x, i) = op_store(x, i)
      BY <2>2, FormDomains DEF exec
    <3> QED
      BY <1>1, <2>2, <3>1 DEF op_store
  <2> QED
    BY <2>1, <2>2
<1>4. StoreFails(k, w, addr) = StoreFails(n, w, addr)
  BY DEF StoreFails, Agree
<1> HIDE DEF w, addr, V
<1>5. CASE StoreFails(n, w, addr)
  <2>1. Trapped(n, exec(n, i)) /\ Trapped(k, exec(k, i))
    BY <1>1, <1>3, <1>4, <1>5, StoreOutcome
  <2> QED
    BY <1>2, <2>1 DEF Outcome
<1>6. CASE ~StoreFails(n, w, addr)
  <2>1. Stored(n, exec(n, i), ZERO, 0) /\ Stored(k, exec(k, i), ZERO, 0)
    BY <1>1, <1>3, <1>4, <1>6, StoreOutcome
  <2> QED
    BY <1>2, <2>1 DEF Outcome, Registers
<1> QED
  BY <1>5, <1>6

\* SWL and SWR: the store cannot fail when the load before it did not.
LEMMA UnalignedStoreOutcome ==
  ASSUME Registers, NEW n, NEW k, Agree(n, k), NEW i, i.op \in {"swl", "swr"}
  PROVE  Outcome(n, k, i)
<1> DEFINE addr == effective_addr(n, i)
           r == addr % 4
           a == addr - r
           l == load(n, 4, a)
           V(x) == IF i.op = "swl" THEN join(right(x.regs[i.rt], 3 - r), l.val, r + 1)
                                   ELSE join(l.val, left(x.regs[i.rt], r), r)
<1>1. effective_addr(k, i) = addr /\ load(k, 4, a) = l /\ Shape(n) /\ Shape(k)
  BY AgreeLoads
<1>2. Now(i) = ZERO /\ Later(i) = ZERO /\ LeavesPending(i)
  BY FormDomains DEF Now, Later, LeavesPending
<1>3. ASSUME NEW x \in {n, k}
      PROVE  exec(x, i) = IF l.exc = "none" THEN store(fetch_load_slot(x), 4, a, V(x)) ELSE load_failed(x, a, l.exc)
  <2>1. CASE i.op = "swl"
    <3>1. exec(x, i) = op_swl(x, i)
      BY <2>1, FormDomains DEF exec
    <3> QED
      BY <1>1, <2>1, <3>1 DEF op_swl
  <2>2. CASE i.op = "swr"
    <3>1. exec(x, i) = op_swr(x, i)
      BY <2>2, FormDomains DEF exec
    <3> QED
      BY <1>1, <2>2, <3>1 DEF op_swr
  <2> QED
    BY <2>1, <2>2
<1> HIDE DEF a, V
<1>4. CASE l.exc = "none"
  <2>1. ~StoreFails(n, 4, a) /\ ~StoreFails(k, 4, a)
    BY <1>4, LoadMapped DEF StoreFails
  <2> HIDE DEF l
  <2>2. Stored(n, exec(n, i), ZERO, 0) /\ Stored(k, exec(k, i), ZERO, 0)
    BY <1>1, <1>3, <1>4, <2>1, StoreOutcome
  <2> QED
    BY <1>2, <2>2 DEF Outcome, Registers
<1>5. CASE l.exc # "none"
  <2> HIDE DEF l
  <2>1. Refused(n, exec(n, i)) /\ Refused(k, exec(k, i))
    BY <1>1, <1>3, <1>5, LoadFailed
  <2> QED
    BY <1>2, <2>1 DEF Outcome
<1> QED
  BY <1>4, <1>5

LEMMA CopSettled ==
  ASSUME Registers, NEW n, Shape(n), NEW v
  PROVE  LET d == fetch_load_slot(n)
         IN  /\ Settled(n, [d EXCEPT !.gte = v]) /\ Settled(n, [d EXCEPT !.cop0.isolated = v])
             /\ Settled(n, [d EXCEPT !.cop0.bad = v]) /\ Settled(n, [d EXCEPT !.cop0.epc = v])
<1> DEFINE d == fetch_load_slot(n)
           g == [d EXCEPT !.gte = v]
<1>1. Settled(n, d)
  BY SlotSettled
<1> HIDE DEF d
<1>2. Settled(n, g)
  BY <1>1 DEF Settled, Shape, MachineFields
<1>3. ASSUME NEW e \in {[d EXCEPT !.cop0.isolated = v], [d EXCEPT !.cop0.bad = v], [d EXCEPT !.cop0.epc = v]}
      PROVE  Settled(n, e)
  <2>1. e = [x \in MachineFields |-> e[x]] /\ e.regs = d.regs /\ e.load_delay = d.load_delay
    BY <1>1 DEF Settled, Shape, MachineFields
  <2>2. e.cop0 = [x \in CopFields |-> e.cop0[x]] /\ e.cop0.code = d.cop0.code
    BY <1>1 DEF Settled, Shape, CopFields, MachineFields
  <2> QED
    BY <1>1, <2>1, <2>2 DEF Settled, Shape
<1> QED
  BY <1>2, <1>3 DEF d

LEMMA Cop0Outcome ==
  ASSUME Registers, NEW n, NEW k, Agree(n, k), NEW i, i.op \in {"mfc0", "mtc0", "rfe"},
         i.rt \in Regs, i.rd \in Nat
  PROVE  Outcome(n, k, i)
<1>1. Shape(n) /\ Shape(k) /\ cop0_read(k, i.rd) = cop0_read(n, i.rd)
  BY DEF Agree, cop0_read
<1>2. Now(i) = ZERO
  BY FormDomains DEF Now
<1>3. ASSUME NEW x PROVE exec(x, i) = op_cop0(x, i)
  BY FormDomains DEF exec
<1>4. CASE i.op = "mfc0" /\ i.rd > 15
  <2>1. ~(i.rd <= 15) /\ LeavesPending(i)
    BY <1>4 DEF LeavesPending
  <2>2. ASSUME NEW x PROVE op_cop0(x, i) = throw_exception(x, "ReservedInstruction")
    BY <1>4, <2>1 DEF op_cop0
  <2>3. Refused(n, exec(n, i)) /\ Refused(k, exec(k, i))
    BY <1>1, <1>3, <2>2, ThrowRefused
  <2> QED
    BY <2>1, <2>3 DEF Outcome
<1>5. CASE i.op = "mfc0" /\ ~(i.rd > 15)
  <2>1. i.rd <= 15 /\ Later(i) = i.rt
    BY <1>5 DEF Later
  <2>2. ASSUME NEW x PROVE op_cop0(x, i) = pipeline_load(x, i.rt, cop0_read(x, i.rd))
    BY <1>5, <2>1 DEF op_cop0
  <2>3. Loaded(n, exec(n, i), i.rt, cop0_read(n, i.rd)) /\ Loaded(k, exec(k, i), i.rt, cop0_read(n, i.rd))
    BY <1>1, <1>3, <2>2, PipelineLoad
  <2> QED
    BY <1>2, <2>1, <2>3 DEF Outcome
<1>6. CASE i.op = "mtc0"
  <2>1. Later(i) = ZERO
    BY <1>6 DEF Later
  <2>2. ASSUME NEW x, Shape(x) PROVE Settled(x, exec(x, i))
    <3> DEFINE d == fetch_load_slot(x)
               v == d.regs[i.rt]
               b == bit(v, 4) = 1
    <3>1. op_cop0(x, i) = CASE i.rd = 12 -> [d EXCEPT !.cop0.isolated = b]
                            [] i.rd = 8 -> [d EXCEPT !.cop0.bad = v]
                            [] i.rd = 14 -> [d EXCEPT !.cop0.epc = v]
                            [] OTHER -> d
      BY <1>6 DEF op_cop0
    <3>2. /\ Settled(x, [d EXCEPT !.cop0.isolated = b]) /\ Settled(x, [d EXCEPT !.cop0.bad = v])
          /\ Settled(x, [d EXCEPT !.cop0.epc = v]) /\ Settled(x, d)
      BY <2>2, CopSettled, SlotSettled
    <3> HIDE DEF d, v, b
    <3> QED
      BY <1>3, <3>1, <3>2
  <2> QED
    BY <1>2, <2>1, <2>2, SettlingOutcome
<1>7. CASE i.op = "rfe"
  <2>1. Later(i) = ZERO /\ \A x : op_cop0(x, i) = fetch_load_slot(x)
    BY <1>7 DEF Later, op_cop0
  <2>2. ASSUME NEW x, Shape(x) PROVE Settled(x, exec(x, i))
    BY <1>3, <2>1, <2>2, SlotSettled
  <2> QED
    BY <1>2, <2>1, <2>2, SettlingOutcome
<1> QED
  BY <1>4, <1>5, <1>6, <1>7

LEMMA Cop2Outcome ==
  ASSUME Registers, NEW n, NEW k, Agree(n, k), NEW i, i.op \in {"mfc2", "mtc2", "gte"}, i.rt \in Regs
  PROVE  Outcome(n, k, i)
<1>1. Shape(n) /\ Shape(k) /\ k.gte = n.gte
  BY AgreeLoads
<1>2. Now(i) = ZERO
  BY FormDomains DEF Now
<1>3. ASSUME NEW x PROVE exec(x, i) = op_cop2(x, i)
  BY FormDomains DEF exec
<1>4. CASE i.op = "mfc2"
  <2>1. Later(i) = i.rt /\ \A x : op_cop2(x, i) = pipeline_load(x, i.rt, x.gte)
    BY <1>4 DEF Later, op_cop2
  <2>2. Loaded(n, exec(n, i), i.rt, n.gte) /\ Loaded(k, exec(k, i), i.rt, n.gte)
    BY <1>1, <1>3, <2>1, PipelineLoad
  <2> QED
    BY <1>2, <2>1, <2>2 DEF Outcome
<1>5. CASE i.op \in {"mtc2", "gte"}
  <2>1. Later(i) = ZERO
    BY <1>5 DEF Later
  <2>2. ASSUME NEW x, Shape(x) PROVE Settled(x, exec(x, i))
    <3>1. \/ op_cop2(x, i) = [fetch_load_slot(x) EXCEPT !.gte = x.regs[i.rt]]
          \/ op_cop2(x, i) = [fetch_load_slot(x) EXCEPT !.gte = i.imm]
      BY <1>5 DEF op_cop2
    <3>2. \A v : Settled(x, [fetch_load_slot(x) EXCEPT !.gte = v])
      BY <2>2, CopSettled
    <3> QED
      BY <1>3, <3>1, <3>2
  <2> QED
    BY <1>2, <2>1, <2>2, SettlingOutcome
<1> QED
  BY <1>4, <1>5

LEMMA Lwc2Outcome ==
  ASSUME Registers, NEW n, NEW k, Agree(n, k), NEW i, i.op = "lwc2"
  PROVE  Outcome(n, k, i)
<1> DEFINE a == effective_addr(n, i)
           l == load(n, 4, a)
<1>1. effective_addr(k, i) = a /\ load(k, 4, a) = l /\ Shape(n) /\ Shape(k)
  BY AgreeLoads
<1>2. Now(i) = ZERO /\ Later(i) = ZERO /\ ~LeavesPending(i)
  BY FormDomains DEF Now, Later, LeavesPending
<1>3. ASSUME NEW x PROVE exec(x, i) = op_lwc2(x, i)
  BY FormDomains DEF exec
<1>4. ASSUME NEW x \in {n, k}
      PROVE  exec(x, i) = IF l.exc = "none" THEN [fetch_load_slot(x) EXCEPT !.gte = l.val]
                          ELSE load_failed(fetch_load_slot(x), a, l.exc)
  BY <1>1, <1>3 DEF op_lwc2
<1> HIDE DEF a, l
<1>5. CASE l.exc = "none"
  <2>1. Settled(n, exec(n, i)) /\ Settled(k, exec(k, i))
    <3>1. ASSUME NEW x \in {n, k} PROVE Settled(x, [fetch_load_slot(x) EXCEPT !.gte = l.val])
      BY <1>1, CopSettled
    <3> QED
      BY <1>4, <1>5, <3>1
  <2> QED
    BY <1>2, <2>1, SettledOutcome
<1>6. CASE l.exc # "none"
  <2>1. ASSUME NEW x \in {n, k} PROVE Trapped(x, exec(x, i))
    <3>1. Shape(x) /\ Shape(fetch_load_slot(x))
      BY <1>1, Slot
    <3>2. Refused(fetch_load_slot(x), load_failed(fetch_load_slot(x), a, l.exc))
      BY <1>6, <3>1, LoadFailed
    <3> QED
      BY <1>4, <1>6, <3>1, <3>2, RefusedAfter
  <2> QED
    BY <1>2, <2>1 DEF Outcome
<1> QED
  BY <1>5, <1>6

LEMMA TrapOutcome ==
  ASSUME Registers, NEW n, NEW k, Agree(n, k), NEW i, i.op \in {"syscall", "break", "cop1", "illegal"}
  PROVE  Outcome(n, k, i)
<1>1. Shape(n) /\ Shape(k)
  BY DEF Agree
<1>2. CASE i.op \in {"syscall", "break"}
  <2> DEFINE code == IF i.op = "syscall" THEN "Syscall" ELSE "Breakpoint"
  <2>1. ~LeavesPending(i) /\ code # "none" /\ \A x : exec(x, i) = throw_exception(fetch_load_slot(x), code)
    BY <1>2, FormDomains DEF LeavesPending, exec, op_trap
  <2> HIDE DEF code
  <2>2. ASSUME NEW x, Shape(x) PROVE Trapped(x, exec(x, i))
    <3>1. Refused(fetch_load_slot(x), throw_exception(fetch_load_slot(x), code))
      BY <2>1, <2>2, Slot, ThrowRefused
    <3> QED
      BY <2>1, <2>2, <3>1, RefusedAfter
  <2> QED
    BY <1>1, <2>1, <2>2 DEF Outcome
<1>3. CASE i.op \in {"cop1", "illegal"}
  <2> DEFINE code == IF i.op = "cop1" THEN "CopUnusable" ELSE "ReservedInstruction"
  <2>1. LeavesPending(i) /\ code # "none" /\ \A x : exec(x, i) = throw_exception(x, code)
    BY <1>3, FormDomains DEF LeavesPending, exec, op_cop1, op_illegal
  <2> HIDE DEF code
  <2>2. ASSUME NEW x, Shape(x) PROVE Refused(x, exec(x, i))
    BY <2>1, <2>2, ThrowRefused
  <2> QED
    BY <1>1, <2>1, <2>2 DEF Outcome
<1> QED
  BY <1>2, <1>3

LEMMA ExecOutcome ==
  ASSUME Registers, NEW n, NEW k, Agree(n, k), NEW i, Known(i),
         i.op \in {"lwl", "lwr"} /\ i.rt # ZERO => old_value(k, i.rt) = old_value(n, i.rt)
  PROVE  Outcome(n, k, i)
<1>1. i.rt \in Regs /\ i.rd \in Nat /\ (i.op \notin {"mfc0", "mtc0"} => i.rd \in Regs)
  BY DEF Known, Registers
<1>2. CASE i.op \in DOMAIN ShiftForms \cup DOMAIN RegisterForms \cup DOMAIN ImmediateForms
  BY <1>1, <1>2, FormDomains, FormOutcome
<1>3. CASE i.op \in {"mfhi", "mflo"}
  BY <1>1, <1>3, MoveFrom
<1>4. CASE i.op \in {"mthi", "mtlo", "mult", "multu", "div", "divu"}
  BY <1>4, HiLo
<1>5. CASE i.op \in {"beq", "bne", "blez", "bgtz"}
  BY <1>5, BranchOutcome
<1>6. CASE i.op \in {"bltz", "bgez", "bltzal", "bgezal"}
  BY <1>6, BcondzOutcome
<1>7. CASE i.op \in {"j", "jal", "jr", "jalr"}
  BY <1>1, <1>7, JumpOutcome
<1>8. CASE i.op \in {"lb", "lbu", "lh", "lhu", "lw", "lwl", "lwr"}
  BY <1>1, <1>8, LoadsOutcome
<1>9. CASE i.op \in {"sb", "sh", "sw", "swc2"}
  BY <1>9, StoresOutcome
<1>10. CASE i.op \in {"swl", "swr"}
  BY <1>10, UnalignedStoreOutcome
<1>11. CASE i.op \in {"mfc0", "mtc0", "rfe"}
  BY <1>1, <1>11, Cop0Outcome
<1>12. CASE i.op \in {"mfc2", "mtc2", "gte"}
  BY <1>1, <1>12, Cop2Outcome
<1>13. CASE i.op = "lwc2"
  BY <1>13, Lwc2Outcome
<1>14. CASE i.op \in {"syscall", "break", "cop1", "illegal"}
  BY <1>14, TrapOutcome
<1> QED
  BY <1>2, <1>3, <1>4, <1>5, <1>6, <1>7, <1>8, <1>9, <1>10, <1>11, <1>12, <1>13, <1>14 DEF Known

-----------------------------------------------------------------------------
\* What the history notes of an instruction is what it did.
Executed(n, e, i) ==
  \/ Refused(n, e) /\ Threw(n, i) /\ LeavesPending(i)
  \/ Trapped(n, e) /\ Threw(n, i) /\ ~LeavesPending(i) /\ Wrote(n, i).reg = ZERO /\ ~Wrote(n, i).late
  \/ /\ Stored(n, e, Wrote(n, i).reg, Wrote(n, i).val) /\ ~Threw(n, i)
     /\ ~Wrote(n, i).late /\ Wrote(n, i).reg \in Regs
  \/ /\ Loaded(n, e, Wrote(n, i).reg, Wrote(n, i).val) /\ ~Threw(n, i)
     /\ Wrote(n, i).late /\ Wrote(n, i).reg \in Regs \ {ZERO}
  \/ /\ \E v : Loaded(n, e, ZERO, v)
     /\ ~Threw(n, i) /\ ~Wrote(n, i).late /\ Wrote(n, i).reg = ZERO

LEMMA UndelayedAgrees ==
  ASSUME Registers, NEW n, Shape(n), NEW i, i.rt \in Regs
  PROVE  \E k : /\ Agree(n, k) /\ k.cop0.code = "none" /\ Undelayed(n, i) = exec(k, i)
                /\ i.op \in {"lwl", "lwr"} /\ i.rt # ZERO => old_value(k, i.rt) = old_value(n, i.rt)
<1> DEFINE sees == i.op \in {"lwl", "lwr"} /\ n.load_delay.reg = i.rt
           d == IF sees THEN n.load_delay ELSE NoLoad
           k == [n EXCEPT !.cop0.code = "none", !.load_delay = d]
<1>1. Undelayed(n, i) = exec(k, i)
  BY DEF Undelayed
<1>2. d.reg \in Regs
  BY DEF NoLoad, Registers, Shape
<1>3. i.op \in {"lwl", "lwr"} => IF n.load_delay.reg = i.rt THEN d = n.load_delay ELSE d.reg = ZERO
  BY DEF NoLoad
<1> HIDE DEF d
<1>4. k = [x \in MachineFields |-> k[x]] /\ Same(n, k, {"load_delay", "cop0"}) /\ k.load_delay = d /\ k.regs = n.regs
  BY DEF Shape, Same, MachineFields
<1>5. /\ k.cop0 = [x \in CopFields |-> k.cop0[x]] /\ k.cop0.code = "none"
      /\ k.cop0.isolated = n.cop0.isolated /\ k.cop0.bad = n.cop0.bad /\ k.cop0.epc = n.cop0.epc
  BY DEF Shape, CopFields, MachineFields
<1> HIDE DEF k
<1>6. Agree(n, k)
  BY <1>2, <1>4, <1>5 DEF Agree, Shape
<1>7. i.op \in {"lwl", "lwr"} /\ i.rt # ZERO => old_value(k, i.rt) = old_value(n, i.rt)
  BY <1>3, <1>4 DEF old_value
<1> QED
  BY <1>1, <1>5, <1>6, <1>7

LEMMA ExecutedAsNoted ==
  ASSUME Registers, NEW n, Shape(n), NEW i, Known(i)
  PROVE  Executed(n, exec(n, i), i)
<1>1. PICK k : /\ Agree(n, k) /\ k.cop0.code = "none" /\ Undelayed(n, i) = exec(k, i)
               /\ i.op \in {"lwl", "lwr"} /\ i.rt # ZERO => old_value(k, i.rt) = old_value(n, i.rt)
  BY UndelayedAgrees DEF Known
<1> DEFINE u == exec(k, i)
           reg == IF u.cop0.code # "none" THEN ZERO ELSE IF Later(i) # ZERO THEN Later(i) ELSE Now(i)
           w == Wrote(n, i)
<1>2. Threw(n, i) = (u.cop0.code # "none")
  BY <1>1 DEF Threw
<1>3. w.reg = reg /\ w.late = (reg # ZERO /\ Later(i) # ZERO)
      /\ w.val = IF Later(i) # ZERO THEN u.load_delay.val ELSE u.regs[reg]
  BY <1>1 DEF Wrote
<1>4. Outcome(n, k, i)
  BY <1>1, ExecOutcome
<1> HIDE DEF u, reg, w
<1>5. CASE Refused(n, exec(n, i)) /\ Refused(k, u) /\ LeavesPending(i)
  BY <1>2, <1>5 DEF Executed, Refused, Thrown
<1>6. CASE Trapped(n, exec(n, i)) /\ Trapped(k, u) /\ ~LeavesPending(i)
  BY <1>2, <1>3, <1>6 DEF Executed, Trapped, Thrown, w, reg
<1>7. CASE /\ \E v : Stored(n, exec(n, i), Now(i), v) /\ Stored(k, u, Now(i), v)
           /\ Later(i) = ZERO /\ Now(i) \in Regs
  <2>1. PICK v : Stored(n, exec(n, i), Now(i), v) /\ Stored(k, u, Now(i), v)
    BY <1>7
  <2>2. u.cop0.code = "none" /\ u.regs = Put(Delivered(k), Now(i), v)
    BY <1>1, <2>1 DEF Stored
  <2>3. reg = Now(i)
    BY <1>7, <2>2 DEF reg
  <2>4. w.reg = Now(i) /\ ~w.late /\ ~Threw(n, i) /\ w.val = u.regs[Now(i)]
    BY <1>2, <1>3, <1>7, <2>2, <2>3
  <2>5. Now(i) # ZERO => u.regs[Now(i)] = v
    <3>1. Delivered(k) = [r \in Regs |-> Delivered(k)[r]]
      BY <1>1 DEF Agree, Shape, Delivered, Put
    <3> QED
      BY <1>7, <2>2, <3>1 DEF Put
  <2>6. Stored(n, exec(n, i), w.reg, w.val)
    BY <2>1, <2>4, <2>5 DEF Stored, Put
  <2> QED
    BY <1>7, <2>4, <2>6 DEF Executed, w
<1>8. CASE /\ \E v, x : /\ Loaded(n, exec(n, i), Later(i), v) /\ Loaded(k, u, Later(i), x)
                        /\ Later(i) # ZERO => v = x
           /\ Now(i) = ZERO /\ Later(i) \in Regs
  <2>1. PICK v, x : /\ Loaded(n, exec(n, i), Later(i), v) /\ Loaded(k, u, Later(i), x)
                    /\ Later(i) # ZERO => v = x
    BY <1>8
  <2>2. u.cop0.code = "none" /\ u.load_delay.val = x /\ ~Threw(n, i)
    <3>1. u.cop0.code = "none" /\ u.load_delay = [reg |-> Later(i), val |-> x]
      BY <1>1, <2>1 DEF Loaded
    <3>2. u.load_delay.val = x
      BY <3>1
    <3> QED
      BY <1>2, <3>1, <3>2
  <2>3. reg = Later(i)
    BY <1>8, <2>2 DEF reg
  <2>4. CASE Later(i) # ZERO
    <3>1. w.reg = Later(i) /\ w.late /\ w.val = v
      BY <1>3, <2>1, <2>2, <2>3, <2>4
    <3> QED
      BY <1>8, <2>1, <2>2, <2>4, <3>1 DEF Executed, w
  <2>5. CASE Later(i) = ZERO
    <3>1. w.reg = ZERO /\ ~w.late
      BY <1>3, <2>3, <2>5
    <3> QED
      BY <2>1, <2>2, <2>5, <3>1 DEF Executed, w
  <2> QED
    BY <2>4, <2>5
<1> QED
  BY <1>4, <1>5, <1>6, <1>7, <1>8 DEF Outcome, u

LEMMA Advance ==
  ASSUME NEW a, Shape(a)
  PROVE  LET n == next_pc(a)
         IN  /\ Shape(n) /\ Same(a, n, {"last_pc", "pc", "next_pc", "in_branch_delay", "branched"})
             /\ n.regs = a.regs /\ n.load_delay = a.load_delay
             /\ n.last_pc = a.pc /\ n.in_branch_delay = a.branched
<1> DEFINE to == wrap(a.next_pc + 4)
           n == [a EXCEPT !.last_pc = a.pc, !.pc = a.next_pc, !.next_pc = to,
                          !.in_branch_delay = a.branched, !.branched = FALSE]
<1>1. next_pc(a) = n
  <2> HIDE DEF to
  <2>1. next_pc(a) = [a EXCEPT !.last_pc = a.pc, !.pc = a.next_pc, !.next_pc = wrap(@ + 4),
                               !.in_branch_delay = a.branched, !.branched = FALSE]
    BY DEF next_pc
  <2> QED
    BY <2>1 DEF to, Shape, MachineFields
<1> HIDE DEF to
<1>2. /\ n = [x \in MachineFields |-> n[x]]
      /\ Same(a, n, {"last_pc", "pc", "next_pc", "in_branch_delay", "branched"})
      /\ n.last_pc = a.pc /\ n.in_branch_delay = a.branched
  BY DEF Shape, Same, MachineFields
<1> HIDE DEF n
<1>3. n.regs = a.regs /\ n.load_delay = a.load_delay /\ n.cop0 = a.cop0
  BY <1>2 DEF Same, MachineFields
<1> QED
  BY <1>1, <1>2, <1>3 DEF Shape

\* A line of the cache that is filled changes none of it.
LEMMA Filling ==
  ASSUME NEW n, NEW e, NEW c
  PROVE  LET f == [e EXCEPT !.icache = c]
         IN  /\ Refused(n, e) => Refused(n, f)
             /\ Trapped(n, e) => Trapped(n, f)
             /\ \A r, v : Stored(n, e, r, v) => Stored(n, f, r, v)
             /\ \A r, v : Loaded(n, e, r, v) => Loaded(n, f, r, v)
<1> DEFINE f == [e EXCEPT !.icache = c]
<1>1. ASSUME Shape(e) PROVE Shape(f) /\ Same(e, f, {"icache"})
  BY <1>1 DEF Shape, Same, MachineFields
<1> HIDE DEF f
<1>2. ASSUME Shape(e)
      PROVE  /\ f.regs = e.regs /\ f.load_delay = e.load_delay /\ f.cop0 = e.cop0 /\ f.pc = e.pc
  BY <1>1, <1>2 DEF Same, MachineFields
<1>3. Thrown(n, e) => Thrown(n, f)
  <2> SUFFICES ASSUME Thrown(n, e) PROVE Thrown(n, f)
    OBVIOUS
  <2>1. Same(n, f, {"regs", "load_delay", "cop0", "pc", "next_pc", "icache"})
    BY <1>1 DEF Thrown, Same
  <2> QED
    BY <1>1, <1>2, <2>1 DEF Thrown
<1>4. Thrown(n, e) => Shape(e)
  BY DEF Thrown
<1>5. Refused(n, e) => Refused(n, f)
  BY <1>2, <1>3, <1>4 DEF Refused
<1>6. Trapped(n, e) => Trapped(n, f)
  BY <1>2, <1>3, <1>4 DEF Trapped
<1>7. \A r, v : Stored(n, e, r, v) => Stored(n, f, r, v)
  BY <1>1, <1>2 DEF Stored
<1>8. \A r, v : Loaded(n, e, r, v) => Loaded(n, f, r, v)
  BY <1>1, <1>2 DEF Loaded
<1> QED
  BY <1>5, <1>6, <1>7, <1>8 DEF f

LEMMA FetchFailed ==
  ASSUME NEW n, Shape(n), NEW a, NEW exc, exc # "none" PROVE Refused(n, fetch_failed(n, a, exc))
<1>1. fetch_failed(n, a, exc) = load_failed(n, a, exc)
  BY DEF fetch_failed, load_failed
<1> QED
  BY <1>1, LoadFailed

LEMMA InstructionExecuted ==
  ASSUME Registers, NEW a, Shape(a), NEW i, Known(i)
  PROVE  LET n == next_pc(a)
             e == execute_instruction(a, i)
         IN  IF fetch(n, a.pc).exc = "none" THEN Executed(n, e, i) ELSE Refused(n, e)
<1> DEFINE n == next_pc(a)
           f == fetch(n, a.pc)
           after == IF f.exc = "none" THEN exec(n, i) ELSE fetch_failed(n, a.pc, f.exc)
           c == [after.icache EXCEPT ![line_idx(a.pc)] = set_tag(f.line, a.pc)]
           e == execute_instruction(a, i)
<1>1. Shape(n) /\ n.last_pc = a.pc
  BY Advance
<1>2. e = IF f.miss THEN [after EXCEPT !.icache = c] ELSE after
  BY <1>1 DEF execute_instruction
<1> HIDE DEF e, n, c
<1>3. CASE f.exc = "none"
  <2>1. Executed(n, after, i)
    BY <1>1, <1>3, ExecutedAsNoted
  <2>2. Executed(n, e, i)
    <3> HIDE DEF after, f
    <3>1. Executed(n, [after EXCEPT !.icache = c], i)
      BY <2>1, Filling DEF Executed
    <3> QED
      BY <1>2, <2>1, <3>1
  <2> QED
    BY <1>3, <2>2 DEF n, e
<1>4. CASE f.exc # "none"
  <2>1. Refused(n, after)
    BY <1>1, <1>4, FetchFailed
  <2>2. Refused(n, e)
    <3> HIDE DEF after, f
    <3> QED
      BY <1>2, <2>1, Filling
  <2> QED
    BY <1>4, <2>2 DEF n, e
<1> QED
  BY <1>3, <1>4

-----------------------------------------------------------------------------
\* A step of the machine from a to b, with the history h before and g after it.
Took(a, h, b, g) ==
  \/ g = h /\ b.regs = a.regs /\ b.load_delay = a.load_delay
  \/ \E w : /\ g = Append(h, w) /\ ~w.late /\ w.reg \in Regs
            /\ b.load_delay.reg = ZERO /\ b.regs = Put(Delivered(a), w.reg, w.val)
  \/ \E w : /\ g = Append(h, w) /\ w.late /\ w.reg \in Regs \ {ZERO}
            /\ b.load_delay = [reg |-> w.reg, val |-> w.val]
            /\ b.regs = Put(a.regs, IF a.load_delay.reg = w.reg THEN ZERO ELSE a.load_delay.reg,
                            a.load_delay.val)

Faulted(a, b) ==
  /\ b.mem = a.mem /\ b.ctrl = a.ctrl
  /\ <<b.hi, b.lo, b.gte>> = <<a.hi, a.lo, a.gte>>
  /\ b.regs = a.regs \/ b.regs = fetch_load_slot(a).regs
  /\ b.cop0.epc = IF a.branched THEN wrap(a.pc - 4) ELSE a.pc
  /\ b.pc = Vector

LEMMA ThrownFaulted ==
  ASSUME Registers, NEW a, Shape(a), NEW e, Thrown(next_pc(a), e),
         e.regs = a.regs \/ e.regs = Delivered(a)
  PROVE  Faulted(a, e)
<1> DEFINE n == next_pc(a)
<1>1. /\ Same(a, n, {"last_pc", "pc", "next_pc", "in_branch_delay", "branched"})
      /\ n.last_pc = a.pc /\ n.in_branch_delay = a.branched
  BY Advance
<1>2. Thrown(n, e)
  OBVIOUS
<1> HIDE DEF n
<1>3. e.mem = a.mem /\ e.ctrl = a.ctrl /\ e.hi = a.hi /\ e.lo = a.lo /\ e.gte = a.gte
  BY <1>1, <1>2 DEF Thrown, Same, MachineFields
<1>4. e.regs = a.regs \/ e.regs = fetch_load_slot(a).regs
  BY Slot
<1>5. e.pc = Vector /\ e.cop0.epc = IF a.branched THEN wrap(a.pc - 4) ELSE a.pc
  BY <1>1, <1>2 DEF Thrown
<1> QED
  BY <1>3, <1>4, <1>5 DEF Faulted

LEMMA ExecuteTook ==
  ASSUME Parameters, Shape(m), guest.kind = "data", Execute
  PROVE  Shape(m') /\ Took(m, log.hist, m', log'.hist) /\ (log'.exc => Faulted(m, m'))
<1> DEFINE n == next_pc(m)
           f == fetch(n, m.pc)
<1>1. PICK i \in Meaning(f) : m' = execute_instruction(m, i) /\ log' = Logged(i)
  BY DEF Execute
<1>2. Registers
  BY InstructionsAssumption DEF Registers
<1>3. Known(i)
  <2>1. CASE f.exc # "none"
    <3>1. i = NopIns
      BY <2>1 DEF Meaning
    <3>2. i.op = "sll" /\ i.rs = 0 /\ i.rt = 0 /\ i.rd = 0 /\ i.imm = 0
      BY <3>1 DEF NopIns, Ins
    <3> QED
      BY <1>2, <3>2, FormDomains, NumbersHold DEF Known, Registers, ZERO, Numbers
  <2>2. CASE f.exc = "none"
    <3>1. i \in Repertoire
      BY <2>2 DEF Meaning
    <3> QED
      BY <3>1 DEF Parameters
  <2> QED
    BY <2>1, <2>2
<1> DEFINE e == execute_instruction(m, i)
           failed == f.exc # "none"
           refused == Threw(n, i) /\ LeavesPending(i)
           w == Wrote(n, i)
<1>4. IF f.exc = "none" THEN Executed(n, e, i) ELSE Refused(n, e)
  BY <1>2, <1>3, InstructionExecuted
<1>5. Shape(n) /\ n.regs = m.regs /\ n.load_delay = m.load_delay
  BY Advance
<1>6. Delivered(n) = Delivered(m)
  BY <1>5 DEF Delivered
<1>7. /\ log'.hist = (IF failed \/ refused THEN log.hist ELSE Append(log.hist, w))
      /\ log'.exc = (failed \/ Threw(n, i))
  BY <1>1 DEF Logged
<1>8. ASSUME Thrown(n, e), e.regs = m.regs \/ e.regs = Delivered(m) PROVE Faulted(m, e)
  BY <1>2, <1>8, ThrownFaulted
<1> HIDE DEF n, f, e, w
<1>9. CASE Refused(n, e) /\ (failed \/ refused)
  <2>1. Shape(e) /\ e.regs = m.regs /\ e.load_delay = m.load_delay /\ Thrown(n, e)
    BY <1>5, <1>9 DEF Refused, Thrown
  <2> QED
    BY <1>1, <1>7, <1>8, <1>9, <2>1 DEF Took, e
<1>10. CASE Trapped(n, e) /\ ~failed /\ ~refused /\ w.reg = ZERO /\ ~w.late
  <2>1. Shape(e) /\ e.regs = Delivered(m) /\ e.load_delay = NoLoad /\ Thrown(n, e)
    BY <1>6, <1>10 DEF Trapped, Thrown
  <2>2. e.load_delay.reg = ZERO /\ e.regs = Put(Delivered(m), w.reg, w.val) /\ w.reg \in Regs
    BY <1>2, <1>10, <2>1 DEF NoLoad, Put, Registers
  <2> QED
    BY <1>1, <1>7, <1>8, <1>10, <2>1, <2>2 DEF Took, e
<1>11. CASE Stored(n, e, w.reg, w.val) /\ ~failed /\ ~Threw(n, i) /\ ~w.late /\ w.reg \in Regs
  <2>1. Shape(e) /\ e.regs = Put(Delivered(m), w.reg, w.val) /\ e.load_delay.reg = ZERO
    BY <1>6, <1>11 DEF Stored, NoLoad
  <2> QED
    BY <1>1, <1>7, <1>11, <2>1 DEF Took, e
<1>12. CASE Loaded(n, e, w.reg, w.val) /\ ~failed /\ ~Threw(n, i) /\ w.late /\ w.reg \in Regs \ {ZERO}
  <2>1. /\ Shape(e) /\ e.load_delay = [reg |-> w.reg, val |-> w.val]
        /\ e.regs = Put(m.regs, IF m.load_delay.reg = w.reg THEN ZERO ELSE m.load_delay.reg, m.load_delay.val)
    BY <1>5, <1>12 DEF Loaded
  <2> QED
    BY <1>1, <1>7, <1>12, <2>1 DEF Took, e
<1>13. CASE (\E v : Loaded(n, e, ZERO, v)) /\ ~failed /\ ~Threw(n, i) /\ ~w.late /\ w.reg = ZERO
  <2>1. PICK v : Loaded(n, e, ZERO, v)
    BY <1>13
  <2>2. /\ Shape(e) /\ e.load_delay = [reg |-> ZERO, val |-> v]
        /\ e.regs = Put(m.regs, IF m.load_delay.reg = ZERO THEN ZERO ELSE m.load_delay.reg, m.load_delay.val)
    BY <1>5, <2>1 DEF Loaded
  <2>3. e.load_delay.reg = ZERO
    BY <2>2
  <2>4. e.regs = Put(Delivered(m), w.reg, w.val) /\ w.reg \in Regs
    BY <1>2, <1>13, <2>2 DEF Delivered, Put, Registers
  <2> QED
    BY <1>1, <1>7, <1>13, <2>2, <2>3, <2>4 DEF Took, e
<1> QED
  BY <1>4, <1>9, <1>10, <1>11, <1>12, <1>13 DEF Executed, w

LEMMA InterruptTook ==
  ASSUME Parameters, Shape(m), Interrupt
  PROVE  Shape(m') /\ Took(m, log.hist, m', log'.hist) /\ (log'.exc => Faulted(m, m'))
<1> DEFINE n == next_pc(m)
           d == fetch_load_slot(n)
           e == throw_exception(d, "Interrupt")
           w == [op |-> "interrupt", reg |-> ZERO, late |-> FALSE, val |-> 0, addr |-> 0, arg |-> 0]
<1>1. m' = e /\ log'.hist = Append(log.hist, w)
  BY DEF Interrupt, interrupt
<1>2. Registers
  BY InstructionsAssumption DEF Registers
<1>3. Shape(n) /\ Delivered(n) = Delivered(m)
  BY Advance DEF Delivered
<1>4. Shape(d)
  BY <1>2, <1>3, Slot
<1>5. Trapped(n, e)
  <2> HIDE DEF n
  <2>1. Refused(d, e)
    BY <1>4, ThrowRefused
  <2> QED
    BY <1>2, <1>3, <2>1, RefusedAfter
<1>6. Faulted(m, e)
  BY <1>2, <1>3, <1>5, ThrownFaulted DEF Trapped
<1>7. w.reg = ZERO /\ ~w.late
  OBVIOUS
<1> HIDE DEF n, e, w
<1>8. e.regs = Put(Delivered(m), w.reg, w.val) /\ e.load_delay.reg = ZERO /\ w.reg \in Regs /\ Shape(e)
  BY <1>2, <1>3, <1>5, <1>7 DEF Trapped, Thrown, Put, NoLoad, Registers
<1> QED
  BY <1>1, <1>6, <1>7, <1>8 DEF Took

-----------------------------------------------------------------------------
\* The writes of a history that have arrived in register r.
ArrivedIn(h, r) ==
  {k \in DOMAIN h : h[k].reg = r /\ (h[k].late => k < Len(h) /\ h[k + 1].reg # r)}

\* Register r holds the last of them.
Holds(h, r, v, first) ==
  IF ArrivedIn(h, r) = {} THEN v = first
  ELSE \E k \in ArrivedIn(h, r) : v = h[k].val /\ \A j \in ArrivedIn(h, r) : j <= k

\* The pending load is the last instruction's.
Pending(h, delay) ==
  IF h # <<>> /\ h[Len(h)].late THEN delay.reg = h[Len(h)].reg /\ delay.val = h[Len(h)].val
  ELSE delay.reg = ZERO

IsHistory(h) == \E S : h \in Seq(S)

LEMMA Longer ==
  ASSUME NEW h, IsHistory(h), NEW w
  PROVE  LET g == Append(h, w)
         IN  /\ IsHistory(g) /\ Len(h) \in Nat /\ Len(g) = Len(h) + 1 /\ DOMAIN h = 1 .. Len(h)
             /\ DOMAIN g = 1 .. Len(h) + 1 /\ g[Len(h) + 1] = w /\ g # <<>>
             /\ \A k \in 1 .. Len(h) : g[k] = h[k]
             /\ h # <<>> <=> Len(h) >= 1
<1>1. PICK S : h \in Seq(S)
  BY DEF IsHistory
<1> DEFINE T == S \cup {w}
<1>2. h \in Seq(T) /\ w \in T
  BY <1>1
<1> HIDE DEF T
<1>3. Append(h, w) \in Seq(T)
  BY <1>2, AppendProperties
<1>4. /\ Len(h) \in Nat /\ Len(Append(h, w)) = Len(h) + 1 /\ DOMAIN h = 1 .. Len(h)
      /\ DOMAIN Append(h, w) = 1 .. Len(h) + 1 /\ Append(h, w)[Len(h) + 1] = w /\ Append(h, w) # <<>>
      /\ \A k \in 1 .. Len(h) : Append(h, w)[k] = h[k]
  BY <1>2, AppendProperties
<1>5. h # <<>> <=> Len(h) >= 1
  BY <1>2, <1>4, EmptySeq
<1> QED
  BY <1>3, <1>4, <1>5 DEF IsHistory

\* What arrives with one more entry w: w itself, the load before it, or nothing.
LEMMA Arrival ==
  ASSUME NEW h, IsHistory(h), NEW w, NEW r
  PROVE  LET g == Append(h, w)
             last == h[Len(h)]
             arrives == h # <<>> /\ last.late /\ last.reg = r /\ w.reg # r
         IN  /\ w.reg = r /\ ~w.late => Len(h) + 1 \in ArrivedIn(g, r)
             /\ arrives => ArrivedIn(g, r) = ArrivedIn(h, r) \cup {Len(h)}
             /\ ~arrives /\ (w.reg = r => w.late) => ArrivedIn(g, r) = ArrivedIn(h, r)
<1> DEFINE g == Append(h, w)
           L == Len(h)
           last == h[L]
           arrives == h # <<>> /\ last.late /\ last.reg = r /\ w.reg # r
<1>1. /\ L \in Nat /\ Len(g) = L + 1 /\ DOMAIN h = 1 .. L /\ DOMAIN g = 1 .. L + 1 /\ g[L + 1] = w
      /\ (\A k \in 1 .. L : g[k] = h[k]) /\ (h # <<>> <=> L >= 1)
  BY Longer
<1> HIDE DEF g, L
<1>2. L + 1 \in ArrivedIn(g, r) <=> w.reg = r /\ ~w.late
  BY <1>1 DEF ArrivedIn
<1>3. L + 1 \notin ArrivedIn(h, r)
  BY <1>1 DEF ArrivedIn
<1>4. ASSUME NEW k \in 1 .. L, k # L PROVE k \in ArrivedIn(g, r) <=> k \in ArrivedIn(h, r)
  <2>1. k + 1 \in 1 .. L /\ k \in 1 .. L + 1 /\ k < L /\ k < L + 1
    BY <1>1, <1>4
  <2>2. g[k] = h[k] /\ g[k + 1] = h[k + 1]
    BY <1>1, <2>1
  <2> QED
    BY <1>1, <2>1, <2>2 DEF ArrivedIn
<1>5. L >= 1 => /\ L \in ArrivedIn(g, r) <=> last.reg = r /\ (last.late => w.reg # r)
                /\ L \in ArrivedIn(h, r) <=> last.reg = r /\ ~last.late
  <2> SUFFICES ASSUME L >= 1 PROVE /\ L \in ArrivedIn(g, r) <=> last.reg = r /\ (last.late => w.reg # r)
                                   /\ L \in ArrivedIn(h, r) <=> last.reg = r /\ ~last.late
    OBVIOUS
  <2>1. L \in 1 .. L /\ L \in 1 .. L + 1 /\ ~(L < L) /\ L < L + 1
    BY <1>1
  <2>2. g[L] = last /\ g[L + 1] = w
    BY <1>1, <2>1
  <2> QED
    BY <1>1, <2>1, <2>2 DEF ArrivedIn
<1>6. ArrivedIn(g, r) \subseteq 1 .. L + 1 /\ ArrivedIn(h, r) \subseteq 1 .. L
  BY <1>1 DEF ArrivedIn
<1>7. ASSUME arrives PROVE ArrivedIn(g, r) = ArrivedIn(h, r) \cup {L}
  <2>1. L >= 1 /\ L \in ArrivedIn(g, r) /\ L + 1 \notin ArrivedIn(g, r)
    BY <1>1, <1>2, <1>5, <1>7
  <2> QED
    BY <1>1, <1>4, <1>6, <2>1
<1>8. ASSUME ~arrives, w.reg = r => w.late PROVE ArrivedIn(g, r) = ArrivedIn(h, r)
  <2>1. L + 1 \notin ArrivedIn(g, r)
    BY <1>2, <1>8
  <2>2. L >= 1 => (L \in ArrivedIn(g, r) <=> L \in ArrivedIn(h, r))
    BY <1>1, <1>5, <1>8
  <2> QED
    BY <1>1, <1>4, <1>6, <2>1, <2>2
<1> QED
  BY <1>2, <1>7, <1>8 DEF g, L

LEMMA HoldsStep ==
  ASSUME Registers, NEW a, NEW b, NEW h, NEW g, Shape(a), IsHistory(h), Pending(h, a.load_delay),
         Took(a, h, b, g), NEW first, NEW r \in Regs \ {ZERO}, Holds(h, r, a.regs[r], first)
  PROVE  Holds(g, r, b.regs[r], first)
<1> DEFINE L == Len(h)
           last == h[L]
           delay == a.load_delay
<1>1. CASE g = h /\ b.regs = a.regs
  BY <1>1
<1>2. ASSUME NEW w, g = Append(h, w), w.reg \in Regs,
             \/ ~w.late /\ b.regs = Put(Delivered(a), w.reg, w.val)
             \/ /\ w.late /\ w.reg # ZERO
                /\ b.regs = Put(a.regs, IF delay.reg = w.reg THEN ZERO ELSE delay.reg, delay.val)
      PROVE  Holds(g, r, b.regs[r], first)
  <2>1. /\ L \in Nat /\ Len(g) = L + 1 /\ DOMAIN h = 1 .. L /\ DOMAIN g = 1 .. L + 1 /\ g[L + 1] = w
        /\ (\A k \in 1 .. L : g[k] = h[k]) /\ (h # <<>> <=> L >= 1)
    BY <1>2, Longer
  <2>2. ArrivedIn(g, r) \subseteq 1 .. L + 1 /\ ArrivedIn(h, r) \subseteq 1 .. L
    BY <2>1 DEF ArrivedIn
  <2>3. a.regs = [x \in Regs |-> a.regs[x]] /\ delay.reg \in Regs
    BY DEF Shape
  <2>4. CASE w.reg = r /\ ~w.late
    <3>1. b.regs[r] = w.val
      <4>1. Delivered(a) = [x \in Regs |-> Delivered(a)[x]]
        BY <2>3 DEF Delivered, Put
      <4>2. b.regs = [Delivered(a) EXCEPT ![r] = w.val]
        BY <1>2, <2>4 DEF Put
      <4> QED
        BY <4>1, <4>2
    <3>2. L + 1 \in ArrivedIn(g, r)
      BY <1>2, <2>4, Arrival
    <3>3. \A j \in ArrivedIn(g, r) : j <= L + 1
      BY <2>1, <2>2
    <3> QED
      BY <2>1, <3>1, <3>2, <3>3 DEF Holds
  <2>5. CASE h # <<>> /\ last.late /\ last.reg = r /\ w.reg # r
    <3>1. delay.reg = r /\ delay.val = last.val
      BY <2>5 DEF Pending
    <3>2. b.regs[r] = last.val
      <4>1. Put(a.regs, r, last.val)[r] = last.val /\ Put(a.regs, r, last.val) = [x \in Regs |-> Put(a.regs, r, last.val)[x]]
        BY <2>3 DEF Put
      <4>2. Delivered(a) = Put(a.regs, r, last.val)
        BY <3>1 DEF Delivered
      <4>3. CASE w.late
        BY <1>2, <2>5, <3>1, <4>1, <4>3
      <4>4. CASE ~w.late
        <5>1. b.regs = Put(Put(a.regs, r, last.val), w.reg, w.val)
          BY <1>2, <4>2, <4>4
        <5> QED
          BY <1>2, <2>5, <4>1, <5>1 DEF Put
      <4> QED
        BY <4>3, <4>4
    <3>3. ArrivedIn(g, r) = ArrivedIn(h, r) \cup {L}
      BY <1>2, <2>5, Arrival
    <3>4. g[L] = last /\ \A j \in ArrivedIn(g, r) : j <= L
      BY <2>1, <2>2, <2>5, <3>3
    <3> QED
      BY <3>2, <3>3, <3>4 DEF Holds
  <2>6. CASE (w.reg = r => w.late) /\ ~(h # <<>> /\ last.late /\ last.reg = r /\ w.reg # r)
    <3>1. ArrivedIn(g, r) = ArrivedIn(h, r)
      BY <1>2, <2>6, Arrival
    <3>2. w.reg # r => delay.reg # r
      BY <2>6 DEF Pending
    <3>3. b.regs[r] = a.regs[r]
      <4>1. CASE w.late
        BY <1>2, <2>3, <3>2, <4>1 DEF Put
      <4>2. CASE ~w.late
        <5>1. w.reg # r /\ delay.reg # r
          BY <2>6, <3>2, <4>2
        <5>2. Delivered(a)[r] = a.regs[r] /\ Delivered(a) = [x \in Regs |-> Delivered(a)[x]]
          BY <2>3, <5>1 DEF Delivered, Put
        <5>3. b.regs = Put(Delivered(a), w.reg, w.val)
          BY <1>2, <4>2
        <5> QED
          BY <1>2, <5>1, <5>2, <5>3 DEF Put
      <4> QED
        BY <4>1, <4>2
    <3>4. \A k \in ArrivedIn(h, r) : g[k] = h[k]
      BY <2>1, <2>2
    <3> QED
      BY <3>1, <3>3, <3>4 DEF Holds
  <2> QED
    BY <2>4, <2>5, <2>6
<1> QED
  BY <1>1, <1>2 DEF Took

LEMMA PendingStep ==
  ASSUME NEW a, NEW b, NEW h, NEW g, IsHistory(h), Pending(h, a.load_delay), Took(a, h, b, g)
  PROVE  IsHistory(g) /\ Pending(g, b.load_delay)
<1>1. CASE g = h /\ b.load_delay = a.load_delay
  BY <1>1
<1>2. ASSUME NEW w, g = Append(h, w),
             \/ ~w.late /\ b.load_delay.reg = ZERO
             \/ w.late /\ b.load_delay = [reg |-> w.reg, val |-> w.val]
      PROVE  IsHistory(g) /\ Pending(g, b.load_delay)
  <2>1. IsHistory(g) /\ Len(g) = Len(h) + 1 /\ g[Len(h) + 1] = w /\ g # <<>>
    BY <1>2, Longer
  <2>2. w.late => b.load_delay.reg = w.reg /\ b.load_delay.val = w.val
    BY <1>2
  <2> QED
    BY <1>2, <2>1, <2>2 DEF Pending
<1> QED
  BY <1>1, <1>2 DEF Took

Delay ==
  guest.kind = "data" =>
    /\ Shape(m) /\ IsHistory(log.hist) /\ Pending(log.hist, m.load_delay)
    /\ \A r \in Regs \ {ZERO} : Holds(log.hist, r, m.regs[r], guest.regs[r])

LEMMA InitDelay == ASSUME Parameters, Init PROVE Delay
<1> SUFFICES ASSUME guest.kind = "data"
             PROVE  /\ Shape(m) /\ IsHistory(log.hist) /\ Pending(log.hist, m.load_delay)
                    /\ \A r \in Regs \ {ZERO} : Holds(log.hist, r, m.regs[r], guest.regs[r])
  BY DEF Delay
<1>1. InitData
  BY DEF Init, InitCode, InitSource
<1>2. PICK f \in FirstRegs : guest = [kind |-> "data", regs |-> f] /\ m = Boot(f, FirstMem, 0)
  BY <1>1 DEF InitData
<1>3. f = [r \in Regs |-> f[r]] /\ ZERO \in Regs
  BY <1>2, InstructionsAssumption DEF Parameters
<1>4. m.regs = f /\ guest.regs = f /\ m.load_delay = NoLoad
  BY <1>2 DEF Boot
<1>5. m = [x \in MachineFields |-> m[x]]
  BY <1>2 DEF Boot, MachineFields
<1>6. m.cop0 = [isolated |-> FALSE, bad |-> 0, code |-> "none", epc |-> 0]
  BY <1>2 DEF Boot
<1>7. m.cop0 = [x \in CopFields |-> m.cop0[x]]
  BY <1>6 DEF CopFields
<1>8. Shape(m) /\ m.load_delay.reg = ZERO
  BY <1>3, <1>4, <1>5, <1>7 DEF Shape, NoLoad
<1>9. log.hist = <<>>
  BY DEF Init, NoLog
<1>10. <<>> \in Seq({}) /\ Len(<<>>) = 0 /\ DOMAIN <<>> = {}
  BY EmptySeq
<1>11. IsHistory(log.hist)
  BY <1>9, <1>10 DEF IsHistory
<1>12. ASSUME NEW r PROVE ArrivedIn(log.hist, r) = {}
  BY <1>9, <1>10 DEF ArrivedIn
<1> QED
  BY <1>4, <1>8, <1>9, <1>11, <1>12 DEF Pending, Holds

LEMMA DelayStep ==
  ASSUME Parameters, Delay, [Next]_vars
  PROVE  Delay' /\ (guest.kind = "data" /\ log'.exc /\ Next => Faulted(m, m'))
<1>1. guest' = guest
  BY DEF Next, Execute, Interrupt, vars
<1>2. CASE guest.kind # "data"
  BY <1>1, <1>2 DEF Delay
<1>3. CASE guest.kind = "data" /\ UNCHANGED vars /\ ~Next
  BY <1>3 DEF Delay, vars
<1>4. CASE guest.kind = "data" /\ Next
  <2>1. Shape(m) /\ IsHistory(log.hist) /\ Pending(log.hist, m.load_delay)
    BY <1>4 DEF Delay
  <2>2. Shape(m') /\ Took(m, log.hist, m', log'.hist) /\ (log'.exc => Faulted(m, m'))
    BY <1>4, <2>1, ExecuteTook, InterruptTook DEF Next
  <2>3. IsHistory(log'.hist) /\ Pending(log'.hist, m'.load_delay)
    BY <2>1, <2>2, PendingStep
  <2>4. Registers
    BY InstructionsAssumption DEF Registers
  <2>5. ASSUME NEW r \in Regs \ {ZERO} PROVE Holds(log'.hist, r, m'.regs[r], guest.regs[r])
    <3>1. Holds(log.hist, r, m.regs[r], guest.regs[r])
      BY <1>4 DEF Delay
    <3> QED
      BY <2>1, <2>2, <2>4, <3>1, HoldsStep
  <2> QED
    BY <1>1, <2>2, <2>3, <2>5 DEF Delay
<1> QED
  BY <1>2, <1>3, <1>4

LEMMA DelayImplies == ASSUME Delay PROVE LoadDelay
<1> SUFFICES ASSUME guest.kind = "data", NEW r \in Regs \ {ZERO}
             PROVE  m.regs[r] = IF Arrived(r) = {} THEN guest.regs[r] ELSE log.hist[Max(Arrived(r))].val
  BY DEF LoadDelay
<1>1. Arrived(r) = ArrivedIn(log.hist, r)
  BY DEF Arrived, ArrivedIn
<1>2. Holds(log.hist, r, m.regs[r], guest.regs[r])
  BY DEF Delay
<1>3. CASE Arrived(r) = {}
  BY <1>1, <1>2, <1>3 DEF Holds
<1>4. CASE Arrived(r) # {}
  <2>1. PICK k \in Arrived(r) : m.regs[r] = log.hist[k].val /\ \A j \in Arrived(r) : j <= k
    BY <1>1, <1>2, <1>4 DEF Holds
  <2>2. Arrived(r) \subseteq Nat
    <3>1. PICK S : log.hist \in Seq(S)
      BY DEF Delay, IsHistory
    <3> QED
      BY <3>1 DEF Arrived
  <2>3. Max(Arrived(r)) = k
    BY <2>1, <2>2 DEF Max
  <2> QED
    BY <1>4, <2>1, <2>3
<1> QED
  BY <1>3, <1>4

\* LoadDelay, for every program of known instructions, any registers and memory
\* and interrupts between any two instructions: a register holds what the last
\* write that has arrived put there, where a load (`pipeline_bus_load`,
\* `pipeline_cop_load`) arrives one instruction late (`fetch_load_slot`) and not
\* at all when that instruction writes the same register.
THEOREM LoadsComeLate == Spec => []LoadDelay
<1> USE PipelineAssumption
<1>1. Init => Delay
  BY InitDelay
<1>2. Delay /\ [Next]_vars => Delay'
  BY DelayStep
<1>3. Delay => LoadDelay
  BY DelayImplies
<1> QED
  BY <1>1, <1>2, <1>3, PTL DEF Spec

\* FaultKeepsState, for the same programs: an instruction that raises an exception
\* (`throw_exception`), and an interrupt (`check_for_pending_irq`), leave memory,
\* cache control, HI, LO and the GTE as they were, change no register but for the
\* load that was under way, and save the address to resume at.
THEOREM FaultsAreClean == Spec => FaultKeepsState
<1> USE PipelineAssumption
<1> DEFINE Clean ==
       guest.kind = "data" /\ log'.exc =>
         /\ m'.mem = m.mem /\ m'.ctrl = m.ctrl
         /\ <<m'.hi, m'.lo, m'.gte>> = <<m.hi, m.lo, m.gte>>
         /\ m'.regs = m.regs \/ m'.regs = fetch_load_slot(m).regs
         /\ m'.cop0.epc = IF m.branched THEN wrap(m.pc - 4) ELSE m.pc
         /\ m'.pc = Vector
<1>1. Init => Delay
  BY InitDelay
<1>2. Delay /\ [Next]_vars => Delay'
  BY DelayStep
<1>3. Delay /\ [Next]_vars => [Clean]_vars
  BY DelayStep DEF Faulted
<1> QED
  BY <1>1, <1>2, <1>3, PTL DEF Spec, FaultKeepsState

-----------------------------------------------------------------------------
(***************************************************************************)
(* The instruction cache (Pipeline's code guest): every part of the        *)
(* machine is a number, whatever is not a store leaves memory and cache    *)
(* alone, an address is its tag, line and word, and of the words the cache *)
(* hits on the ones without a doubt stay equal to memory.                  *)
(***************************************************************************)
\* The machine: memory, the lines of the cache, and the rest.
Mem == Ram \cup ScratchPad
Line == [tag : Int, first : Nat, data : [0 .. LineWords - 1 -> Int]]
Codes == {"none", "Interrupt", "ArithmeticOverflow", "AddressLoadError", "AddressStoreError", "BusDataError",
          "BusInstructionError", "Syscall", "Breakpoint", "CopUnusable", "ReservedInstruction"}
Machine ==
  [last_pc : WordValues, pc : WordValues, next_pc : WordValues, in_branch_delay : BOOLEAN, branched : BOOLEAN,
   hi : WordValues, lo : WordValues, regs : [Regs -> WordValues],
   load_delay : [reg : Regs, val : WordValues], gte : WordValues,
   cop0 : [isolated : BOOLEAN, bad : WordValues, code : Codes, epc : WordValues],
   mem : [Mem -> ByteValues], ctrl : WordValues, icache : [0 .. Lines - 1 -> Line]]

\* An instruction that leaves memory and cache alone.
Quiet(n, e) == e \in Machine /\ e.mem = n.mem /\ e.ctrl = n.ctrl /\ e.icache = n.icache

LEMMA WrapWord == ASSUME Numbers, NEW v \in Int PROVE wrap(v) \in WordValues
BY DEF Numbers, wrap, WordValues

LEMMA WordIsNat ==
  ASSUME Numbers PROVE WordValues \subseteq Nat /\ ByteValues \subseteq WordValues /\ 0 \in WordValues /\ 1 \in Nat
BY DEF Numbers, WordValues, ByteValues

\* There are at least eight regions, and the halves of the integers.
LEMMA SmallWord ==
  ASSUME Numbers PROVE \A v \in 0 .. 7 : v \in WordValues
BY BusAssumption DEF Numbers, WordValues

LEMMA StoreRegQuiet ==
  ASSUME NEW n \in Machine, NEW r \in Regs, NEW v \in WordValues PROVE Quiet(n, store_reg(n, r, v))
<1> DEFINE R == [n.regs EXCEPT ![r] = v]
<1>1. R \in [Regs -> WordValues]
  BY DEF Machine
<1>2. store_reg(n, r, v) \in {n, [n EXCEPT !.regs = R]}
  BY DEF store_reg
<1> HIDE DEF R
<1> QED
  BY <1>1, <1>2 DEF Quiet, Machine

LEMMA SlotQuiet ==
  ASSUME Numbers, Registers, NEW n \in Machine PROVE Quiet(n, fetch_load_slot(n))
<1> DEFINE s == store_reg(n, n.load_delay.reg, n.load_delay.val)
<1>1. Quiet(n, s)
  BY StoreRegQuiet DEF Machine
<1>2. NoLoad \in [reg : Regs, val : WordValues]
  BY WordIsNat DEF NoLoad, Registers
<1>3. fetch_load_slot(n) = [s EXCEPT !.load_delay = NoLoad]
  BY DEF fetch_load_slot
<1> HIDE DEF s
<1> QED
  BY <1>1, <1>2, <1>3 DEF Quiet, Machine

LEMMA PipelineLoadQuiet ==
  ASSUME Registers, NEW n \in Machine, NEW r \in Regs, NEW v \in WordValues
  PROVE  Quiet(n, pipeline_load(n, r, v))
<1> DEFINE d == IF n.load_delay.reg = r THEN ZERO ELSE n.load_delay.reg
           s == store_reg(n, d, n.load_delay.val)
           L == [reg |-> r, val |-> v]
<1>1. d \in Regs /\ n.load_delay.val \in WordValues
  BY DEF Machine, Registers
<1>2. Quiet(n, s)
  BY <1>1, StoreRegQuiet
<1>3. pipeline_load(n, r, v) = [s EXCEPT !.load_delay = L] /\ L \in [reg : Regs, val : WordValues]
  BY DEF pipeline_load
<1> HIDE DEF s, d, L
<1> QED
  BY <1>2, <1>3 DEF Quiet, Machine

LEMMA ThrowQuiet ==
  ASSUME Numbers, NEW n \in Machine, NEW code \in Codes PROVE Quiet(n, throw_exception(n, code))
<1> DEFINE epc == IF n.in_branch_delay THEN wrap(n.last_pc - 4) ELSE n.last_pc
           next == wrap(Vector + 4)
           c == [n.cop0 EXCEPT !.code = code, !.epc = epc]
<1>1. throw_exception(n, code) = [n EXCEPT !.cop0 = c, !.pc = Vector, !.next_pc = next]
  BY DEF throw_exception, Machine
<1>2. n.last_pc \in Int /\ n.last_pc - 4 \in Int /\ n.last_pc \in WordValues /\ Vector + 4 \in Int
  BY DEF Machine, Numbers, WordValues
<1>3. epc \in WordValues /\ next \in WordValues /\ Vector \in WordValues
  BY <1>2, WrapWord DEF Numbers
<1> HIDE DEF epc, next
<1>4. c \in [isolated : BOOLEAN, bad : WordValues, code : Codes, epc : WordValues]
  BY <1>3 DEF Machine
<1> HIDE DEF c
<1> QED
  BY <1>1, <1>3, <1>4 DEF Quiet, Machine

LEMMA BadQuiet ==
  ASSUME NEW n \in Machine, NEW a \in WordValues PROVE Quiet(n, [n EXCEPT !.cop0.bad = a])
<1> DEFINE c == [n.cop0 EXCEPT !.bad = a]
<1>1. c \in [isolated : BOOLEAN, bad : WordValues, code : Codes, epc : WordValues]
  BY DEF Machine
<1>2. [n EXCEPT !.cop0.bad = a] = [n EXCEPT !.cop0 = c]
  BY DEF Machine
<1> HIDE DEF c
<1> QED
  BY <1>1, <1>2 DEF Quiet, Machine

LEMMA QuietTwice == ASSUME NEW n, NEW e, NEW k, Quiet(n, e), Quiet(e, k) PROVE Quiet(n, k)
BY DEF Quiet

LEMMA FailedQuiet ==
  ASSUME Numbers, NEW n \in Machine, NEW a \in WordValues, NEW exc \in Codes
  PROVE  Quiet(n, load_failed(n, a, exc))
<1> DEFINE B == [n EXCEPT !.cop0.bad = a]
<1>1. Quiet(n, B)
  BY BadQuiet
<1>2. load_failed(n, a, exc) \in {throw_exception(B, exc), throw_exception(n, exc)}
  BY DEF load_failed
<1> HIDE DEF B
<1>3. Quiet(B, throw_exception(B, exc)) /\ Quiet(n, throw_exception(n, exc))
  BY <1>1, ThrowQuiet DEF Quiet
<1> QED
  BY <1>1, <1>2, <1>3, QuietTwice

LEMMA JumpQuiet == ASSUME NEW n \in Machine, NEW a \in WordValues PROVE Quiet(n, jump(n, a))
BY DEF jump, Machine, Quiet

\* The instruction's fields are numbers.
Fields_(i) == i.rs \in Regs /\ i.rt \in Regs /\ i.imm \in WordValues

LEMMA Extended ==
  ASSUME Numbers
  PROVE  /\ \A v \in ByteValues : sign_byte(v) \in WordValues
         /\ \A v \in 0 .. Half - 1 : v \in WordValues /\ sign_half(v) \in WordValues
<1>1. Word \in Nat /\ Byte \in Nat /\ Half \in Nat /\ Byte <= Word /\ Half <= Word
  BY DEF Numbers
<1>2. ASSUME NEW v \in ByteValues PROVE sign_byte(v) \in WordValues
  BY <1>1 DEF sign_byte, WordValues, ByteValues
<1>3. ASSUME NEW v \in 0 .. Half - 1 PROVE v \in WordValues /\ sign_half(v) \in WordValues
  BY <1>1 DEF sign_half, WordValues
<1> QED
  BY <1>2, <1>3

LEMMA Shifted ==
  ASSUME Numbers, NEW v \in WordValues
  PROVE  /\ signed(v) \in Int
         /\ \A i \in 0 .. WordBits : v * 2 ^ i \in Int /\ v \div 2 ^ i \in WordValues /\ signed(v) \div 2 ^ i \in Int
<1>1. v \in Nat /\ v < Word /\ Word \in Nat
  BY DEF WordValues, Numbers
<1>2. signed(v) \in Int
  BY <1>1 DEF signed
<1>3. ASSUME NEW i \in 0 .. WordBits
      PROVE  v * 2 ^ i \in Int /\ v \div 2 ^ i \in WordValues /\ signed(v) \div 2 ^ i \in Int
  <2> DEFINE k == 2 ^ i
  <2>1. k \in Nat \ {0}
    BY DEF Numbers
  <2> HIDE DEF k
  <2>2. v * k \in Int /\ signed(v) \div k \in Int
    BY <1>1, <1>2, <2>1
  <2>3. v \div k \in 0 .. v
    BY <1>1, <2>1, DivLess
  <2>4. v \div k \in WordValues
    BY <1>1, <2>3 DEF WordValues
  <2> QED
    BY <2>2, <2>4 DEF k
<1> QED
  BY <1>2, <1>3

LEMMA ImmWord == ASSUME Numbers, NEW i, Fields_(i) PROVE imm(i) \in WordValues /\ signed_imm(i) \in WordValues
<1>1. i.imm % Half \in 0 .. Half - 1
  BY WordIsNat DEF Numbers, Fields_
<1> QED
  BY <1>1, Extended DEF imm, signed_imm

LEMMA AddrWord ==
  ASSUME Numbers, NEW n \in Machine, NEW i, Fields_(i)
  PROVE  effective_addr(n, i) \in WordValues /\ effective_addr(n, i) \in Nat
<1>1. n.regs[i.rs] \in WordValues /\ signed_imm(i) \in WordValues
  BY ImmWord DEF Machine, Fields_
<1>2. n.regs[i.rs] + signed_imm(i) \in Int
  BY <1>1 DEF WordValues
<1> QED
  BY <1>2, WrapWord, WordIsNat DEF effective_addr

\* The operands and the result of the arithmetic and logical instructions.
Shifts == {"rs_shift", "shift", "half"}
Values == {"rs", "rt", "imm", "signed_imm"}

LEMMA OperandWord ==
  ASSUME Numbers, NEW n \in Machine, NEW i, Fields_(i)
  PROVE  /\ \A src \in Values : operand(n, i, src) \in WordValues
         /\ \A src \in Shifts : operand(n, i, src) \in 0 .. WordBits
<1>1. /\ n.regs[i.rs] \in WordValues /\ n.regs[i.rt] \in WordValues
      /\ imm(i) \in WordValues /\ signed_imm(i) \in WordValues
  BY ImmWord DEF Machine, Fields_
<1>2. ASSUME NEW v \in Nat PROVE v % WordBits \in 0 .. WordBits
  BY DEF Numbers
<1>3. 2 * ByteBits \in 0 .. WordBits
  BY DEF Numbers, WordBits
<1>4. n.regs[i.rs] % WordBits \in 0 .. WordBits /\ i.imm % WordBits \in 0 .. WordBits
  BY <1>1, <1>2, WordIsNat DEF Fields_
<1>5. ASSUME NEW src \in Values PROVE operand(n, i, src) \in WordValues
  BY <1>1 DEF operand, Values
<1>6. ASSUME NEW src \in Shifts PROVE operand(n, i, src) \in 0 .. WordBits
  BY <1>3, <1>4 DEF operand, Shifts
<1> QED
  BY <1>5, <1>6

Sums == {"add", "sub", "and", "or", "xor", "nor", "slt", "sltu"}

LEMMA AluWord ==
  ASSUME Numbers, NEW a \in WordValues, NEW b, NEW f,
         (f \in Sums /\ b \in WordValues) \/ (f \in {"sll", "srl", "sra"} /\ b \in 0 .. WordBits)
  PROVE  alu(f, a, b) \in WordValues
<1>1. CASE f \in {"add", "sub"} /\ b \in WordValues
  <2>1. a + b \in Int /\ a - b \in Int
    BY <1>1 DEF WordValues
  <2>2. wrap(a + b) \in WordValues /\ wrap(a - b) \in WordValues
    BY <2>1, WrapWord
  <2> QED
    BY <1>1, <2>2 DEF alu
<1>2. CASE f \in {"and", "or", "xor", "nor"}
  <2>1. PICK S \in SUBSET (0 .. WordBits - 1) : alu(f, a, b) = word_of(S)
    BY <1>2 DEF alu
  <2> QED
    BY <2>1 DEF Numbers
<1>3. CASE f \in {"slt", "sltu"}
  <2>1. alu(f, a, b) \in {0, 1}
    BY <1>3 DEF alu
  <2>2. 1 \in WordValues
    BY SmallWord
  <2> QED
    BY <2>1, <2>2, WordIsNat
<1>4. CASE f \in {"sll", "srl", "sra"} /\ b \in 0 .. WordBits
  <2>1. /\ wrap(a * 2 ^ b) \in WordValues /\ a \div 2 ^ b \in WordValues
        /\ wrap(signed(a) \div 2 ^ b) \in WordValues
    BY <1>4, Shifted, WrapWord
  <2> QED
    BY <1>4, <2>1 DEF alu
<1> QED
  BY <1>1, <1>2, <1>3, <1>4 DEF Sums

LEMMA Forms ==
  ASSUME NEW op \in DOMAIN ShiftForms \cup DOMAIN RegisterForms \cup DOMAIN ImmediateForms
  PROVE  \E f : /\ \/ f.f \in Sums /\ f.a \in Values /\ f.b \in Values
                   \/ f.f \in {"sll", "srl", "sra"} /\ f.a \in Values /\ f.b \in Shifts
                /\ f.d \in {"rt", "rd"}
                /\ \A n, i : i.op = op => exec(n, i) = op_alu(n, i, f)
<1>1. CASE op \in DOMAIN ShiftForms
  <2> DEFINE f == ShiftForms[op]
  <2>1. f.f \in {"sll", "srl", "sra"} /\ f.a \in Values /\ f.b \in Shifts /\ f.d \in {"rt", "rd"}
    BY <1>1, FormDomains DEF ShiftForms, Form, Values, Shifts
  <2>2. \A n, i : i.op = op => exec(n, i) = op_alu(n, i, f)
    BY <1>1, FormDomains DEF exec
  <2> HIDE DEF f
  <2> QED
    BY <2>1, <2>2
<1>2. CASE op \in DOMAIN RegisterForms
  <2> DEFINE f == RegisterForms[op]
  <2>1. f.f \in Sums /\ f.a \in Values /\ f.b \in Values /\ f.d \in {"rt", "rd"}
    BY <1>2, FormDomains DEF RegisterForms, Form, Values, Sums
  <2>2. \A n, i : i.op = op => exec(n, i) = op_alu(n, i, f)
    BY <1>2, FormDomains DEF exec
  <2> HIDE DEF f
  <2> QED
    BY <2>1, <2>2
<1>3. CASE op \in DOMAIN ImmediateForms
  <2> DEFINE f == ImmediateForms[op]
  <2>1. /\ \/ f.f \in Sums /\ f.a \in Values /\ f.b \in Values
           \/ f.f \in {"sll", "srl", "sra"} /\ f.a \in Values /\ f.b \in Shifts
        /\ f.d \in {"rt", "rd"}
    BY <1>3, FormDomains DEF ImmediateForms, Form, Values, Sums, Shifts
  <2>2. \A n, i : i.op = op => exec(n, i) = op_alu(n, i, f)
    BY <1>3, FormDomains DEF exec
  <2> HIDE DEF f
  <2> QED
    BY <2>1, <2>2
<1> QED
  BY <1>1, <1>2, <1>3

LEMMA AluQuiet ==
  ASSUME Numbers, Registers, NEW n \in Machine, NEW i, Fields_(i), i.rd \in Regs,
         i.op \in DOMAIN ShiftForms \cup DOMAIN RegisterForms \cup DOMAIN ImmediateForms
  PROVE  Quiet(n, exec(n, i))
<1>1. PICK f : /\ \/ f.f \in Sums /\ f.a \in Values /\ f.b \in Values
                  \/ f.f \in {"sll", "srl", "sra"} /\ f.a \in Values /\ f.b \in Shifts
               /\ f.d \in {"rt", "rd"} /\ exec(n, i) = op_alu(n, i, f)
  BY Forms
<1> DEFINE a == operand(n, i, f.a)
           b == operand(n, i, f.b)
           v == alu(f.f, a, b)
           s == fetch_load_slot(n)
<1>2. a \in WordValues /\ (f.b \in Values => b \in WordValues) /\ (f.b \in Shifts => b \in 0 .. WordBits)
  BY <1>1, OperandWord
<1> HIDE DEF a, b
<1>3. v \in WordValues
  BY <1>1, <1>2, AluWord
<1>4. i[f.d] \in Regs
  BY <1>1 DEF Fields_
<1>5. exec(n, i) \in {throw_exception(s, "ArithmeticOverflow"), store_reg(s, i[f.d], v)}
  BY <1>1 DEF op_alu, a, b
<1>6. Quiet(n, s)
  BY SlotQuiet
<1> HIDE DEF s, v
<1>7. s \in Machine
  BY <1>6 DEF Quiet
<1>8. Quiet(s, throw_exception(s, "ArithmeticOverflow"))
  BY <1>7, ThrowQuiet DEF Codes
<1>9. Quiet(s, store_reg(s, i[f.d], v))
  BY <1>3, <1>4, <1>7, StoreRegQuiet
<1> QED
  BY <1>5, <1>6, <1>8, <1>9, QuietTwice

-----------------------------------------------------------------------------
\* The regions: each is K bytes, a whole number of caches.
K == Word \div 8
Layout ==
  /\ K \in Nat \ {0} /\ Word = 8 * K /\ Word \div 2 = 4 * K
  /\ K % 4 = 0
  /\ RamSize \in Nat /\ ScratchSize \in Nat /\ RamSize % 4 = 0 /\ ScratchSize % 4 = 0
  /\ RamSize + ScratchSize <= K

LEMMA LayoutHolds == Layout
<1>1. Numbers
  BY NumbersHold
<1>2. K \in Nat \ {0} /\ Word = 8 * K
  BY <1>1, BusAssumption DEF Numbers, K
<1>3. Word \div 2 = 4 * K
  BY <1>2
<1> QED
  BY <1>2, <1>3, BusAssumption DEF Layout, K

LEMMA Remainder ==
  ASSUME NEW a \in Nat, NEW k \in Nat \ {0}, NEW j \in Nat, j * k <= a, a < j * k + k
  PROVE  a % k = a - j * k /\ a \div k = j
OBVIOUS

LEMMA Regioned ==
  ASSUME Layout, NEW a \in Nat
  PROVE  /\ regioned_addr(a) \in Nat
         /\ regioned_addr(a) \in {a, a - 4 * K, a - 5 * K}
         /\ regioned_addr(a) = CASE Region(a) = 4 -> a - 4 * K [] Region(a) = 5 -> a - 5 * K [] OTHER -> a
         /\ Region(a) = 4 => regioned_addr(a) = a - 4 * K
         /\ a < 4 * K => regioned_addr(a) = a
<1>1. K \in Nat \ {0} /\ Region(a) = a \div K /\ Word \div 2 = 4 * K
  BY DEF Layout, Region, K
<1>2. Region(a) \in Nat /\ Region(a) * K <= a /\ a < Region(a) * K + K
  BY <1>1
<1>3. CASE Region(a) = 4
  <2>1. 4 * K <= a /\ a < 5 * K
    BY <1>1, <1>2, <1>3
  <2>2. a % (4 * K) = a - 4 * K
    BY <1>1, <2>1
  <2> QED
    BY <1>1, <1>3, <2>1, <2>2 DEF regioned_addr
<1>4. CASE Region(a) = 5
  <2>1. 5 * K <= a /\ a < 6 * K
    BY <1>1, <1>2, <1>4
  <2>2. a % K = a - 5 * K
    BY <1>1, <2>1
  <2>3. regioned_addr(a) = a % K
    BY <1>4 DEF regioned_addr, K
  <2> QED
    BY <1>1, <1>4, <2>1, <2>2, <2>3
<1>5. CASE Region(a) \notin {4, 5}
  BY <1>5 DEF regioned_addr
<1> QED
  BY <1>3, <1>4, <1>5

LEMMA RegionedAlign ==
  ASSUME Layout, NEW a \in Nat, NEW w \in {1, 2, 4} PROVE regioned_addr(a) % w = a % w
<1>1. regioned_addr(a) \in {a, a - 4 * K, a - 5 * K}
  BY Regioned
<1>2. PICK q \in Nat : K = 4 * q
  BY DEF Layout
<1>3. (a - 16 * q) % w = a % w /\ (a - 20 * q) % w = a % w
  BY <1>2
<1> QED
  BY <1>1, <1>2, <1>3

\* An access that is aligned is to bytes that are there.
LEMMA Bytes ==
  ASSUME Layout, NEW w \in {1, 2, 4}, NEW p \in Mem, p % w = 0, NEW k \in 0 .. 3, k < w PROVE p + k \in Mem
<1>1. PICK r \in Nat, s \in Nat : RamSize = 4 * r /\ ScratchSize = 4 * s
  BY DEF Layout
<1>2. p \in Nat /\ p < 4 * r + 4 * s
  BY <1>1 DEF Mem, Ram, ScratchPad, Layout
<1>3. p + k < 4 * r + 4 * s
  BY <1>1, <1>2
<1> QED
  BY <1>1, <1>2, <1>3 DEF Mem, Ram, ScratchPad

LEMMA LoadedWord ==
  ASSUME Layout, Numbers, NEW mem \in [Mem -> ByteValues], NEW w \in {1, 2, 4}, NEW p \in Mem, p % w = 0
  PROVE  load_unchecked(mem, w, p) \in 0 .. Byte ^ w - 1
<1> DEFINE b(k) == IF k < w THEN mem[p + k] ELSE 0
<1>1. \A k \in 0 .. 3 : b(k) \in ByteValues
  <2>1. 0 \in ByteValues
    BY DEF Numbers, ByteValues
  <2> QED
    BY <2>1, Bytes
<1>2. load_unchecked(mem, w, p) = Made(b(0), b(1), b(2), b(3))
  BY DEF load_unchecked, lanes, Made
<1>3. Byte ^ 1 = Byte /\ Byte ^ 2 = Byte * Byte /\ Byte ^ 4 = Word /\ Byte \in Nat \ {0} /\ Half \in Nat
  BY PowersAssumption DEF Half, Numbers
<1>4. w < 4 => b(2) = 0 /\ b(3) = 0
  OBVIOUS
<1>5. w < 2 => b(1) = 0
  OBVIOUS
<1> HIDE DEF b
<1>6. b(0) \in ByteValues /\ b(1) \in ByteValues /\ b(2) \in ByteValues /\ b(3) \in ByteValues
  BY <1>1
<1>7. CASE w = 4
  BY <1>2, <1>3, <1>6, <1>7, MadeOf DEF WordValues
<1>8. CASE w = 2
  <2>1. Made(b(0), b(1), 0, 0) = b(0) + Byte * b(1)
    BY <1>3, <1>6 DEF Made, ByteValues
  <2>2. b(0) + Byte * b(1) \in 0 .. Byte * Byte - 1
    BY <1>3, <1>6, Below DEF ByteValues
  <2> QED
    BY <1>2, <1>3, <1>4, <1>8, <2>1, <2>2
<1>9. CASE w = 1
  <2>1. Made(b(0), 0, 0, 0) = b(0)
    BY <1>3, <1>6 DEF Made, ByteValues
  <2> QED
    BY <1>2, <1>3, <1>4, <1>5, <1>6, <1>9, <2>1 DEF ByteValues
<1> QED
  BY <1>7, <1>8, <1>9

\* What a value of one, two or four bytes is.
LEMMA Wide ==
  ASSUME Numbers, NEW w \in {1, 2, 4}
  PROVE  /\ Byte ^ w \in Nat \ {0} /\ 0 .. Byte ^ w - 1 \subseteq WordValues
         /\ w = 1 => 0 .. Byte ^ w - 1 = ByteValues
         /\ w = 2 => Byte ^ w = Half
<1>1. Byte ^ 1 = Byte /\ Byte ^ 2 = Half /\ Byte ^ 4 = Word
  BY PowersAssumption
<1>2. Byte \in Nat \ {0} /\ Half \in Nat \ {0} /\ Word \in Nat \ {0} /\ Byte <= Half /\ Half <= Word
  BY DEF Numbers
<1> QED
  BY <1>1, <1>2 DEF WordValues, ByteValues

LEMMA LoadWord ==
  ASSUME Layout, Numbers, NEW n \in Machine, NEW w \in {1, 2, 4}, NEW a \in Nat
  PROVE  LET l == load(n, w, a)
         IN  l.exc \in Codes /\ (l.exc = "none" => l.val \in 0 .. Byte ^ w - 1 /\ l.val \in WordValues)
<1> DEFINE phys == regioned_addr(a)
           val == bus_load(n.mem, n.ctrl, w, phys)
           top == Byte ^ w - 1
<1>1. load(n, w, a) = CASE ~is_aligned_to(w, a) -> [exc |-> "AddressLoadError"]
        [] is_aligned_to(w, a) /\ phys \in ScratchPad ->
             [exc |-> "none", val |-> load_unchecked(n.mem, w, phys)]
        [] OTHER -> IF val = Unmapped THEN [exc |-> "BusDataError"] ELSE [exc |-> "none", val |-> val]
  BY DEF load
<1>2. n.mem \in [Mem -> ByteValues] /\ n.ctrl \in Nat
  BY WordIsNat DEF Machine
<1>3. is_aligned_to(w, a) /\ phys \in Mem => load_unchecked(n.mem, w, phys) \in 0 .. top
  BY <1>2, RegionedAlign, LoadedWord DEF is_aligned_to
<1>4. n.ctrl % Byte ^ w \in 0 .. top
  <2> DEFINE b == Byte ^ w
  <2>1. b \in Nat \ {0}
    BY DEF Numbers
  <2> HIDE DEF b
  <2>2. n.ctrl % b \in 0 .. b - 1
    BY <1>2, <2>1
  <2> QED
    BY <2>2 DEF b
<1> HIDE DEF top
<1>5. is_aligned_to(w, a) => val = Unmapped \/ val \in 0 .. top
  BY <1>3, <1>4 DEF bus_load, Mem
<1>6. 0 .. top \subseteq WordValues
  BY Wide DEF top
<1> HIDE DEF phys, val
<1> QED
  BY <1>1, <1>3, <1>5, <1>6 DEF Codes, Mem, top

-----------------------------------------------------------------------------
\* Every other instruction.
LEMMA HiLoQuiet ==
  ASSUME Numbers, Registers, NEW n \in Machine, NEW h \in WordValues, NEW l \in WordValues
  PROVE  Quiet(n, set_hi_lo(n, h, l))
<1> DEFINE s == fetch_load_slot(n)
<1>1. Quiet(n, s)
  BY SlotQuiet
<1>2. set_hi_lo(n, h, l) = [s EXCEPT !.hi = h, !.lo = l]
  BY DEF set_hi_lo
<1> HIDE DEF s
<1> QED
  BY <1>1, <1>2 DEF Quiet, Machine

LEMMA SlotStoreQuiet ==
  ASSUME Numbers, Registers, NEW n \in Machine, NEW r \in Regs, NEW v \in WordValues
  PROVE  Quiet(n, store_reg(fetch_load_slot(n), r, v))
<1>1. Quiet(n, fetch_load_slot(n))
  BY SlotQuiet
<1>2. fetch_load_slot(n) \in Machine
  BY <1>1 DEF Quiet
<1>3. Quiet(fetch_load_slot(n), store_reg(fetch_load_slot(n), r, v))
  BY <1>2, StoreRegQuiet
<1> QED
  BY <1>1, <1>3, QuietTwice

LEMMA HiLoOps ==
  ASSUME Numbers, Registers, NEW n \in Machine, NEW i, Fields_(i), i.rd \in Regs,
         i.op \in {"mfhi", "mthi", "mflo", "mtlo", "mult", "multu", "div", "divu"}
  PROVE  Quiet(n, exec(n, i))
<1> DEFINE x == n.regs[i.rs]
           y == n.regs[i.rt]
<1>1. x \in WordValues /\ y \in WordValues /\ n.hi \in WordValues /\ n.lo \in WordValues /\ Word \in Nat \ {0}
  BY DEF Machine, Fields_, Numbers
<1>2. CASE i.op \in {"mfhi", "mthi", "mflo", "mtlo"}
  <2>1. exec(n, i) = op_move_hi_lo(n, i)
    BY <1>2, FormDomains DEF exec
  <2>2. exec(n, i) \in {store_reg(fetch_load_slot(n), i.rd, n.hi), store_reg(fetch_load_slot(n), i.rd, n.lo),
                          set_hi_lo(n, x, n.lo), set_hi_lo(n, n.hi, x)}
    BY <1>2, <2>1 DEF op_move_hi_lo
  <2> QED
    BY <1>1, <2>2, SlotStoreQuiet, HiLoQuiet
<1>3. CASE i.op \in {"mult", "multu"}
  <2> DEFINE u == x * y
             s == signed(x) * signed(y)
             v == s % (Word * Word)
  <2>1. exec(n, i) = IF i.op = "mult" THEN op_mult(n, i) ELSE op_multu(n, i)
    BY <1>3, FormDomains DEF exec
  <2>2. exec(n, i) \in {set_hi_lo(n, v \div Word, v % Word), set_hi_lo(n, u \div Word, u % Word)}
    BY <1>3, <2>1 DEF op_mult, op_multu
  <2>3. u \in Nat /\ u < Word * Word
    BY <1>1, ProductBelow DEF WordValues
  <2>4. v \in Nat /\ v < Word * Word
    <3>1. signed(x) \in Int /\ signed(y) \in Int
      BY <1>1, Shifted
    <3>2. s \in Int
      BY <3>1
    <3>3. Word * Word \in Nat \ {0}
      BY <1>1
    <3> HIDE DEF s
    <3> QED
      BY <3>2, <3>3
  <2> HIDE DEF u, v
  <2>5. /\ u \div Word \in WordValues /\ u % Word \in WordValues
        /\ v \div Word \in WordValues /\ v % Word \in WordValues
    <3>1. u \div Word \in 0 .. Word - 1 /\ v \div Word \in 0 .. Word - 1
      BY <1>1, <2>3, <2>4, DivBelow
    <3>2. u % Word \in 0 .. Word - 1 /\ v % Word \in 0 .. Word - 1
      BY <1>1, <2>3, <2>4
    <3> QED
      BY <3>1, <3>2 DEF WordValues
  <2> QED
    BY <2>2, <2>5, HiLoQuiet
<1>4. CASE i.op = "div"
  <2> DEFINE a == signed(x)
             b == signed(y)
             one == IF a < 0 THEN 1 ELSE Word - 1
             q == quotient(a, b)
  <2>1. exec(n, i) = op_div(n, i)
    BY <1>4, FormDomains DEF exec
  <2>2. exec(n, i) \in {set_hi_lo(n, wrap(a), one), set_hi_lo(n, 0, Word \div 2)}
        \/ (b # 0 /\ exec(n, i) = set_hi_lo(n, wrap(a - b * q), wrap(q)))
    BY <2>1 DEF op_div
  <2>3. a \in Int /\ b \in Int
    BY <1>1, Shifted
  <2>4. b # 0 => q \in Int
    <3> DEFINE a1 == IF a < 0 THEN -a ELSE a
               b1 == IF b < 0 THEN -b ELSE b
    <3> HIDE DEF a, b
    <3>1. b # 0 => a1 \in Nat /\ b1 \in Nat \ {0}
      BY <2>3
    <3>2. q \in {a1 \div b1, -(a1 \div b1)}
      BY DEF quotient
    <3> HIDE DEF a1, b1, q
    <3>3. b # 0 => a1 \div b1 \in Int
      BY <3>1
    <3> QED
      BY <3>2, <3>3
  <2> HIDE DEF a, b, q
  <2>5. wrap(a) \in WordValues /\ one \in WordValues /\ Word \div 2 \in WordValues /\ 0 \in WordValues
    <3>1. 1 \in WordValues /\ 0 \in WordValues
      BY SmallWord
    <3>2. Word - 1 \in WordValues /\ Word \div 2 \in WordValues
      BY <1>1 DEF WordValues
    <3> QED
      BY <2>3, <3>1, <3>2, WrapWord
  <2>6. b # 0 => wrap(a - b * q) \in WordValues /\ wrap(q) \in WordValues
    <3>1. b # 0 => a - b * q \in Int /\ q \in Int
      BY <2>3, <2>4
    <3> QED
      BY <3>1, WrapWord
  <2> HIDE DEF one
  <2> QED
    BY <2>2, <2>5, <2>6, HiLoQuiet
<1>5. CASE i.op = "divu"
  <2>1. exec(n, i) = op_divu(n, i)
    BY <1>5, FormDomains DEF exec
  <2>2. exec(n, i) = IF y = 0 THEN set_hi_lo(n, x, Word - 1) ELSE set_hi_lo(n, x % y, x \div y)
    BY <2>1 DEF op_divu
  <2>3. Word - 1 \in WordValues /\ (y # 0 => x % y \in WordValues /\ x \div y \in WordValues)
    <3> HIDE DEF x, y
    <3>1. y # 0 => x \div y \in 0 .. x /\ x % y \in 0 .. y - 1
      BY <1>1, DivLess DEF WordValues
    <3> QED
      BY <1>1, <3>1 DEF WordValues
  <2> HIDE DEF x, y
  <2> QED
    BY <1>1, <2>2, <2>3, HiLoQuiet
<1> QED
  BY <1>2, <1>3, <1>4, <1>5

LEMMA BranchOps ==
  ASSUME Numbers, Registers, NEW n \in Machine, NEW i, Fields_(i),
         i.op \in {"beq", "bne", "blez", "bgtz", "bltz", "bgez", "bltzal", "bgezal"}
  PROVE  Quiet(n, exec(n, i))
<1> DEFINE s == fetch_load_slot(n)
           k == store_reg(s, RA, s.next_pc)
<1>1. Quiet(n, s) /\ s \in Machine
  BY SlotQuiet DEF Quiet
<1> HIDE DEF s
<1>2. RA \in Regs /\ s.next_pc \in WordValues
  BY <1>1 DEF Registers, Machine
<1>3. Quiet(s, k)
  BY <1>1, <1>2, StoreRegQuiet
<1>4. Quiet(n, k) /\ k \in Machine
  BY <1>1, <1>3, QuietTwice DEF Quiet
<1> HIDE DEF k
<1>5. exec(n, i) \in {s, k, branch(s, signed_imm(i)), branch(k, signed_imm(i))}
  <2>1. CASE i.op \in {"beq", "bne", "blez", "bgtz"}
    <3>1. exec(n, i) = op_branch(n, i)
      BY <2>1, FormDomains DEF exec
    <3> QED
      BY <3>1 DEF op_branch, s
  <2>2. CASE i.op \in {"bltz", "bgez", "bltzal", "bgezal"}
    <3>1. exec(n, i) = op_bcondz(n, i)
      BY <2>2, FormDomains DEF exec
    <3> QED
      BY <3>1 DEF op_bcondz, s, k
  <2> QED
    BY <2>1, <2>2
<1>6. ASSUME NEW e \in Machine PROVE Quiet(e, branch(e, signed_imm(i)))
  <2>1. signed_imm(i) \in WordValues /\ e.pc \in WordValues
    BY ImmWord DEF Machine
  <2>2. wrap(e.pc + signed_imm(i) * 4) \in WordValues
    BY <2>1, WrapWord DEF WordValues
  <2> QED
    BY <2>2, JumpQuiet DEF branch
<1> QED
  BY <1>1, <1>4, <1>5, <1>6, QuietTwice

LEMMA JumpOps ==
  ASSUME Numbers, Layout, Registers, NEW n \in Machine, NEW i, Fields_(i), i.rd \in Regs,
         i.op \in {"j", "jal", "jr", "jalr"}
  PROVE  Quiet(n, exec(n, i))
<1> DEFINE a == Region(n.pc) * K + ((i.imm * 4) % K)
           b == n.regs[i.rs]
           to(x) == fetch_load_slot(jump(n, x))
<1>1. a \in WordValues /\ b \in WordValues /\ n.next_pc \in WordValues /\ RA \in Regs
  <2>1. /\ n.pc \in Nat /\ n.pc < 8 * K /\ i.imm \in Nat /\ n.regs[i.rs] \in WordValues
        /\ n.next_pc \in WordValues /\ K \in Nat \ {0}
    BY DEF Machine, Fields_, Layout, WordValues
  <2> DEFINE q == Region(n.pc)
             x == (i.imm * 4) % K
  <2>2. q \in 0 .. 7
    <3>1. q = n.pc \div K
      BY DEF Region, K
    <3>2. n.pc < K * 8
      BY <2>1
    <3> QED
      BY <2>1, <3>1, <3>2, DivBelow
  <2>3. x \in 0 .. K - 1
    BY <2>1
  <2> HIDE DEF q, x
  <2>4. x + K * q \in 0 .. K * 8 - 1
    BY <2>1, <2>2, <2>3, Below
  <2>5. q * K + x \in 0 .. 8 * K - 1
    BY <2>1, <2>2, <2>3, <2>4
  <2> QED
    BY <2>1, <2>5 DEF Registers, Layout, WordValues, q, x
<1>2. exec(n, i) \in {to(a), to(b), store_reg(to(a), RA, n.next_pc), store_reg(to(b), i.rd, n.next_pc)}
  <2>1. exec(n, i) = CASE i.op = "j" -> op_j(n, i) [] i.op = "jal" -> op_jal(n, i)
                         [] i.op = "jr" -> op_jr(n, i) [] i.op = "jalr" -> op_jalr(n, i)
    BY FormDomains DEF exec
  <2>2. op_j(n, i) = to(a) /\ op_jr(n, i) = to(b)
    BY DEF op_j, op_jr, K
  <2> HIDE DEF a, b, to
  <2> QED
    BY <2>1, <2>2 DEF op_jal, op_jalr
<1> HIDE DEF a, b
<1>3. ASSUME NEW x \in WordValues PROVE Quiet(n, to(x)) /\ to(x) \in Machine
  <2>1. Quiet(n, jump(n, x)) /\ jump(n, x) \in Machine
    BY <1>3, JumpQuiet DEF Quiet
  <2>2. Quiet(jump(n, x), to(x)) /\ to(x) \in Machine
    BY <2>1, SlotQuiet DEF Quiet
  <2> QED
    BY <2>1, <2>2, QuietTwice
<1> HIDE DEF to
<1>4. ASSUME NEW x \in WordValues, NEW r \in Regs PROVE Quiet(n, store_reg(to(x), r, n.next_pc))
  <2>1. Quiet(to(x), store_reg(to(x), r, n.next_pc))
    BY <1>1, <1>3, StoreRegQuiet
  <2> QED
    BY <1>3, <2>1, QuietTwice
<1> QED
  BY <1>1, <1>2, <1>3, <1>4

LEMMA LoadOps ==
  ASSUME Numbers, Layout, Registers, NEW n \in Machine, NEW i, Fields_(i),
         i.op \in {"lb", "lbu", "lh", "lhu", "lw", "lwl", "lwr"}
  PROVE  Quiet(n, exec(n, i))
<1> DEFINE addr == effective_addr(n, i)
           r == addr % 4
           a == addr - r
           old == old_value(n, i.rt)
<1>1. /\ addr \in WordValues /\ a \in WordValues /\ addr \in Nat /\ a \in Nat
      /\ r \in 0 .. 3 /\ 3 - r \in 0 .. 3 /\ 3 - r \in 0 .. 4 /\ 4 - r \in 0 .. 4 /\ r \in 0 .. 4
  <2>1. addr \in WordValues /\ addr \in Nat
    BY AddrWord
  <2> HIDE DEF addr
  <2> QED
    BY <2>1 DEF WordValues, Numbers
<1>2. old \in WordValues /\ old \in Nat
  BY WordIsNat DEF Machine, Fields_, old_value
<1>3. i.rt \in Regs
  BY DEF Fields_
<1>4. CASE i.op \in {"lb", "lbu", "lh", "lhu", "lw"}
  <2> DEFINE w == Width(i.op)
             l == load(n, w, addr)
  <2>1. exec(n, i) = op_load(n, i) /\ w \in {1, 2, 4}
    BY <1>4, FormDomains DEF exec, Width
  <2>2. exec(n, i) = IF l.exc = "none" THEN pipeline_load(n, i.rt, extend(i.op, l.val)) ELSE load_failed(n, addr, l.exc)
    BY <2>1 DEF op_load
  <2> HIDE DEF w, addr
  <2>3. l.exc \in Codes /\ (l.exc = "none" => l.val \in 0 .. Byte ^ w - 1 /\ l.val \in WordValues)
    BY <1>1, <2>1, LoadWord
  <2>4. (i.op = "lb" => w = 1) /\ (i.op = "lh" => w = 2)
    BY DEF Width, w
  <2> HIDE DEF l
  <2>5. l.exc = "none" => extend(i.op, l.val) \in WordValues
    <3>1. i.op = "lb" /\ l.exc = "none" => l.val \in ByteValues
      BY <2>3, <2>4, Wide
    <3>2. i.op = "lh" /\ l.exc = "none" => l.val \in 0 .. Half - 1
      BY <2>3, <2>4, Wide
    <3> QED
      BY <2>3, <3>1, <3>2, Extended DEF extend
  <2> QED
    BY <1>1, <1>3, <2>2, <2>3, <2>5, PipelineLoadQuiet, FailedQuiet
<1>5. CASE i.op \in {"lwl", "lwr"}
  <2> DEFINE l == load(n, 4, a)
             v == IF i.op = "lwl" THEN join(old, left(l.val, 3 - r), 3 - r) ELSE join(right(l.val, r), old, 4 - r)
  <2>1. exec(n, i) = IF i.op = "lwl" THEN op_lwl(n, i) ELSE op_lwr(n, i)
    BY <1>5, FormDomains DEF exec
  <2>2. exec(n, i) = IF l.exc = "none" THEN pipeline_load(n, i.rt, v) ELSE load_failed(n, a, l.exc)
    BY <1>5, <2>1 DEF op_lwl, op_lwr
  <2> HIDE DEF a, addr, r, old
  <2>3. l.exc \in Codes /\ (l.exc = "none" => l.val \in WordValues /\ l.val \in Nat)
    BY <1>1, LoadWord, WordIsNat
  <2> HIDE DEF l
  <2>4. l.exc = "none" => v \in WordValues
    <3>1. l.exc = "none" => left(l.val, 3 - r) \in WordValues /\ right(l.val, r) \in Nat
      <4> HAVE l.exc = "none"
      <4>1. l.val \in Nat /\ 3 \in 0 .. 3 /\ 3 - r <= 3
        BY <1>1, <2>3
      <4>2. left(l.val, 3 - r) \in WordValues
        BY <1>1, <4>1, LaneLeft
      <4>3. right(l.val, r) \in Nat
        BY <1>1, <4>1, Halves
      <4> QED
        BY <4>2, <4>3
    <3>2. l.exc = "none" => join(old, left(l.val, 3 - r), 3 - r) \in WordValues
      BY <1>1, <1>2, <3>1, JoinWord
    <3>3. l.exc = "none" => join(right(l.val, r), old, 4 - r) \in WordValues
      BY <1>1, <1>2, <3>1, JoinWord
    <3> QED
      BY <3>2, <3>3
  <2> HIDE DEF v
  <2> QED
    BY <1>1, <1>3, <2>2, <2>3, <2>4, PipelineLoadQuiet, FailedQuiet
<1> QED
  BY <1>4, <1>5

LEMMA CopQuiet ==
  ASSUME NEW n \in Machine, NEW v \in WordValues, NEW b \in BOOLEAN
  PROVE  /\ Quiet(n, [n EXCEPT !.gte = v]) /\ Quiet(n, [n EXCEPT !.cop0.isolated = b])
         /\ Quiet(n, [n EXCEPT !.cop0.bad = v]) /\ Quiet(n, [n EXCEPT !.cop0.epc = v])
<1>1. Quiet(n, [n EXCEPT !.gte = v])
  BY DEF Quiet, Machine
<1>2. ASSUME NEW c \in [isolated : BOOLEAN, bad : WordValues, code : Codes, epc : WordValues] PROVE Quiet(n, [n EXCEPT !.cop0 = c])
  BY DEF Quiet, Machine
<1>3. n.cop0 \in [isolated : BOOLEAN, bad : WordValues, code : Codes, epc : WordValues]
  BY DEF Machine
<1>4. /\ [n.cop0 EXCEPT !.isolated = b] \in [isolated : BOOLEAN, bad : WordValues, code : Codes, epc : WordValues]
      /\ [n.cop0 EXCEPT !.bad = v] \in [isolated : BOOLEAN, bad : WordValues, code : Codes, epc : WordValues]
      /\ [n.cop0 EXCEPT !.epc = v] \in [isolated : BOOLEAN, bad : WordValues, code : Codes, epc : WordValues]
  BY <1>3
<1>5. /\ [n EXCEPT !.cop0.isolated = b] = [n EXCEPT !.cop0 = [n.cop0 EXCEPT !.isolated = b]]
      /\ [n EXCEPT !.cop0.bad = v] = [n EXCEPT !.cop0 = [n.cop0 EXCEPT !.bad = v]]
      /\ [n EXCEPT !.cop0.epc = v] = [n EXCEPT !.cop0 = [n.cop0 EXCEPT !.epc = v]]
  BY DEF Machine
<1> QED
  BY <1>1, <1>2, <1>4, <1>5

LEMMA CopOps ==
  ASSUME Numbers, Layout, Registers, NEW n \in Machine, NEW i, Fields_(i), i.rd \in Nat,
         i.op \in {"mfc0", "mtc0", "rfe", "mfc2", "mtc2", "gte", "lwc2"}
  PROVE  Quiet(n, exec(n, i))
<1> DEFINE s == fetch_load_slot(n)
<1>1. Quiet(n, s) /\ s \in Machine
  BY SlotQuiet DEF Quiet
<1>2. i.rt \in Regs /\ i.imm \in WordValues /\ n.regs[i.rt] \in WordValues /\ n.gte \in WordValues
  BY DEF Fields_, Machine
<1> HIDE DEF s
<1>3. \A v \in WordValues : /\ Quiet(n, [s EXCEPT !.gte = v]) /\ Quiet(n, [s EXCEPT !.cop0.bad = v])
                            /\ Quiet(n, [s EXCEPT !.cop0.epc = v])
  BY <1>1, CopQuiet, QuietTwice
<1>4. ASSUME NEW b \in BOOLEAN PROVE Quiet(n, [s EXCEPT !.cop0.isolated = b])
  <2>1. n.gte \in WordValues
    BY <1>2
  <2>2. Quiet(s, [s EXCEPT !.cop0.isolated = b])
    BY <1>1, <2>1, CopQuiet
  <2> QED
    BY <1>1, <2>2, QuietTwice
<1>5. CASE i.op = "mfc0"
  <2>1. exec(n, i) = op_cop0(n, i)
    BY <1>5, FormDomains DEF exec
  <2>2. i.rd > 15 \/ i.rd <= 15
    OBVIOUS
  <2>3. exec(n, i) \in {throw_exception(n, "ReservedInstruction"), pipeline_load(n, i.rt, cop0_read(n, i.rd))}
    BY <1>5, <2>1, <2>2 DEF op_cop0
  <2>4. cop0_read(n, i.rd) \in WordValues
    BY WordIsNat DEF cop0_read, Machine
  <2>5. Quiet(n, throw_exception(n, "ReservedInstruction"))
    BY ThrowQuiet DEF Codes
  <2> QED
    BY <1>2, <2>3, <2>4, <2>5, PipelineLoadQuiet
<1>6. CASE i.op \in {"mtc0", "rfe"}
  <2> DEFINE v == s.regs[i.rt]
             b == bit(v, 4) = 1
  <2>1. exec(n, i) = op_cop0(n, i)
    BY <1>6, FormDomains DEF exec
  <2>2. exec(n, i) \in {s, [s EXCEPT !.cop0.isolated = b], [s EXCEPT !.cop0.bad = v], [s EXCEPT !.cop0.epc = v]}
    BY <1>6, <2>1 DEF op_cop0, s
  <2>3. v \in WordValues /\ b \in BOOLEAN
    BY <1>1, <1>2 DEF Machine
  <2> HIDE DEF v, b
  <2> QED
    BY <1>1, <1>3, <1>4, <2>2, <2>3
<1>7. CASE i.op \in {"mfc2", "mtc2", "gte"}
  <2>1. exec(n, i) = op_cop2(n, i)
    BY <1>7, FormDomains DEF exec
  <2>2. exec(n, i) \in {pipeline_load(n, i.rt, n.gte), [s EXCEPT !.gte = n.regs[i.rt]], [s EXCEPT !.gte = i.imm]}
    BY <1>7, <2>1 DEF op_cop2, s
  <2> QED
    BY <1>2, <1>3, <2>2, PipelineLoadQuiet
<1>8. CASE i.op = "lwc2"
  <2> DEFINE a == effective_addr(n, i)
             l == load(n, 4, a)
  <2>1. exec(n, i) = op_lwc2(n, i)
    BY <1>8, FormDomains DEF exec
  <2>2. exec(n, i) = IF l.exc = "none" THEN [s EXCEPT !.gte = l.val] ELSE load_failed(s, a, l.exc)
    BY <2>1 DEF op_lwc2, s
  <2>3. a \in WordValues /\ a \in Nat
    BY AddrWord
  <2> HIDE DEF a
  <2>4. l.exc \in Codes /\ (l.exc = "none" => l.val \in WordValues)
    BY <2>3, LoadWord
  <2> HIDE DEF l
  <2>5. Quiet(n, load_failed(s, a, l.exc))
    BY <1>1, <2>3, <2>4, FailedQuiet, QuietTwice
  <2> QED
    BY <1>3, <2>2, <2>4, <2>5
<1> QED
  BY <1>5, <1>6, <1>7, <1>8

LEMMA TrapOps ==
  ASSUME Numbers, Registers, NEW n \in Machine, NEW i, i.op \in {"syscall", "break", "cop1", "illegal"}
  PROVE  Quiet(n, exec(n, i))
<1> DEFINE s == fetch_load_slot(n)
<1>1. Quiet(n, s) /\ s \in Machine
  BY SlotQuiet DEF Quiet
<1> HIDE DEF s
<1>2. \E c \in Codes : exec(n, i) \in {throw_exception(s, c), throw_exception(n, c)}
  BY FormDomains DEF exec, op_trap, op_cop1, op_illegal, Codes, s
<1> QED
  BY <1>1, <1>2, ThrowQuiet, QuietTwice

WordStores == {"sb", "sh", "sw", "swc2"}

\* Whatever is not a store leaves memory, cache control and cache as they were.
LEMMA NoStore ==
  ASSUME Numbers, Layout, Registers, NEW n \in Machine, NEW i, Known(i), Fields_(i),
         i.op \notin WordStores \cup {"swl", "swr"}
  PROVE  Quiet(n, exec(n, i))
<1>1. i.rd \in Nat /\ (i.op \notin {"mfc0", "mtc0"} => i.rd \in Regs)
  BY DEF Known, Registers
<1>2. CASE i.op \in DOMAIN ShiftForms \cup DOMAIN RegisterForms \cup DOMAIN ImmediateForms
  <2>1. i.rd \in Regs
    BY <1>1, <1>2, FormDomains
  <2> QED
    BY <1>2, <2>1, AluQuiet
<1>3. CASE i.op \in {"mfhi", "mthi", "mflo", "mtlo", "mult", "multu", "div", "divu"}
  BY <1>1, <1>3, HiLoOps
<1>4. CASE i.op \in {"beq", "bne", "blez", "bgtz", "bltz", "bgez", "bltzal", "bgezal"}
  BY <1>4, BranchOps
<1>5. CASE i.op \in {"j", "jal", "jr", "jalr"}
  BY <1>1, <1>5, JumpOps
<1>6. CASE i.op \in {"lb", "lbu", "lh", "lhu", "lw", "lwl", "lwr"}
  BY <1>6, LoadOps
<1>7. CASE i.op \in {"mfc0", "mtc0", "rfe", "mfc2", "mtc2", "gte", "lwc2"}
  BY <1>1, <1>7, CopOps
<1>8. CASE i.op \in {"syscall", "break", "cop1", "illegal"}
  BY <1>8, TrapOps
<1> QED
  BY <1>2, <1>3, <1>4, <1>5, <1>6, <1>7, <1>8 DEF Known, WordStores

-----------------------------------------------------------------------------
\* An address is its tag, its line and its word.
Sizes == Layout /\ LineWords \in Nat \ {0} /\ Lines \in Nat \ {0} /\ K % (4 * LineWords * Lines) = 0

LEMMA SizesHold == Sizes
BY LayoutHolds, InstructionsAssumption, CodeAssumption DEF Sizes, CodeParameters, K

\* The line and the word of an address do not depend on its region.
LEMMA Mirror ==
  ASSUME Sizes, NEW b \in Nat
  PROVE  line_idx(b + 4 * K) = line_idx(b) /\ word_idx(b + 4 * K) = word_idx(b)
<1> DEFINE u == 4 * LineWords
           d == 4 * LineWords * Lines
           a == b + 4 * K
<1>1. u \in Nat \ {0} /\ d \in Nat \ {0} /\ K \in Nat /\ d = u * Lines /\ LineWords \in Nat \ {0} /\ Lines \in Nat \ {0}
  BY DEF Sizes, Layout
<1>2. K % d = 0
  BY DEF Sizes
<1> HIDE DEF u, d
<1>3. K = d * (K \div d) /\ K \div d \in Nat
  <2>1. K \div d \in Nat /\ K = d * (K \div d) + (K % d)
    BY <1>1, DivOf, Zenon
  <2> DEFINE q == K \div d
  <2>2. q \in Nat /\ K = d * q + 0
    BY <1>2, <2>1
  <2> HIDE DEF q
  <2>3. K = d * q
    BY <1>1, <2>2
  <2> QED
    BY <2>2, <2>3 DEF q
<1> DEFINE q == 4 * (K \div d)
<1>4. q \in Nat /\ 4 * K = d * q
  BY <1>1, <1>3
<1> HIDE DEF q
<1>5. 4 * K = u * (Lines * q) /\ Lines * q \in Nat
  BY <1>1, <1>4
<1>6. a \div u = (b \div u) + Lines * q
  <2> DEFINE t == Lines * q
  <2>1. t \in Nat /\ a = b + u * t
    BY <1>5
  <2> HIDE DEF t, a
  <2>2. (b + u * t) \div u = (b \div u) + t
    BY <1>1, <2>1, DivShift, Zenon
  <2> QED
    BY <2>1, <2>2 DEF t
<1>7. line_idx(a) = line_idx(b)
  <2> DEFINE x == b \div u
  <2>1. x \in Nat
    BY <1>1, DivOf
  <2>2. line_idx(a) = (a \div u) % Lines /\ line_idx(b) = x % Lines
    BY DEF line_idx, u
  <2> HIDE DEF x
  <2>3. (x + Lines * q) % Lines = x % Lines
    BY <1>1, <1>4, <2>1, DivShift
  <2> QED
    BY <1>6, <2>2, <2>3 DEF x
<1>8. word_idx(a) = word_idx(b)
  <2> DEFINE x == b \div 4
             t == Lines * q
  <2>1. x \in Nat /\ t \in Nat
    BY <1>5, DivOf
  <2>2. 4 * K = 4 * (LineWords * t) /\ LineWords * t \in Nat
    BY <1>1, <1>5, <2>1 DEF u
  <2>3. word_idx(a) = (a \div 4) % LineWords /\ word_idx(b) = x % LineWords
    BY DEF word_idx
  <2> HIDE DEF t
  <2>4. a \div 4 = x + LineWords * t
    <3> DEFINE l == LineWords * t
    <3>1. l \in Nat /\ a = b + 4 * l
      BY <2>2
    <3> HIDE DEF l
    <3> QED
      BY <3>1 DEF x, l
  <2> HIDE DEF x
  <2>5. (x + LineWords * t) % LineWords = x % LineWords
    BY <1>1, <2>1, DivShift
  <2> QED
    BY <2>3, <2>4, <2>5
<1> QED
  BY <1>7, <1>8

\* Below the regions' mirrors an address is made of the three.
LEMMA Digits ==
  ASSUME Sizes, NEW x \in Nat, x < 4 * K, x % 4 = 0
  PROVE  x = 4 * (LineWords * (Lines * tag_of(x) + line_idx(x)) + word_idx(x))
<1> DEFINE u == 4 * LineWords
           d == 4 * LineWords * Lines
<1>1. u \in Nat \ {0} /\ d \in Nat \ {0} /\ d = u * Lines /\ LineWords \in Nat \ {0} /\ Lines \in Nat \ {0}
  BY DEF Sizes, Layout
<1>2. tag_of(x) = x \div d
  <2>1. x % (Word \div 2) = x
    BY DEF Sizes, Layout
  <2> QED
    BY <2>1 DEF tag_of
<1> HIDE DEF u, d
<1>3. (x \div u) \div Lines = x \div d /\ x \div u \in Nat
  BY <1>1, DivDiv, DivOf
<1>4. (x \div 4) \div LineWords = x \div u /\ x \div 4 \in Nat /\ x = 4 * (x \div 4)
  <2>1. (x \div 4) \div LineWords = x \div (4 * LineWords)
    <3>1. 4 \in Nat \ {0}
      OBVIOUS
    <3> QED
      BY <1>1, <3>1, DivDiv, Zenon
  <2>2. x \div 4 \in Nat /\ x = 4 * (x \div 4)
    OBVIOUS
  <2> QED
    BY <2>1, <2>2 DEF u
<1>5. x \div u = Lines * tag_of(x) + line_idx(x)
  BY <1>1, <1>2, <1>3, DivOf DEF line_idx, u
<1>6. x \div 4 = LineWords * (x \div u) + word_idx(x)
  BY <1>1, <1>4, DivOf DEF word_idx
<1> QED
  BY <1>4, <1>5, <1>6

LEMMA Indices ==
  ASSUME Sizes, NEW a \in Nat
  PROVE  line_idx(a) \in 0 .. Lines - 1 /\ word_idx(a) \in 0 .. LineWords - 1 /\ tag_of(a) \in Int
<1>1. line_idx(a) \in 0 .. Lines - 1
  <2>1. 4 * LineWords \in Nat \ {0} /\ Lines \in Nat \ {0}
    BY DEF Sizes
  <2>2. a \div (4 * LineWords) \in Nat
    BY <2>1, DivOf
  <2> QED
    BY <2>1, <2>2, DivOf DEF line_idx
<1>2. word_idx(a) \in 0 .. LineWords - 1
  <2>1. a \div 4 \in Nat /\ LineWords \in Nat \ {0}
    BY DEF Sizes
  <2> QED
    BY <2>1, DivOf DEF word_idx
<1>3. tag_of(a) \in Int
  <2>1. 4 * LineWords * Lines \in Nat \ {0} /\ 4 * K \in Nat \ {0} /\ Word \div 2 = 4 * K
    BY DEF Sizes, Layout
  <2>2. a % (4 * K) \in Nat
    BY <2>1
  <2>3. (a % (4 * K)) \div (4 * LineWords * Lines) \in Nat
    BY <2>1, <2>2, DivOf
  <2> QED
    BY <2>1, <2>3 DEF tag_of
<1> QED
  BY <1>1, <1>2, <1>3

\* A word that has the tag and the line of a cached address is found at the
\* address as many words on as it is in the line.
LEMMA SamePlace ==
  ASSUME Sizes, NEW a \in Nat, a % 4 = 0, addr_cached(a),
         NEW w \in Nat, w % 4 = 0, w < K,
         line_idx(w) = line_idx(a), tag_of(w) = tag_of(a)
  PROVE  regioned_addr(a + 4 * (word_idx(w) - word_idx(a))) = w
<1> DEFINE b == IF a < 4 * K THEN a ELSE a - 4 * K
           j == word_idx(w)
           k == word_idx(a)
<1>1. K \in Nat \ {0} /\ K % 4 = 0 /\ Layout /\ Word \div 2 = 4 * K
  BY DEF Sizes, Layout
<1>2. a < 5 * K
  <2>1. a \div K <= 4
    BY DEF addr_cached, Region, K
  <2>2. a \div K \in Nat /\ a = K * (a \div K) + (a % K) /\ a % K \in 0 .. K - 1
    BY <1>1, DivOf, Zenon
  <2> DEFINE q == a \div K
             r == a % K
  <2>3. q \in {0, 1, 2, 3, 4} /\ a = K * q + r /\ r < K /\ r \in Nat
    BY <1>1, <2>1, <2>2
  <2> HIDE DEF q, r
  <2> QED
    BY <1>1, <2>3
<1>3. b \in Nat /\ b < 4 * K /\ b % 4 = 0
  BY <1>1, <1>2
<1>4. line_idx(b) = line_idx(a) /\ word_idx(b) = k
  <2>1. CASE a < 4 * K
    BY <2>1
  <2>2. CASE ~(a < 4 * K)
    <3>1. a = b + 4 * K
      BY <1>1, <2>2
    <3> QED
      BY <1>3, <3>1, Mirror
  <2> QED
    BY <2>1, <2>2
<1>5. tag_of(b) = tag_of(a)
  <2>1. a % (4 * K) = b /\ b % (4 * K) = b
    BY <1>1, <1>2, <1>3
  <2> QED
    BY <1>1, <2>1 DEF tag_of
<1>6. j \in Nat /\ k \in Nat
  <2>1. j \in 0 .. LineWords - 1 /\ k \in 0 .. LineWords - 1
    BY Indices
  <2> QED
    BY <2>1 DEF Sizes
<1> DEFINE base == LineWords * (Lines * tag_of(w) + line_idx(w))
<1>7. w = 4 * (base + j)
  BY <1>1, Digits
<1>8. b = 4 * (base + k)
  BY <1>3, <1>4, <1>5, Digits
<1>9. base \in Int
  <2>1. tag_of(w) \in Int /\ line_idx(w) \in 0 .. Lines - 1 /\ Lines \in Nat /\ LineWords \in Nat
    BY Indices DEF Sizes
  <2> QED
    BY <2>1
<1> HIDE DEF base, j, k, b
<1>10. b + 4 * (j - k) = w
  BY <1>6, <1>7, <1>8, <1>9
<1> DEFINE to == a + 4 * (j - k)
<1>11. CASE a < 4 * K
  <2>1. to = w /\ w < 4 * K
    BY <1>1, <1>10, <1>11 DEF b
  <2> QED
    BY <1>1, <2>1, Regioned DEF j, k
<1>12. CASE ~(a < 4 * K)
  <2>1. to = w + 4 * K
    BY <1>1, <1>3, <1>6, <1>10, <1>12 DEF b
  <2>2. to \in Nat /\ to \div K = 4
    <3>1. K * 4 <= to /\ to < K * 4 + K /\ to \in Nat
      BY <1>1, <2>1
    <3> QED
      BY <1>1, <3>1, DivIs
  <2>3. Region(to) = 4
    BY <2>2 DEF Region, K
  <2>4. regioned_addr(to) = to - 4 * K
    BY <1>1, <2>2, <2>3, Regioned
  <2> QED
    BY <1>1, <2>1, <2>4 DEF j, k
<1> QED
  BY <1>11, <1>12

-----------------------------------------------------------------------------
\* A store, and the words it leaves as they were.
LEMMA MemStored ==
  ASSUME Numbers, NEW mem \in [Mem -> ByteValues], NEW w \in {1, 2, 4}, NEW p \in Nat, NEW v \in Nat
  PROVE  store_unchecked(mem, w, p, v) \in [Mem -> ByteValues]
<1> SUFFICES ASSUME NEW a \in Mem
             PROVE  (IF a \in p .. p + w - 1 THEN lane(v, a - p) ELSE mem[a]) \in ByteValues
  BY DEF store_unchecked
<1>1. CASE a \in p .. p + w - 1
  <2>1. a - p \in 0 .. 3
    BY <1>1
  <2> QED
    BY <1>1, <2>1, LaneByte
<1> QED
  BY <1>1

\* The word a byte is in.
Around(p) == p - (p % 4)

\* What is fetched from a word of memory.
CodeAt(mem, w) == IF w \in Ram THEN load_unchecked(mem, 4, w) ELSE Unmapped

LEMMA CodeWord ==
  ASSUME Layout, NEW w \in CodeWords PROVE w \in Nat /\ w % 4 = 0 /\ w < K /\ w \in Mem
BY DEF CodeWords, Layout, Mem, Ram, ScratchPad

LEMMA CodeOf ==
  ASSUME Layout, NEW n, NEW w \in Nat, w < K PROVE load_code(n, w) = CodeAt(n.mem, w)
<1>1. regioned_addr(w) = w
  BY Regioned DEF Layout
<1>2. w \notin CacheCtrl
  BY DEF CacheCtrl, Layout
<1> QED
  BY <1>1, <1>2 DEF load_code, bus_load, CodeAt

LEMMA OtherWords ==
  ASSUME Layout, NEW mem \in [Mem -> ByteValues], NEW s \in {1, 2, 4}, NEW p \in Nat, p % s = 0, NEW v,
         NEW w \in CodeWords, w # Around(p)
  PROVE  CodeAt(store_unchecked(mem, s, p, v), w) = CodeAt(mem, w)
<1> DEFINE new == store_unchecked(mem, s, p, v)
<1>1. w \in Nat /\ w % 4 = 0 /\ w \in Mem
  BY CodeWord
<1>2. ASSUME NEW k \in 0 .. 3 PROVE new[w + k] = mem[w + k]
  <2>1. w + k \in Mem
    BY <1>1, Bytes
  <2>2. w + k \notin p .. p + s - 1
    BY <1>1 DEF Around
  <2>3. new = [a \in Mem |-> IF a \in p .. p + s - 1 THEN lane(v, a - p) ELSE mem[a]]
    BY DEF store_unchecked
  <2> QED
    BY <2>1, <2>2, <2>3
<1> HIDE DEF new
<1>3. new[w + 0] = mem[w + 0] /\ new[w + 1] = mem[w + 1] /\ new[w + 2] = mem[w + 2] /\ new[w + 3] = mem[w + 3]
  BY <1>2
<1>4. load_unchecked(new, 4, w) = load_unchecked(mem, 4, w)
  BY <1>3 DEF load_unchecked, lanes
<1> QED
  BY <1>4 DEF CodeAt, new

\* The part of a value that is stored.
LEMMA LowPart == ASSUME Numbers, NEW v \in WordValues, NEW s \in {1, 2, 4} PROVE v % Byte ^ s \in WordValues
<1> DEFINE b == Byte ^ s
<1>1. b \in Nat \ {0} /\ 0 .. b - 1 \subseteq WordValues /\ v \in Nat
  BY Wide, WordIsNat
<1> HIDE DEF b
<1>2. v % b \in 0 .. b - 1
  BY <1>1
<1> QED
  BY <1>1, <1>2 DEF b

\* A store that is not isolated is to memory or to the cache control register.
LEMMA PlainStore ==
  ASSUME Numbers, Layout, NEW n \in Machine, NEW s \in {1, 2, 4}, NEW a \in WordValues, NEW v \in WordValues,
         ~is_aligned_to(s, a) \/ ~n.cop0.isolated
  PROVE  LET e == store(n, s, a, v)
         IN  /\ e \in Machine /\ e.icache = n.icache
             /\ \/ e.mem = n.mem
                \/ is_aligned_to(s, a) /\ e.mem = store_unchecked(n.mem, s, regioned_addr(a), v)
<1> DEFINE p == regioned_addr(a)
           t == bus_target(p)
           M == store_unchecked(n.mem, s, p, v)
           C == v % Byte ^ s
           B == [n EXCEPT !.cop0.bad = a]
           e == store(n, s, a, v)
<1>1. CASE ~is_aligned_to(s, a)
  <2>1. e = throw_exception(B, "AddressStoreError")
    BY <1>1 DEF store
  <2>2. Quiet(n, B)
    BY BadQuiet
  <2> HIDE DEF B
  <2>3. Quiet(B, throw_exception(B, "AddressStoreError"))
    BY <2>2, ThrowQuiet DEF Quiet, Codes
  <2>4. Quiet(n, e)
    BY <2>1, <2>2, <2>3, QuietTwice
  <2> HIDE DEF e
  <2> QED
    BY <2>4 DEF Quiet, e
<1>2. CASE is_aligned_to(s, a)
  <2>1. e \in {[n EXCEPT !.mem = M], [n EXCEPT !.ctrl = C], throw_exception(n, "BusDataError")}
    BY <1>2 DEF store
  <2>2. M \in [Mem -> ByteValues]
    <3>1. a \in Nat /\ v \in Nat /\ n.mem \in [Mem -> ByteValues]
      BY WordIsNat DEF Machine
    <3> QED
      BY <3>1, MemStored, Regioned
  <2>3. C \in WordValues
    BY LowPart
  <2>4. Quiet(n, throw_exception(n, "BusDataError"))
    BY ThrowQuiet DEF Codes
  <2> HIDE DEF M, C, e
  <2>5. CASE e = [n EXCEPT !.mem = M]
    <3>1. e \in Machine /\ e.icache = n.icache /\ e.mem = M
      BY <2>2, <2>5 DEF Machine
    <3> QED
      BY <1>2, <3>1 DEF M, e
  <2>6. CASE e = [n EXCEPT !.ctrl = C]
    <3>1. e \in Machine /\ e.icache = n.icache /\ e.mem = n.mem
      BY <2>3, <2>6 DEF Machine
    <3> QED
      BY <3>1 DEF e
  <2>7. CASE e = throw_exception(n, "BusDataError")
    <3>1. e \in Machine /\ e.icache = n.icache /\ e.mem = n.mem
      BY <2>4, <2>7 DEF Quiet
    <3> QED
      BY <3>1 DEF e
  <2> QED
    BY <2>1, <2>5, <2>6, <2>7
<1> QED
  BY <1>1, <1>2

\* An isolated one is to the cache.
Isolated(n, s, p, v) ==
  CASE ~icache_enabled(n.ctrl) -> n.icache
    [] icache_enabled(n.ctrl) /\ tag_test_enabled(n.ctrl) ->
         [n.icache EXCEPT ![line_idx(p)] = invalidate(@)]
    [] OTHER -> [n.icache EXCEPT ![line_idx(p)].data[word_idx(p)] = v % Byte ^ s]

LEMMA Invalidated ==
  ASSUME Sizes, NEW line \in Line
  PROVE  invalidate(line) \in Line /\ invalidate(line).first >= LineWords
BY DEF invalidate, Line, Sizes

LEMMA Written ==
  ASSUME Sizes, NEW line \in Line, NEW j \in 0 .. LineWords - 1, NEW v \in Int
  PROVE  LET new == [line EXCEPT !.data[j] = v]
         IN  /\ new \in Line /\ new.tag = line.tag /\ new.first = line.first
             /\ \A k \in 0 .. LineWords - 1 : k # j => new.data[k] = line.data[k]
<1> DEFINE D == [line.data EXCEPT ![j] = v]
<1>1. D \in [0 .. LineWords - 1 -> Int] /\ \A k \in 0 .. LineWords - 1 : k # j => D[k] = line.data[k]
  BY DEF Line
<1>2. [line EXCEPT !.data[j] = v] = [line EXCEPT !.data = D]
  BY DEF Line
<1> HIDE DEF D
<1> QED
  BY <1>1, <1>2 DEF Line

LEMMA IsolatedStore ==
  ASSUME Numbers, Sizes, NEW n \in Machine, NEW s \in {1, 2, 4}, NEW a \in WordValues, NEW v \in WordValues,
         is_aligned_to(s, a), n.cop0.isolated
  PROVE  LET e == store(n, s, a, v)
         IN  e \in Machine /\ e.mem = n.mem /\ e.icache = Isolated(n, s, regioned_addr(a), v)
<1> DEFINE p == regioned_addr(a)
           l == line_idx(p)
           j == word_idx(p)
           C == v % Byte ^ s
           e == store(n, s, a, v)
           I == Isolated(n, s, p, v)
<1>1. (e = n /\ I = n.icache) \/ e = [n EXCEPT !.icache = I]
  BY DEF store, Isolated
<1>2. p \in Nat /\ n.icache \in [0 .. Lines - 1 -> Line]
  <2>1. a \in Nat
    BY WordIsNat
  <2> QED
    BY <2>1, Regioned DEF Sizes, Machine
<1>3. l \in 0 .. Lines - 1 /\ j \in 0 .. LineWords - 1
  BY <1>2, Indices
<1>4. C \in Int
  BY LowPart, WordIsNat
<1>5. n.icache[l] \in Line
  BY <1>2, <1>3
<1>6. invalidate(n.icache[l]) \in Line /\ [n.icache[l] EXCEPT !.data[j] = C] \in Line
  BY <1>3, <1>4, <1>5, Invalidated, Written
<1>7. I \in {n.icache, [n.icache EXCEPT ![l] = invalidate(n.icache[l])],
             [n.icache EXCEPT ![l] = [n.icache[l] EXCEPT !.data[j] = C]]}
  BY DEF Isolated
<1> DEFINE x == invalidate(n.icache[l])
           y == [n.icache[l] EXCEPT !.data[j] = C]
<1>8. x \in Line /\ y \in Line /\ I \in {n.icache, [n.icache EXCEPT ![l] = x], [n.icache EXCEPT ![l] = y]}
  BY <1>6, <1>7
<1> HIDE DEF x, y, I, l, j, C, p
<1>9. I \in [0 .. Lines - 1 -> Line]
  BY <1>2, <1>3, <1>8
<1> HIDE DEF e
<1>10. e \in Machine /\ e.mem = n.mem /\ e.icache = I
  BY <1>1, <1>9 DEF Machine
<1> QED
  BY <1>10 DEF e, I, p

-----------------------------------------------------------------------------
\* Fetching an instruction.
LEMMA CodeInt ==
  ASSUME Numbers, Sizes, NEW n \in Machine, NEW a \in Nat, a % 4 = 0 PROVE load_code(n, a) \in Int
<1> DEFINE p == regioned_addr(a)
<1>1. p \in Nat /\ p % 4 = 0
  BY Regioned, RegionedAlign DEF Sizes
<1>2. p \in Ram => load_unchecked(n.mem, 4, p) \in Int
  <2>1. p \in Ram => load_unchecked(n.mem, 4, p) \in 0 .. Byte ^ 4 - 1
    BY <1>1, LoadedWord DEF Machine, Mem, Sizes
  <2> QED
    BY <2>1, Wide, WordIsNat
<1>3. n.ctrl % Byte ^ 4 \in Int
  BY LowPart, WordIsNat DEF Machine
<1>4. load_code(n, a) \in {load_unchecked(n.mem, 4, p), n.ctrl % Byte ^ 4, Unmapped} /\
      (load_code(n, a) = load_unchecked(n.mem, 4, p) => p \in Ram \/ load_code(n, a) \in {n.ctrl % Byte ^ 4, Unmapped})
  BY DEF load_code, bus_load
<1> QED
  BY <1>2, <1>3, <1>4 DEF Unmapped

LEMMA LineFilled ==
  ASSUME Numbers, Sizes, NEW n \in Machine, NEW line \in Line, NEW a \in Nat
  PROVE  LET f == fetch_cachline(n, line, a)
         IN  /\ f.exc \in Codes /\ set_tag(f.line, a) \in Line
             /\ set_tag(f.line, a).tag = tag_of(a) /\ set_tag(f.line, a).first = word_idx(a)
             /\ f.exc = "none" =>
                  /\ a % 4 = 0
                  /\ \A j \in word_idx(a) .. LineWords - 1 :
                       set_tag(f.line, a).data[j] = load_code(n, a + 4 * (j - word_idx(a)))
<1> DEFINE w == word_idx(a)
           from(j) == load_code(n, a + 4 * (j - w))
           loaded(j) == a % 4 = 0 /\ \A k \in w .. j : from(k) # Unmapped
           D == [j \in 0 .. LineWords - 1 |-> IF j >= w /\ loaded(j) THEN from(j) ELSE line.data[j]]
           f == fetch_cachline(n, line, a)
           g == set_tag(f.line, a)
<1>1. w \in 0 .. LineWords - 1 /\ tag_of(a) \in Int /\ LineWords \in Nat \ {0}
  BY Indices DEF Sizes
<1>2. /\ f.exc = (IF a % 4 # 0 THEN "AddressLoadError"
                  ELSE IF loaded(LineWords - 1) THEN "none" ELSE "BusInstructionError")
      /\ f.line = [line EXCEPT !.data = [j \in DOMAIN @ |-> IF j >= w /\ loaded(j) THEN from(j) ELSE @[j]]]
  BY DEF fetch_cachline
<1>3. f.line = [line EXCEPT !.data = D]
  BY <1>2 DEF Line
<1>4. ASSUME NEW j \in 0 .. LineWords - 1, j >= w, a % 4 = 0 PROVE from(j) \in Int
  <2>1. a + 4 * (j - w) \in Nat /\ (a + 4 * (j - w)) % 4 = 0
    <3> DEFINE t == j - w
    <3>1. t \in Nat
      BY <1>1, <1>4
    <3> HIDE DEF t
    <3>2. a + 4 * t \in Nat /\ (a + 4 * t) % 4 = 0
      BY <1>4, <3>1
    <3> QED
      BY <3>2 DEF t
  <2> QED
    BY <2>1, CodeInt
<1>5. D \in [0 .. LineWords - 1 -> Int]
  BY <1>4 DEF Line
<1>6. a % 4 = 0 /\ loaded(LineWords - 1) => \A j \in w .. LineWords - 1 : D[j] = from(j)
  <2> SUFFICES ASSUME a % 4 = 0, loaded(LineWords - 1), NEW j \in w .. LineWords - 1 PROVE D[j] = from(j)
    OBVIOUS
  <2>1. j \in 0 .. LineWords - 1 /\ j >= w
    BY <1>1
  <2>2. \A k \in w .. j : k \in w .. LineWords - 1
    BY <1>1
  <2>3. loaded(j)
    BY <2>2
  <2> HIDE DEF from, loaded, w
  <2> QED
    BY <2>1, <2>3
<1>7. f.exc = "none" => a % 4 = 0 /\ loaded(LineWords - 1)
  BY <1>2
<1>8. f.exc \in Codes
  BY <1>2 DEF Codes
<1>9. g = [f.line EXCEPT !.tag = tag_of(a), !.first = w]
  BY DEF set_tag
<1> HIDE DEF D, f, g
<1>10. w \in Nat
  BY <1>1
<1> HIDE DEF w
<1>11. g \in Line /\ g.tag = tag_of(a) /\ g.first = w /\ g.data = D
  BY <1>1, <1>3, <1>5, <1>9, <1>10 DEF Line
<1> QED
  BY <1>6, <1>7, <1>8, <1>11 DEF f, g, w

LEMMA Fetches ==
  ASSUME Numbers, Sizes, NEW n \in Machine, NEW a \in Nat
  PROVE  LET f == fetch(n, a)  g == set_tag(f.line, a)
         IN  /\ f.exc \in Codes /\ f.miss \in BOOLEAN
             /\ f.miss =>
                  /\ addr_cached(a) /\ g \in Line /\ g.tag = tag_of(a) /\ g.first = word_idx(a)
                  /\ f.exc = "none" =>
                       /\ a % 4 = 0
                       /\ \A j \in word_idx(a) .. LineWords - 1 :
                            g.data[j] = load_code(n, a + 4 * (j - word_idx(a)))
<1> DEFINE line == n.icache[line_idx(a)]
           c == fetch_cachline(n, line, a)
           f == fetch(n, a)
<1>1. line \in Line
  BY Indices DEF Machine
<1>2. \/ f.miss = FALSE /\ f.exc \in {"none", "AddressLoadError", "BusInstructionError"}
      \/ f.miss = TRUE /\ addr_cached(a) /\ f.exc = c.exc /\ f.line = c.line
  BY DEF fetch
<1> HIDE DEF line, f
<1>3. /\ c.exc \in Codes /\ set_tag(c.line, a) \in Line
      /\ set_tag(c.line, a).tag = tag_of(a) /\ set_tag(c.line, a).first = word_idx(a)
      /\ c.exc = "none" =>
           /\ a % 4 = 0
           /\ \A j \in word_idx(a) .. LineWords - 1 :
                set_tag(c.line, a).data[j] = load_code(n, a + 4 * (j - word_idx(a)))
  BY <1>1, LineFilled
<1> HIDE DEF c
<1>4. CASE f.miss = FALSE /\ f.exc \in {"none", "AddressLoadError", "BusInstructionError"}
  BY <1>4 DEF f, Codes
<1>5. CASE f.miss = TRUE /\ addr_cached(a) /\ f.exc = c.exc /\ f.line = c.line
  BY <1>3, <1>5 DEF f
<1> QED
  BY <1>2, <1>4, <1>5

\* A word that the cache hits on is the one in memory.
Current(mem, line, w) == hit(line, w) => line.data[word_idx(w)] = CodeAt(mem, w)

\* The cache and the doubts when the instruction has been fetched.
FetchedCache(n, a) ==
  LET f == fetch(n, a)
  IN  IF f.miss THEN [n.icache EXCEPT ![line_idx(a)] = set_tag(f.line, a)] ELSE n.icache
FetchedDoubt(n, a, d) ==
  LET f == fetch(n, a)
  IN  IF ~f.miss THEN d ELSE IF f.exc = "none" THEN d \ Filled(a) ELSE d \cup LineOf(a)

LEMMA FetchKeeps ==
  ASSUME Numbers, Sizes, NEW n \in Machine, NEW a \in Nat, NEW d,
         \A w \in CodeWords \ d : Current(n.mem, n.icache[line_idx(w)], w)
  PROVE  /\ FetchedCache(n, a) \in [0 .. Lines - 1 -> Line]
         /\ \A w \in CodeWords \ FetchedDoubt(n, a, d) : Current(n.mem, FetchedCache(n, a)[line_idx(w)], w)
<1> DEFINE f == fetch(n, a)
           g == set_tag(f.line, a)
           L == line_idx(a)
           I == FetchedCache(n, a)
<1>1. n.icache \in [0 .. Lines - 1 -> Line] /\ L \in 0 .. Lines - 1
  BY Indices DEF Machine
<1>2. CASE ~f.miss
  BY <1>1, <1>2 DEF FetchedCache, FetchedDoubt
<1>3. CASE f.miss
  <2>1. addr_cached(a) /\ g \in Line /\ g.tag = tag_of(a) /\ g.first = word_idx(a)
    BY <1>3, Fetches
  <2>2. f.exc = "none" => /\ a % 4 = 0
                          /\ \A j \in word_idx(a) .. LineWords - 1 :
                               g.data[j] = load_code(n, a + 4 * (j - word_idx(a)))
    BY <1>3, Fetches
  <2>3. I = [n.icache EXCEPT ![L] = g]
    BY <1>3 DEF FetchedCache
  <2>4. FetchedDoubt(n, a, d) = IF f.exc = "none" THEN d \ Filled(a) ELSE d \cup LineOf(a)
    BY <1>3 DEF FetchedDoubt
  <2> HIDE DEF f, g, I
  <2>5. I \in [0 .. Lines - 1 -> Line]
    BY <1>1, <2>1, <2>3
  <2>6. ASSUME NEW w \in CodeWords, w \notin FetchedDoubt(n, a, d) PROVE Current(n.mem, I[line_idx(w)], w)
    <3>1. w \in Nat /\ w % 4 = 0 /\ w < K
      BY CodeWord DEF Sizes
    <3>2. line_idx(w) \in 0 .. Lines - 1 /\ word_idx(w) \in 0 .. LineWords - 1
      BY <3>1, Indices
    <3>3. CASE line_idx(w) # L
      <4>1. w \notin LineOf(a) /\ w \notin Filled(a)
        BY <3>3 DEF LineOf, Filled
      <4>2. I[line_idx(w)] = n.icache[line_idx(w)]
        BY <1>1, <2>3, <3>2, <3>3
      <4>3. w \notin d
        BY <2>4, <2>6, <4>1
      <4> QED
        BY <4>2, <4>3
    <3>4. CASE line_idx(w) = L
      <4>1. I[line_idx(w)] = g
        BY <1>1, <2>3, <3>4
      <4>2. w \in LineOf(a)
        BY <3>4 DEF LineOf
      <4>3. f.exc = "none"
        BY <2>4, <2>6, <4>2
      <4>4. SUFFICES ASSUME hit(g, w) PROVE g.data[word_idx(w)] = CodeAt(n.mem, w)
        BY <4>1 DEF Current
      <4>5. tag_of(w) = tag_of(a) /\ word_idx(a) <= word_idx(w)
        BY <2>1, <4>4 DEF hit
      <4>6. word_idx(a) \in 0 .. LineWords - 1 /\ LineWords \in Nat
        BY Indices DEF Sizes
      <4>7. word_idx(w) \in word_idx(a) .. LineWords - 1
        BY <3>2, <4>5, <4>6
      <4> DEFINE to == a + 4 * (word_idx(w) - word_idx(a))
      <4>8. g.data[word_idx(w)] = load_code(n, to)
        BY <2>2, <4>3, <4>7
      <4>9. regioned_addr(to) = w
        BY <2>1, <2>2, <3>1, <3>4, <4>3, <4>5, SamePlace
      <4> HIDE DEF to
      <4>10. regioned_addr(w) = w
        BY <3>1, Regioned DEF Sizes, Layout
      <4>11. load_code(n, to) = load_code(n, w)
        BY <4>9, <4>10 DEF load_code
      <4>12. load_code(n, w) = CodeAt(n.mem, w)
        BY <3>1, CodeOf DEF Sizes
      <4> QED
        BY <4>8, <4>11, <4>12
    <3> QED
      BY <3>3, <3>4
  <2> QED
    BY <2>5, <2>6 DEF I
<1> QED
  BY <1>2, <1>3

-----------------------------------------------------------------------------
\* One instruction.
LEMMA NextPc ==
  ASSUME Numbers, NEW n \in Machine
  PROVE  LET k == next_pc(n)
         IN  Quiet(n, k) /\ k.last_pc = n.pc /\ k.cop0 = n.cop0
<1>1. wrap(n.next_pc + 4) \in WordValues
  <2>1. n.next_pc + 4 \in Int
    BY WordIsNat DEF Machine
  <2> QED
    BY <2>1, WrapWord
<1> QED
  BY <1>1 DEF next_pc, Machine, Quiet

LEMMA SlotCop == ASSUME NEW n \in Machine PROVE fetch_load_slot(n).cop0 = n.cop0
BY DEF fetch_load_slot, store_reg, Machine

\* A store that went out.
Stores(n, i) == i.op \in WordStores /\ is_aligned_to(Width(i.op), effective_addr(n, i))

\* What executing does to memory and cache.
LEMMA ExecEffect ==
  ASSUME Numbers, Sizes, Registers, NEW n \in Machine, NEW i, Known(i), Fields_(i), i.op \notin {"swl", "swr"}
  PROVE  LET e == exec(n, i)
             p == regioned_addr(effective_addr(n, i))
         IN  /\ e \in Machine
             /\ ~(Stores(n, i) /\ n.cop0.isolated) => e.icache = n.icache
             /\ ~(Stores(n, i) /\ ~n.cop0.isolated) => e.mem = n.mem
             /\ \A w \in CodeWords : w # Around(p) => CodeAt(e.mem, w) = CodeAt(n.mem, w)
             /\ Stores(n, i) /\ n.cop0.isolated =>
                  \E s, v : v % Byte ^ s \in Int /\ e.icache = Isolated(n, s, p, v)
<1> DEFINE e == exec(n, i)
           a == effective_addr(n, i)
           p == regioned_addr(a)
<1>1. CASE i.op \notin WordStores
  <2>1. Quiet(n, e)
    BY <1>1, NoStore DEF Sizes
  <2> HIDE DEF e
  <2> QED
    BY <1>1, <2>1 DEF Quiet, Stores, e
<1>2. CASE i.op \in WordStores
  <2> DEFINE x == fetch_load_slot(n)
             s == Width(i.op)
             v == IF i.op = "swc2" THEN n.gte ELSE n.regs[i.rt]
  <2>1. e = store(x, s, a, v)
    <3>1. e = IF i.op = "swc2" THEN op_swc2(n, i) ELSE op_store(n, i)
      BY <1>2, FormDomains DEF exec, WordStores
    <3>2. i.op = "swc2" => s = 4
      BY DEF Width
    <3> QED
      BY <3>1, <3>2 DEF op_swc2, op_store
  <2>2. s \in {1, 2, 4} /\ v \in WordValues /\ a \in WordValues /\ a \in Nat
    BY AddrWord DEF Width, Machine, Fields_
  <2>3. Quiet(n, x) /\ x.cop0 = n.cop0
    BY SlotQuiet, SlotCop
  <2>4. x \in Machine /\ x.mem = n.mem /\ x.ctrl = n.ctrl /\ x.icache = n.icache
    BY <2>3 DEF Quiet
  <2>5. Stores(n, i) <=> is_aligned_to(s, a)
    BY <1>2 DEF Stores
  <2>6. Layout
    BY DEF Sizes
  <2> HIDE DEF x, s, v, e
  <2>7. CASE ~Stores(n, i) \/ ~n.cop0.isolated
    <3>1. /\ e \in Machine /\ e.icache = x.icache
          /\ \/ e.mem = x.mem
             \/ is_aligned_to(s, a) /\ e.mem = store_unchecked(x.mem, s, p, v)
      BY <2>1, <2>2, <2>3, <2>4, <2>5, <2>6, <2>7, PlainStore
    <3>2. is_aligned_to(s, a) => p \in Nat /\ p % s = 0
      BY <2>2, <2>6, Regioned, RegionedAlign DEF is_aligned_to
    <3>3. ASSUME NEW w \in CodeWords, w # Around(p) PROVE CodeAt(e.mem, w) = CodeAt(n.mem, w)
      <4>1. n.mem \in [Mem -> ByteValues]
        BY DEF Machine
      <4>2. is_aligned_to(s, a) => CodeAt(store_unchecked(n.mem, s, p, v), w) = CodeAt(n.mem, w)
        <5> HIDE DEF p, a
        <5> QED
          BY <2>2, <2>6, <3>2, <3>3, <4>1, OtherWords
      <4> QED
        BY <2>4, <3>1, <4>2
    <3> QED
      BY <2>4, <2>5, <2>7, <3>1, <3>3 DEF e
  <2>8. CASE Stores(n, i) /\ n.cop0.isolated
    <3>1. e \in Machine /\ e.mem = x.mem /\ e.icache = Isolated(x, s, p, v)
      BY <2>1, <2>2, <2>3, <2>4, <2>5, <2>8, IsolatedStore
    <3>2. Isolated(x, s, p, v) = Isolated(n, s, p, v)
      BY <2>4 DEF Isolated
    <3>3. v % Byte ^ s \in Int
      BY <2>2, LowPart, WordIsNat
    <3> QED
      BY <2>4, <2>8, <3>1, <3>2, <3>3 DEF e
  <2> QED
    BY <2>7, <2>8
<1> QED
  BY <1>1, <1>2

LEMMA FetchFailedQuiet ==
  ASSUME Numbers, NEW n \in Machine, NEW a \in WordValues, NEW c \in Codes PROVE Quiet(n, fetch_failed(n, a, c))
<1> DEFINE B == [n EXCEPT !.cop0.bad = a]
<1>1. Quiet(n, B) /\ Quiet(n, throw_exception(n, c))
  BY BadQuiet, ThrowQuiet
<1>2. fetch_failed(n, a, c) \in {throw_exception(B, c), throw_exception(n, c)}
  BY DEF fetch_failed
<1> HIDE DEF B
<1>3. Quiet(B, throw_exception(B, c))
  BY <1>1, ThrowQuiet DEF Quiet
<1> QED
  BY <1>1, <1>2, <1>3, QuietTwice

\* The cache when the line that was filled is put back.
PutBack(n, a, I) ==
  LET f == fetch(n, a)
  IN  IF f.miss THEN [I EXCEPT ![line_idx(a)] = set_tag(f.line, a)] ELSE I

LEMMA PuttingBack ==
  ASSUME Numbers, Sizes, NEW n \in Machine, NEW a \in Nat, NEW l \in 0 .. Lines - 1, NEW x \in Line
  PROVE  LET I == PutBack(n, a, [n.icache EXCEPT ![l] = x])
             lost == fetch(n, a).miss /\ l = line_idx(a)
         IN  /\ lost => I = FetchedCache(n, a)
             /\ ~lost => /\ I[l] = x /\ FetchedCache(n, a)[l] = n.icache[l]
                         /\ \A k \in 0 .. Lines - 1 : k # l => I[k] = FetchedCache(n, a)[k]
<1> DEFINE f == fetch(n, a)
           g == set_tag(f.line, a)
           L == line_idx(a)
           I == PutBack(n, a, [n.icache EXCEPT ![l] = x])
           F == FetchedCache(n, a)
<1>1. L \in 0 .. Lines - 1 /\ n.icache \in [0 .. Lines - 1 -> Line]
  BY Indices DEF Machine
<1>2. I = IF f.miss THEN [[n.icache EXCEPT ![l] = x] EXCEPT ![L] = g] ELSE [n.icache EXCEPT ![l] = x]
  BY DEF PutBack
<1>3. F = IF f.miss THEN [n.icache EXCEPT ![L] = g] ELSE n.icache
  BY DEF FetchedCache
<1> HIDE DEF f, g, I, F, L
<1>4. f.miss /\ l = L => I = F
  BY <1>1, <1>2, <1>3
<1>5. ~(f.miss /\ l = L) => I[l] = x /\ F[l] = n.icache[l] /\ \A k \in 0 .. Lines - 1 : k # l => I[k] = F[k]
  BY <1>1, <1>2, <1>3
<1> QED
  BY <1>4, <1>5 DEF f, I, F, L

LEMMA PutBackType ==
  ASSUME Numbers, Sizes, NEW n \in Machine, NEW a \in Nat, NEW I \in [0 .. Lines - 1 -> Line]
  PROVE  PutBack(n, a, I) \in [0 .. Lines - 1 -> Line]
<1> DEFINE g == set_tag(fetch(n, a).line, a)
<1>1. fetch(n, a).miss => g \in Line
  BY Fetches
<1>2. PutBack(n, a, I) = IF fetch(n, a).miss THEN [I EXCEPT ![line_idx(a)] = g] ELSE I
  BY DEF PutBack
<1> HIDE DEF g
<1> QED
  BY <1>1, <1>2

LEMMA Advanced ==
  ASSUME Numbers, Sizes, NEW k \in Machine, NEW i, NEW e, NEW n, n = next_pc(k),
         e = (IF fetch(n, k.pc).exc = "none" THEN exec(n, i) ELSE fetch_failed(n, k.pc, fetch(n, k.pc).exc)),
         e \in Machine
  PROVE  LET after == execute_instruction(k, i)
         IN  after \in Machine /\ after.mem = e.mem /\ after.icache = PutBack(n, k.pc, e.icache)
<1> DEFINE a == k.pc
           f == fetch(n, a)
           after == execute_instruction(k, i)
           I == PutBack(n, a, e.icache)
<1>1. n \in Machine /\ n.last_pc = a /\ a \in Nat
  BY NextPc, WordIsNat DEF Quiet, Machine
<1>2. after = IF f.miss THEN [e EXCEPT !.icache[line_idx(a)] = set_tag(f.line, a)] ELSE e
  BY <1>1 DEF execute_instruction
<1>3. I \in [0 .. Lines - 1 -> Line]
  BY <1>1, PutBackType DEF Machine
<1>4. f.miss => I = [e.icache EXCEPT ![line_idx(a)] = set_tag(f.line, a)]
  BY DEF PutBack
<1>5. ~f.miss => I = e.icache
  BY DEF PutBack
<1> HIDE DEF f, I, after, a
<1>6. CASE f.miss
  <2>1. after = [e EXCEPT !.icache = I]
    BY <1>2, <1>4, <1>6
  <2> QED
    BY <1>3, <2>1 DEF Machine, after, I, a
<1>7. CASE ~f.miss
  <2>1. after = e
    BY <1>2, <1>7
  <2> QED
    BY <1>5, <1>7, <2>1 DEF after, I, a
<1> QED
  BY <1>6, <1>7

\* The doubts after instruction i.
LEMMA Doubts ==
  ASSUME NEW i, NEW n, n = next_pc(m)
  PROVE  LET f == fetch(n, m.pc)
             base == FetchedDoubt(n, m.pc, doubt)
             to == regioned_addr(effective_addr(n, i))
             stored == f.exc = "none" /\ Stores(n, i)
             kept == ~icache_enabled(n.ctrl) \/ (f.miss /\ line_idx(to) = line_idx(m.pc))
         IN  Doubted(i) =
               IF ~stored THEN base
               ELSE IF ~n.cop0.isolated THEN base \cup {Around(to)}
               ELSE IF kept THEN base
               ELSE IF tag_test_enabled(n.ctrl) THEN base \ LineOf(to)
               ELSE base \cup {w \in LineOf(to) : word_idx(w) = word_idx(to)}
<1> DEFINE f == fetch(n, m.pc)
           base == FetchedDoubt(n, m.pc, doubt)
           to == regioned_addr(effective_addr(n, i))
           kept == ~icache_enabled(n.ctrl) \/ (f.miss /\ line_idx(to) = line_idx(m.pc))
<1>1. base = IF ~f.miss THEN doubt
             ELSE IF f.exc = "none" THEN doubt \ Filled(m.pc) ELSE doubt \cup LineOf(m.pc)
  BY DEF FetchedDoubt
<1> QED
  BY <1>1 DEF Doubted, Stores, WordStores, Around

LEMMA IsolatedKeeps ==
  ASSUME Numbers, Sizes, NEW n \in Machine, NEW a \in Nat, NEW p \in Nat, NEW s, NEW v, v % Byte ^ s \in Int,
         NEW d, \A w \in CodeWords \ d : Current(n.mem, FetchedCache(n, a)[line_idx(w)], w)
  PROVE  LET kept == ~icache_enabled(n.ctrl) \/ (fetch(n, a).miss /\ line_idx(p) = line_idx(a))
             doubts == IF kept THEN d
                       ELSE IF tag_test_enabled(n.ctrl) THEN d \ LineOf(p)
                       ELSE d \cup {w \in LineOf(p) : word_idx(w) = word_idx(p)}
         IN  \A w \in CodeWords \ doubts :
               Current(n.mem, PutBack(n, a, Isolated(n, s, p, v))[line_idx(w)], w)
<1> DEFINE l == line_idx(p)
           j == word_idx(p)
           old == n.icache[l]
           c == v % Byte ^ s
           F == FetchedCache(n, a)
           I == PutBack(n, a, Isolated(n, s, p, v))
           lost == fetch(n, a).miss /\ l = line_idx(a)
<1>1. l \in 0 .. Lines - 1 /\ j \in 0 .. LineWords - 1 /\ n.icache \in [0 .. Lines - 1 -> Line] /\ old \in Line
  BY Indices DEF Machine
<1>2. CASE ~icache_enabled(n.ctrl)
  <2>1. I = F
    BY <1>2 DEF Isolated, PutBack, FetchedCache
  <2> QED
    BY <1>2, <2>1
<1>3. CASE icache_enabled(n.ctrl) /\ tag_test_enabled(n.ctrl)
  <2> DEFINE x == invalidate(old)
  <2>1. x \in Line /\ x.first >= LineWords
    BY <1>1, Invalidated
  <2>2. I = PutBack(n, a, [n.icache EXCEPT ![l] = x])
    BY <1>3 DEF Isolated
  <2>3. /\ lost => I = F
        /\ ~lost => I[l] = x /\ \A k \in 0 .. Lines - 1 : k # l => I[k] = F[k]
    BY <1>1, <2>1, <2>2, PuttingBack
  <2> HIDE DEF x, I, F
  <2>4. CASE lost
    BY <2>3, <2>4 DEF I, F
  <2>5. CASE ~lost
    <3> SUFFICES ASSUME NEW w \in CodeWords, w \notin d \ LineOf(p) PROVE Current(n.mem, I[line_idx(w)], w)
      BY <1>3, <2>5 DEF I
    <3>1. line_idx(w) \in 0 .. Lines - 1 /\ word_idx(w) \in 0 .. LineWords - 1
      BY CodeWord, Indices DEF Sizes
    <3>2. CASE line_idx(w) = l
      <4>1. ~hit(x, w)
        BY <2>1, <3>1 DEF hit, Sizes, Line
      <4> QED
        BY <2>3, <2>5, <3>2, <4>1 DEF Current
    <3>3. CASE line_idx(w) # l
      <4>1. w \notin d
        BY <3>3 DEF LineOf
      <4> QED
        BY <2>3, <2>5, <3>1, <3>3, <4>1 DEF F
    <3> QED
      BY <3>2, <3>3
  <2> QED
    BY <2>4, <2>5
<1>4. CASE icache_enabled(n.ctrl) /\ ~tag_test_enabled(n.ctrl)
  <2> DEFINE x == [old EXCEPT !.data[j] = c]
  <2>1. /\ x \in Line /\ x.tag = old.tag /\ x.first = old.first
        /\ \A k \in 0 .. LineWords - 1 : k # j => x.data[k] = old.data[k]
    BY <1>1, Written
  <2>2. I = PutBack(n, a, [n.icache EXCEPT ![l] = x])
    BY <1>4 DEF Isolated
  <2> HIDE DEF x, old
  <2>3. /\ lost => I = F
        /\ ~lost => I[l] = x /\ F[l] = old /\ \A k \in 0 .. Lines - 1 : k # l => I[k] = F[k]
    BY <1>1, <2>1, <2>2, PuttingBack DEF old
  <2> HIDE DEF I, F
  <2>4. CASE lost
    BY <2>3, <2>4 DEF I, F
  <2>5. CASE ~lost
    <3> SUFFICES ASSUME NEW w \in CodeWords, w \notin d,
                        ~(w \in LineOf(p) /\ word_idx(w) = j)
                 PROVE  Current(n.mem, I[line_idx(w)], w)
      BY <1>4, <2>5 DEF I
    <3>1. line_idx(w) \in 0 .. Lines - 1 /\ word_idx(w) \in 0 .. LineWords - 1
      BY CodeWord, Indices DEF Sizes
    <3>2. Current(n.mem, F[line_idx(w)], w)
      BY DEF F
    <3>3. CASE line_idx(w) = l
      <4>1. word_idx(w) # j
        BY <3>3 DEF LineOf
      <4>2. x.data[word_idx(w)] = old.data[word_idx(w)]
        BY <2>1, <3>1, <4>1
      <4> QED
        BY <2>1, <2>3, <2>5, <3>2, <3>3, <4>2 DEF Current, hit
    <3>4. CASE line_idx(w) # l
      BY <2>3, <2>5, <3>1, <3>2, <3>4
    <3> QED
      BY <3>3, <3>4
  <2> QED
    BY <2>4, <2>5
<1> QED
  BY <1>2, <1>3, <1>4

\* A machine whose cache may differ from memory in the words d only.
Kept(k, d) == k \in Machine /\ \A w \in CodeWords \ d : Current(k.mem, k.icache[line_idx(w)], w)

LEMMA StepKeeps ==
  ASSUME Numbers, Sizes, Registers, Kept(m, doubt), NEW i,
         fetch(next_pc(m), m.pc).exc = "none" => Known(i) /\ Fields_(i) /\ i.op \notin {"swl", "swr"}
  PROVE  Kept(execute_instruction(m, i), Doubted(i))
<1> DEFINE n == next_pc(m)
           a == m.pc
           f == fetch(n, a)
           e == IF f.exc = "none" THEN exec(n, i) ELSE fetch_failed(n, a, f.exc)
           to == regioned_addr(effective_addr(n, i))
           stored == f.exc = "none" /\ Stores(n, i)
           base == FetchedDoubt(n, a, doubt)
           kept == ~icache_enabled(n.ctrl) \/ (f.miss /\ line_idx(to) = line_idx(a))
           after == execute_instruction(m, i)
           F == FetchedCache(n, a)
<1>1. n \in Machine /\ a \in Nat /\ a \in WordValues /\ n.mem = m.mem /\ n.icache = m.icache
  BY NextPc, WordIsNat DEF Kept, Quiet, Machine
<1>2. \A w \in CodeWords \ base : Current(n.mem, F[line_idx(w)], w)
  <2>1. \A w \in CodeWords \ doubt : Current(n.mem, n.icache[line_idx(w)], w)
    BY <1>1 DEF Kept
  <2> HIDE DEF n, a
  <2> QED
    BY <1>1, <2>1, FetchKeeps
<1>3. f.exc \in Codes
  BY <1>1, Fetches
<1>4. f.exc # "none" => e \in Machine /\ e.mem = n.mem /\ e.icache = n.icache
  BY <1>1, <1>3, FetchFailedQuiet DEF Quiet
<1>5. f.exc = "none" =>
        /\ e \in Machine
        /\ ~(Stores(n, i) /\ n.cop0.isolated) => e.icache = n.icache
        /\ ~(Stores(n, i) /\ ~n.cop0.isolated) => e.mem = n.mem
        /\ \A w \in CodeWords : w # Around(to) => CodeAt(e.mem, w) = CodeAt(n.mem, w)
        /\ Stores(n, i) /\ n.cop0.isolated => \E s, v : v % Byte ^ s \in Int /\ e.icache = Isolated(n, s, to, v)
  <2>1. n = next_pc(m)
    OBVIOUS
  <2> HIDE DEF n
  <2> QED
    BY <1>1, <2>1, ExecEffect
<1>6. Doubted(i) =
        IF ~stored THEN base
        ELSE IF ~n.cop0.isolated THEN base \cup {Around(to)}
        ELSE IF kept THEN base
        ELSE IF tag_test_enabled(n.ctrl) THEN base \ LineOf(to)
        ELSE base \cup {w \in LineOf(to) : word_idx(w) = word_idx(to)}
  BY Doubts
<1>7. after \in Machine /\ after.mem = e.mem /\ after.icache = PutBack(n, a, e.icache)
  <2>1. m \in Machine
    BY DEF Kept
  <2>2. e \in Machine
    BY <1>4, <1>5
  <2> QED
    BY <2>1, <2>2, Advanced
<1>8. F = PutBack(n, a, n.icache)
  BY DEF FetchedCache, PutBack
<1>9. stored => to \in Nat
  <2>1. f.exc = "none" => effective_addr(n, i) \in Nat
    BY <1>1, AddrWord
  <2> QED
    BY <2>1, Regioned DEF Sizes
<1> HIDE DEF n, a, f, e, to, base, after, F
<1>10. CASE ~stored
  <2>1. e.mem = n.mem /\ e.icache = n.icache
    BY <1>4, <1>5, <1>10
  <2> QED
    BY <1>2, <1>6, <1>7, <1>8, <1>10, <2>1 DEF Kept, after
<1>11. CASE stored /\ ~n.cop0.isolated
  <2>1. e.icache = n.icache
    BY <1>5, <1>11
  <2>2. ASSUME NEW w \in CodeWords, w \notin Doubted(i) PROVE Current(e.mem, F[line_idx(w)], w)
    <3>1. w \notin base /\ w # Around(to)
      BY <1>6, <1>11, <2>2
    <3>2. CodeAt(e.mem, w) = CodeAt(n.mem, w)
      BY <1>5, <1>11, <3>1
    <3> QED
      BY <1>2, <3>1, <3>2 DEF Current
  <2> QED
    BY <1>7, <1>8, <2>1, <2>2 DEF Kept, after
<1>12. CASE stored /\ n.cop0.isolated
  <2>1. e.mem = n.mem
    BY <1>5, <1>12
  <2>2. PICK s, v : v % Byte ^ s \in Int /\ e.icache = Isolated(n, s, to, v)
    BY <1>5, <1>12
  <2>3. \A w \in CodeWords \ Doubted(i) : Current(n.mem, PutBack(n, a, Isolated(n, s, to, v))[line_idx(w)], w)
    <3>1. to \in Nat
      BY <1>9, <1>12
    <3>2. Doubted(i) =
            IF kept THEN base
            ELSE IF tag_test_enabled(n.ctrl) THEN base \ LineOf(to)
            ELSE base \cup {w \in LineOf(to) : word_idx(w) = word_idx(to)}
      BY <1>6, <1>12
    <3>3. \A w \in CodeWords \ base : Current(n.mem, FetchedCache(n, a)[line_idx(w)], w)
      BY <1>2 DEF F
    <3> QED
      BY <1>1, <2>2, <3>1, <3>2, <3>3, IsolatedKeeps DEF f
  <2> QED
    BY <1>7, <2>1, <2>2, <2>3 DEF Kept, after
<1> QED
  BY <1>10, <1>11, <1>12

LEMMA BootMachine ==
  ASSUME Numbers, Registers, NEW r \in [Regs -> WordValues], FirstMem \in [Mem -> ByteValues]
  PROVE  LET b == Boot(r, FirstMem, 0)
         IN  b \in Machine /\ b.mem = FirstMem /\ b.icache = [l \in 0 .. Lines - 1 |-> ICacheLine_valid]
<1> DEFINE b == Boot(r, FirstMem, 0)
           D == [j \in 0 .. LineWords - 1 |-> Startup]
           I == [l \in 0 .. Lines - 1 |-> ICacheLine_valid]
<1>1. Startup \in Int
  BY DEF Numbers, Startup
<1>2. ICacheLine_valid \in Line
  <2>1. D \in [0 .. LineWords - 1 -> Int]
    BY <1>1
  <2> HIDE DEF D
  <2>2. ICacheLine_valid = [tag |-> 0, first |-> 0, data |-> D]
    BY DEF ICacheLine_valid, D
  <2> QED
    BY <2>1, <2>2 DEF Line
<1>3. I \in [0 .. Lines - 1 -> Line]
  BY <1>2
<1>4. b = [last_pc |-> 0, pc |-> 0, next_pc |-> 0 + 4, in_branch_delay |-> FALSE, branched |-> FALSE,
           hi |-> 0, lo |-> 0, regs |-> r, load_delay |-> NoLoad, gte |-> 0,
           cop0 |-> [isolated |-> FALSE, bad |-> 0, code |-> "none", epc |-> 0],
           mem |-> FirstMem, ctrl |-> 0, icache |-> I]
  BY DEF Boot
<1>5. 0 \in WordValues /\ 0 + 4 \in WordValues /\ NoLoad \in [reg : Regs, val : WordValues]
  BY SmallWord DEF NoLoad, Registers
<1> HIDE DEF I, b
<1>6. b \in Machine /\ b.mem = FirstMem /\ b.icache = I
  BY <1>3, <1>4, <1>5 DEF Machine, Codes
<1> QED
  BY <1>6 DEF b, I

LEMMA BootKept ==
  ASSUME Numbers, Sizes, Registers, CodeRegs \in [Regs -> WordValues], FirstMem \in [Mem -> ByteValues]
  PROVE  Kept(Boot(CodeRegs, FirstMem, 0), {w \in CodeWords : tag_of(w) = 0})
<1> DEFINE b == Boot(CodeRegs, FirstMem, 0)
<1>1. b \in Machine /\ b.icache = [l \in 0 .. Lines - 1 |-> ICacheLine_valid]
  BY BootMachine
<1> HIDE DEF b
<1>2. ASSUME NEW w \in CodeWords, tag_of(w) # 0 PROVE Current(b.mem, b.icache[line_idx(w)], w)
  <2>1. line_idx(w) \in 0 .. Lines - 1
    BY CodeWord, Indices DEF Sizes
  <2>2. b.icache[line_idx(w)] = ICacheLine_valid
    BY <1>1, <2>1
  <2>3. ~hit(ICacheLine_valid, w)
    BY <1>2 DEF hit, ICacheLine_valid
  <2> QED
    BY <2>2, <2>3 DEF Current
<1> QED
  BY <1>1, <1>2 DEF Kept, b

\* The invariant: types, and every word without a doubt as it is in memory.
Cached == guest.kind = "code" => Kept(m, doubt)

\* The instruction cache (`Cpu::execute_instruction`, `fetch_cachline`, and the
\* stores of an isolated cache in `Cpu::store`): whatever code does, a word is
\* executed as it is in memory unless it is in doubt, for every size of cache,
\* RAM and word, and however long the code runs.
THEOREM CacheIsCurrent == Spec => []FetchIsCurrent
<1> USE PipelineAssumption, CodeAssumption
<1>1. Numbers /\ Sizes /\ Registers /\ Layout
  BY NumbersHold, SizesHold, LayoutHolds, InstructionsAssumption DEF Registers
<1>2. Init => Cached
  <2> SUFFICES ASSUME Init, guest.kind = "code" PROVE Kept(m, doubt)
    BY DEF Cached
  <2>1. InitCode
    BY DEF Init, InitData, InitSource
  <2>2. CodeRegs \in [Regs -> WordValues] /\ FirstMem \in [Mem -> ByteValues]
    BY DEF Parameters, Mem, WordValues, ByteValues
  <2> QED
    BY <1>1, <2>1, <2>2, BootKept DEF InitCode
<1>3. Cached /\ [Next]_vars => Cached'
  <2> SUFFICES ASSUME Cached, [Next]_vars, guest'.kind = "code" PROVE Kept(m', doubt')
    BY DEF Cached
  <2>1. CASE Execute
    <3>1. PICK i \in Meaning(fetch(next_pc(m), m.pc)) :
            /\ m' = execute_instruction(m, i)
            /\ doubt' = (IF guest.kind = "code" THEN Doubted(i) ELSE doubt)
            /\ UNCHANGED guest
      BY <2>1 DEF Execute
    <3>2. guest.kind = "code" /\ Kept(m, doubt) /\ doubt' = Doubted(i)
      BY <3>1 DEF Cached
    <3>3. fetch(next_pc(m), m.pc).exc = "none" => i \in CodeRepertoire
      BY <3>2 DEF Meaning
    <3>4. i \in CodeRepertoire => Known(i) /\ Fields_(i) /\ i.op \notin {"swl", "swr"}
      BY DEF Parameters, CodeParameters, Known, Fields_, WordValues
    <3> QED
      BY <1>1, <3>1, <3>2, <3>3, <3>4, StepKeeps
  <2>2. CASE Interrupt
    BY <2>2 DEF Interrupt
  <2>3. CASE UNCHANGED vars
    BY <2>3 DEF vars, Cached
  <2> QED
    BY <2>1, <2>2, <2>3 DEF Next
<1>4. Cached => FetchIsCurrent
  <2> SUFFICES ASSUME Kept(m, doubt), NEW w \in CodeWords \ doubt
               PROVE  hit(m.icache[line_idx(w)], w) =>
                        m.icache[line_idx(w)].data[word_idx(w)] = load_code(m, w)
    BY DEF Cached, FetchIsCurrent
  <2>1. load_code(m, w) = CodeAt(m.mem, w)
    BY <1>1, CodeWord, CodeOf
  <2> QED
    BY <2>1 DEF Kept, Current
<1> QED
  BY <1>2, <1>3, <1>4, PTL DEF Spec
-----------------------------------------------------------------------------
(***************************************************************************)
(* Unaligned words (Pipeline's data guest): LWL, LWR, SWL and SWR each     *)
(* move one part of a word, byte for byte, and what the first of a pair    *)
(* has moved the second leaves as it is.                                   *)
(***************************************************************************)
LEMMA LoadedLane ==
  ASSUME Layout, Numbers, NEW mem \in [Mem -> ByteValues], NEW p \in Nat, p .. p + 3 \subseteq Mem
  PROVE  /\ \A k \in 0 .. 3 : lane(load_unchecked(mem, 4, p), k) = mem[p + k]
         /\ load_unchecked(mem, 4, p) = Made(mem[p], mem[p + 1], mem[p + 2], mem[p + 3])
         /\ load_unchecked(mem, 4, p) \in WordValues
<1> DEFINE v == load_unchecked(mem, 4, p)
<1>1. /\ mem[p] \in ByteValues /\ mem[p + 1] \in ByteValues
      /\ mem[p + 2] \in ByteValues /\ mem[p + 3] \in ByteValues
  <2>1. p \in Mem /\ p + 1 \in Mem /\ p + 2 \in Mem /\ p + 3 \in Mem
    OBVIOUS
  <2> QED
    BY <2>1
<1>2. v = Made(mem[p], mem[p + 1], mem[p + 2], mem[p + 3])
  <2>1. p + 0 = p
    OBVIOUS
  <2> QED
    BY <2>1 DEF load_unchecked, lanes, Made
<1> HIDE DEF v
<1>3. /\ v \in WordValues /\ lane(v, 0) = mem[p] /\ lane(v, 1) = mem[p + 1]
      /\ lane(v, 2) = mem[p + 2] /\ lane(v, 3) = mem[p + 3]
  BY <1>1, <1>2, MadeOf
<1>4. \A k \in 0 .. 3 : lane(v, k) = mem[p + k]
  <2>1. p + 0 = p
    OBVIOUS
  <2> QED
    BY <1>3, <2>1
<1> QED
  BY <1>2, <1>3, <1>4 DEF v

\* The word around an address, before and after the address has lost its region.
LEMMA WordAround ==
  ASSUME Layout, Numbers, NEW addr \in WordValues
  PROVE  LET r == addr % 4  q == regioned_addr(addr)  a == addr - r
         IN  /\ r \in 0 .. 3 /\ a \in WordValues /\ a \in Nat /\ is_aligned_to(4, a)
             /\ q \in Nat /\ q % 4 = r /\ regioned_addr(a) = q - r /\ Around(q) = q - r
             /\ q \in Mem => (q - r) .. (q - r) + 3 \subseteq Mem
<1> DEFINE r == addr % 4
           q == regioned_addr(addr)
           a == addr - r
<1>1. addr \in Nat /\ addr < Word /\ Word \in Nat
  BY DEF WordValues, Numbers
<1>2. r \in 0 .. 3 /\ a \in Nat /\ a <= addr /\ a % 4 = 0 /\ a \in WordValues
  BY <1>1 DEF WordValues
<1>3. q \in Nat /\ q % 4 = r
  BY <1>1, Regioned, RegionedAlign
<1>4. Region(a) = Region(addr)
  <2> DEFINE g == addr \div K
             t == addr % K
  <2>1. K \in Nat \ {0} /\ g \in Nat /\ t \in 0 .. K - 1 /\ addr = K * g + t
    BY <1>1, DivOf DEF Layout
  <2>2. PICK c \in Nat : K = 4 * c
    BY DEF Layout
  <2> HIDE DEF g, t, r, a
  <2>3. K * g = 4 * (c * g) /\ c * g \in Nat /\ K * g \in Nat
    BY <2>1, <2>2
  <2> DEFINE cg == c * g
  <2> HIDE DEF cg
  <2>4. cg \in Nat /\ addr = 4 * cg + t /\ t \in Nat
    BY <2>1, <2>3 DEF cg
  <2>5. a = 4 * cg + (t - r) /\ t - r \in 0 .. t
    BY <1>1, <1>2, <2>4 DEF a, r
  <2>6. K * g <= a /\ a < K * g + K
    BY <1>2, <2>1, <2>3, <2>5 DEF cg
  <2>7. a \div K = g
    BY <1>2, <2>1, <2>6, DivIs
  <2> QED
    BY <2>7 DEF Region, K, g
<1>5. regioned_addr(a) = q - r
  <2>1. regioned_addr(a) = CASE Region(addr) = 4 -> a - 4 * K [] Region(addr) = 5 -> a - 5 * K [] OTHER -> a
    BY <1>2, <1>4, Regioned
  <2>2. q = CASE Region(addr) = 4 -> addr - 4 * K [] Region(addr) = 5 -> addr - 5 * K [] OTHER -> addr
    BY <1>1, Regioned
  <2>3. K \in Nat
    BY DEF Layout
  <2> HIDE DEF q
  <2> QED
    BY <1>1, <1>2, <2>1, <2>2, <2>3
<1> HIDE DEF q, r, a
<1>6. Around(q) = q - r
  BY <1>3 DEF Around
<1>7. q \in Mem => (q - r) .. (q - r) + 3 \subseteq Mem
  <2> HAVE q \in Mem
  <2>1. PICK x \in Nat, y \in Nat : RamSize = 4 * x /\ ScratchSize = 4 * y
    BY DEF Layout
  <2>2. q < 4 * x + 4 * y
    BY <1>3, <2>1 DEF Mem, Ram, ScratchPad
  <2>3. q - r >= 0 /\ (q - r) + 3 < 4 * x + 4 * y
    BY <1>2, <1>3, <2>1, <2>2
  <2> QED
    BY <1>2, <1>3, <2>1, <2>3 DEF Mem, Ram, ScratchPad
<1>8. is_aligned_to(4, a)
  BY <1>2 DEF is_aligned_to
<1> QED
  BY <1>2, <1>3, <1>5, <1>6, <1>7, <1>8 DEF q, r, a

\* A word of memory that is read first.
LEMMA WordRead ==
  ASSUME Layout, Numbers, NEW n \in Machine, NEW addr \in WordValues, regioned_addr(addr) \in Mem
  PROVE  LET q == regioned_addr(addr)  r == addr % 4  l == load(n, 4, addr - r)
         IN  /\ l.exc = "none" /\ l.val \in WordValues /\ l.val \in Nat
             /\ \A k \in 0 .. 3 : lane(l.val, k) = n.mem[(q - r) + k]
<1> DEFINE q == regioned_addr(addr)
           r == addr % 4
           a == addr - r
           p == q - r
           v == load_unchecked(n.mem, 4, p)
<1>1. /\ is_aligned_to(4, a) /\ regioned_addr(a) = p /\ p .. p + 3 \subseteq Mem /\ p \in Nat
  <2>1. /\ r \in 0 .. 3 /\ q \in Nat /\ q % 4 = r
        /\ is_aligned_to(4, a) /\ regioned_addr(a) = p /\ p .. p + 3 \subseteq Mem
    BY WordAround
  <2> HIDE DEF q, r, a
  <2> QED
    BY <2>1
<1> HIDE DEF q, r, a
<1>2. n.mem \in [Mem -> ByteValues]
  BY DEF Machine
<1>3. v \in WordValues /\ \A k \in 0 .. 3 : lane(v, k) = n.mem[p + k]
  BY <1>1, <1>2, LoadedLane
<1>4. p \in Mem
  BY <1>1
<1> HIDE DEF v
<1>5. v # Unmapped /\ v \in Nat
  BY <1>3, WordIsNat DEF Unmapped
<1>6. load(n, 4, a) = [exc |-> "none", val |-> v]
  <2> HIDE DEF p
  <2>1. CASE p \in ScratchPad
    BY <1>1, <2>1 DEF load, v
  <2>2. CASE p \in Ram
    <3>1. bus_load(n.mem, n.ctrl, 4, p) = v
      <4>1. p \notin CacheCtrl
        BY <2>2 DEF Layout, Ram, CacheCtrl
      <4> QED
        BY <2>2, <4>1 DEF bus_load, v
    <3>2. p \notin ScratchPad
      BY <2>2, BusAssumption DEF Ram, ScratchPad
    <3> QED
      BY <1>1, <1>5, <3>1, <3>2 DEF load
  <2> QED
    BY <1>4, <2>1, <2>2 DEF Mem
<1> QED
  BY <1>3, <1>5, <1>6 DEF q, r, a, p

\* The part of the word that ends (left) or starts (right) at byte q that lies in
\* one word of memory, and the byte of memory that is byte 0 of the register.
Lefts == {"lwl", "swl"}
Part(op, q) == IF op \in Lefts THEN Around(q) .. q ELSE q .. Around(q) + 3
First(op, q) == IF op \in Lefts THEN q - 3 ELSE q

LEMMA LoadMoves ==
  ASSUME Layout, Numbers, Registers, NEW n \in Machine, NEW i, Fields_(i), Known(i),
         i.op \in {"lwl", "lwr"}, NEW q, q = regioned_addr(effective_addr(n, i)), q \in Mem
  PROVE  LET e == exec(n, i)
         IN  /\ Quiet(n, e) /\ e.cop0 = n.cop0
             /\ \A k \in 0 .. 3 :
                  lane(old_value(e, i.rt), k) = IF First(i.op, q) + k \in Part(i.op, q)
                                                  THEN n.mem[First(i.op, q) + k] ELSE lane(old_value(n, i.rt), k)
<1> DEFINE addr == effective_addr(n, i)
           r == addr % 4
           l == load(n, 4, addr - r)
           old == old_value(n, i.rt)
           v == IF i.op = "lwl" THEN join(old, left(l.val, 3 - r), 3 - r) ELSE join(right(l.val, r), old, 4 - r)
           e == exec(n, i)
<1>1. addr \in WordValues
  BY AddrWord
<1>2. r \in 0 .. 3 /\ q \in Nat /\ Around(q) = q - r
  <2> HIDE DEF addr
  <2>1. q = regioned_addr(addr)
    BY DEF addr
  <2> QED
    BY <1>1, <2>1, WordAround
<1>3. l.exc = "none" /\ l.val \in Nat /\ \A k \in 0 .. 3 : lane(l.val, k) = n.mem[(q - r) + k]
  <2> HIDE DEF addr
  <2>1. q = regioned_addr(addr)
    BY DEF addr
  <2> QED
    BY <1>1, <2>1, WordRead
<1>4. old \in Nat
  BY WordIsNat DEF Machine, Fields_, old_value
<1>5. e = pipeline_load(n, i.rt, v)
  <2>1. e = IF i.op = "lwl" THEN op_lwl(n, i) ELSE op_lwr(n, i)
    BY FormDomains DEF exec
  <2> QED
    BY <1>3, <2>1 DEF op_lwl, op_lwr
<1>6. e.load_delay = [reg |-> i.rt, val |-> v] /\ e.cop0 = n.cop0
  BY <1>5 DEF pipeline_load, store_reg, Machine
<1>7. old_value(e, i.rt) = v
  BY <1>6 DEF old_value
<1>8. Quiet(n, e)
  BY NoStore DEF WordStores
<1> HIDE DEF addr, r, l, old, e
<1>9. ASSUME NEW k \in 0 .. 3
      PROVE  lane(v, k) = IF First(i.op, q) + k \in Part(i.op, q) THEN n.mem[First(i.op, q) + k] ELSE lane(old, k)
  <2>1. CASE i.op = "lwl"
    <3>1. First(i.op, q) = q - 3 /\ Part(i.op, q) = (q - r) .. q
      BY <1>2, <2>1 DEF First, Part, Lefts
    <3>2. (q - 3) + k \in (q - r) .. q <=> ~(k < 3 - r)
      BY <1>2
    <3>3. v = join(old, left(l.val, 3 - r), 3 - r)
      BY <2>1
    <3>4. left(l.val, 3 - r) \in Nat
      <4>1. 3 \in 0 .. 3 /\ 3 - r \in 0 .. 3 /\ 3 - r <= 3
        BY <1>2
      <4> QED
        BY <1>3, <4>1, LaneLeft, WordIsNat
    <3>5. lane(v, k) = IF k < 3 - r THEN lane(old, k) ELSE lane(left(l.val, 3 - r), k)
      <4>1. 3 - r \in 0 .. 4
        BY <1>2
      <4> HIDE DEF v
      <4> QED
        BY <1>4, <3>3, <3>4, <4>1, LaneJoin
    <3>6. ~(k < 3 - r) => lane(left(l.val, 3 - r), k) = n.mem[(q - 3) + k]
      <4> HAVE ~(k < 3 - r)
      <4>1. 3 - r \in 0 .. 3 /\ 3 - r <= k /\ k - (3 - r) \in 0 .. 3 /\ (q - r) + (k - (3 - r)) = (q - 3) + k
        BY <1>2
      <4>2. lane(left(l.val, 3 - r), k) = lane(l.val, k - (3 - r))
        BY <1>3, <4>1, LaneLeft
      <4>3. lane(l.val, k - (3 - r)) = n.mem[(q - r) + (k - (3 - r))]
        BY <1>3, <4>1
      <4> QED
        BY <4>1, <4>2, <4>3
    <3> HIDE DEF v
    <3> QED
      BY <3>1, <3>2, <3>5, <3>6
  <2>2. CASE i.op = "lwr"
    <3>1. First(i.op, q) = q /\ Part(i.op, q) = q .. (q - r) + 3
      BY <1>2, <2>2 DEF First, Part, Lefts
    <3>2. q + k \in q .. (q - r) + 3 <=> k < 4 - r
      BY <1>2
    <3>3. v = join(right(l.val, r), old, 4 - r)
      BY <2>2
    <3>4. right(l.val, r) \in Nat
      <4>1. r \in 0 .. 4
        BY <1>2
      <4> QED
        BY <1>3, <4>1, Halves
    <3>5. lane(v, k) = IF k < 4 - r THEN lane(right(l.val, r), k) ELSE lane(old, k)
      <4>1. 4 - r \in 0 .. 4
        BY <1>2
      <4> HIDE DEF v
      <4> QED
        BY <1>4, <3>3, <3>4, <4>1, LaneJoin
    <3>6. k < 4 - r => lane(right(l.val, r), k) = n.mem[q + k]
      <4> HAVE k < 4 - r
      <4>1. r \in 0 .. 4 /\ k \in 0 .. 4 /\ k + r <= 4 /\ k + r \in 0 .. 3 /\ (q - r) + (k + r) = q + k
        BY <1>2
      <4>2. lane(right(l.val, r), k) = lane(l.val, k + r)
        BY <1>3, <4>1, LaneRight
      <4> QED
        BY <1>3, <4>1, <4>2
    <3> HIDE DEF v
    <3> QED
      BY <3>1, <3>2, <3>5, <3>6
  <2> QED
    BY <2>1, <2>2
<1> QED
  BY <1>6, <1>7, <1>8, <1>9 DEF e, old

\* What SWL and SWR store, and that they leave the mode of the cache alone.
LEMMA StoresWord ==
  ASSUME Layout, Numbers, Registers, NEW n \in Machine, NEW i, Fields_(i), i.op \in {"swl", "swr"}
  PROVE  LET addr == effective_addr(n, i)
             r == addr % 4
             a == addr - r
             l == load(n, 4, a)
             v == IF i.op = "swl" THEN join(right(n.regs[i.rt], 3 - r), l.val, r + 1)
                                  ELSE join(l.val, left(n.regs[i.rt], r), r)
         IN  /\ exec(n, i) = IF l.exc = "none" THEN store(fetch_load_slot(n), 4, a, v) ELSE load_failed(n, a, l.exc)
             /\ l.exc \in Codes
             /\ l.exc = "none" => v \in WordValues /\ n.regs[i.rt] \in Nat
<1> DEFINE addr == effective_addr(n, i)
           r == addr % 4
           a == addr - r
           l == load(n, 4, a)
           arg == n.regs[i.rt]
           v == IF i.op = "swl" THEN join(right(arg, 3 - r), l.val, r + 1) ELSE join(l.val, left(arg, r), r)
<1>1. exec(n, i) = IF l.exc = "none" THEN store(fetch_load_slot(n), 4, a, v) ELSE load_failed(n, a, l.exc)
  <2>1. exec(n, i) = IF i.op = "swl" THEN op_swl(n, i) ELSE op_swr(n, i)
    BY FormDomains DEF exec
  <2> QED
    BY <2>1 DEF op_swl, op_swr
<1>2. arg \in Nat
  BY WordIsNat DEF Machine, Fields_
<1>3. r \in 0 .. 3 /\ a \in Nat
  <2>1. addr \in WordValues
    BY AddrWord
  <2> HIDE DEF addr
  <2> QED
    BY <2>1, WordAround
<1> HIDE DEF addr, r, a
<1>4. l.exc \in Codes /\ (l.exc = "none" => l.val \in WordValues /\ l.val \in Nat)
  BY <1>3, LoadWord, WordIsNat
<1> HIDE DEF l, arg
<1>5. l.exc = "none" => v \in WordValues
  <2> HAVE l.exc = "none"
  <2>1. 3 - r \in 0 .. 4 /\ r + 1 \in 0 .. 4 /\ r \in 0 .. 4 /\ 3 \in 0 .. 3 /\ r <= 3
    BY <1>3
  <2>2. right(arg, 3 - r) \in Nat
    BY <1>2, <2>1, Halves
  <2>3. left(arg, r) \in WordValues
    BY <1>2, <1>3, <2>1, LaneLeft
  <2>4. join(right(arg, 3 - r), l.val, r + 1) \in WordValues
    BY <1>4, <2>1, <2>2, JoinWord
  <2>5. join(l.val, left(arg, r), r) \in WordValues
    BY <1>4, <2>1, <2>3, JoinWord
  <2> QED
    BY <2>4, <2>5
<1> QED
  BY <1>1, <1>2, <1>4, <1>5 DEF addr, r, a, l, arg

LEMMA UnalignedMachine ==
  ASSUME Sizes, Numbers, Registers, NEW n \in Machine, NEW i, Fields_(i), i.op \in {"swl", "swr"}
  PROVE  exec(n, i) \in Machine
<1> DEFINE addr == effective_addr(n, i)
           a == addr - (addr % 4)
           x == fetch_load_slot(n)
<1>1. a \in WordValues /\ is_aligned_to(4, a) /\ Layout
  <2>1. addr \in WordValues /\ Layout
    BY AddrWord DEF Sizes
  <2> HIDE DEF addr
  <2> QED
    BY <2>1, WordAround
<1>2. \/ \E v \in WordValues : exec(n, i) = store(x, 4, a, v)
      \/ \E c \in Codes : exec(n, i) = load_failed(n, a, c)
  BY <1>1, StoresWord
<1>3. x \in Machine
  BY SlotQuiet DEF Quiet
<1> HIDE DEF x, a
<1>4. ASSUME NEW v \in WordValues PROVE store(x, 4, a, v) \in Machine
  BY <1>1, <1>3, PlainStore, IsolatedStore
<1>5. ASSUME NEW c \in Codes PROVE load_failed(n, a, c) \in Machine
  BY <1>1, FailedQuiet DEF Quiet
<1> QED
  BY <1>2, <1>4, <1>5

LEMMA MachineShape == ASSUME NEW n \in Machine PROVE Shape(n)
<1>1. n = [x \in MachineFields |-> n[x]]
  BY DEF Machine, MachineFields
<1>2. n.cop0 = [x \in CopFields |-> n.cop0[x]]
  <2>1. n.cop0 \in [isolated : BOOLEAN, bad : WordValues, code : Codes, epc : WordValues]
    BY DEF Machine
  <2> QED
    BY <2>1 DEF CopFields
<1>3. n.regs = [r \in Regs |-> n.regs[r]] /\ n.load_delay.reg \in Regs
  BY DEF Machine
<1> QED
  BY <1>1, <1>2, <1>3 DEF Shape

LEMMA StoreMoves ==
  ASSUME Sizes, Numbers, Registers, NEW n \in Machine, NEW i, Fields_(i), i.op \in {"swl", "swr"},
         NEW q, q = regioned_addr(effective_addr(n, i)), q \in Mem
  PROVE  LET e == exec(n, i)
         IN  /\ e.cop0 = n.cop0
             /\ ~n.cop0.isolated =>
                  \A b \in Mem : e.mem[b] = IF b \in Part(i.op, q) THEN lane(n.regs[i.rt], b - First(i.op, q))
                                                                   ELSE n.mem[b]
<1> DEFINE addr == effective_addr(n, i)
           r == addr % 4
           a == addr - r
           p == q - r
           l == load(n, 4, a)
           arg == n.regs[i.rt]
           v == IF i.op = "swl" THEN join(right(arg, 3 - r), l.val, r + 1) ELSE join(l.val, left(arg, r), r)
           x == fetch_load_slot(n)
           e == exec(n, i)
<1>1. /\ r \in 0 .. 3 /\ q \in Nat /\ Around(q) = p /\ a \in WordValues /\ is_aligned_to(4, a)
      /\ regioned_addr(a) = p /\ p .. p + 3 \subseteq Mem /\ p \in Nat /\ q % 4 = r
  <2>1. addr \in WordValues /\ q = regioned_addr(addr) /\ Layout
    BY AddrWord DEF Sizes, addr
  <2> HIDE DEF addr
  <2>2. /\ r \in 0 .. 3 /\ q \in Nat /\ Around(q) = p /\ a \in WordValues /\ is_aligned_to(4, a)
        /\ regioned_addr(a) = p /\ q % 4 = r /\ p .. p + 3 \subseteq Mem
    BY <2>1, WordAround
  <2> HIDE DEF r, a
  <2> QED
    BY <2>2
<1>2. l.exc = "none" /\ l.val \in Nat /\ \A k \in 0 .. 3 : lane(l.val, k) = n.mem[p + k]
  <2>1. addr \in WordValues /\ q = regioned_addr(addr) /\ Layout
    BY AddrWord DEF Sizes, addr
  <2> HIDE DEF addr
  <2> QED
    BY <2>1, WordRead
<1>3. e = store(x, 4, a, v) /\ v \in WordValues /\ arg \in Nat
  BY <1>2, StoresWord DEF Sizes
<1>4. x \in Machine /\ x.cop0 = n.cop0 /\ x.mem = n.mem
  BY SlotQuiet, SlotCop DEF Quiet
<1> HIDE DEF addr, r, a, l, arg, x, e
<1>5. r \in 0 .. 3 /\ q \in Nat /\ p \in Nat /\ p = q - r
  BY <1>1
<1> HIDE DEF p
<1>6. p \in Mem /\ bus_target(p) = "mem"
  <2>1. p \in Mem
    BY <1>1, <1>5
  <2>2. p \notin CacheCtrl
    BY <2>1 DEF Mem, Ram, ScratchPad, CacheCtrl, Sizes, Layout
  <2> QED
    BY <2>1, <2>2 DEF bus_target, Mem
<1>7. e.cop0 = n.cop0
  <2>1. Shape(x) /\ ~StoreFails(x, 4, a)
    BY <1>1, <1>4, <1>6, MachineShape DEF StoreFails
  <2> HIDE DEF v
  <2> QED
    BY <1>3, <1>4, <2>1, Store
<1>8. ASSUME ~n.cop0.isolated, NEW b \in Mem
      PROVE  e.mem[b] = IF b \in Part(i.op, q) THEN lane(arg, b - First(i.op, q)) ELSE n.mem[b]
  <2>1. e = [x EXCEPT !.mem = store_unchecked(x.mem, 4, p, v)]
    BY <1>1, <1>3, <1>4, <1>6, <1>8 DEF store
  <2>2. e.mem = store_unchecked(n.mem, 4, p, v) /\ n.mem \in [Mem -> ByteValues]
    BY <1>4, <2>1 DEF Machine
  <2>3. e.mem[b] = IF b \in p .. p + 3 THEN lane(v, b - p) ELSE n.mem[b]
    BY <1>1, <2>2 DEF store_unchecked
  <2>4. b \in Nat
    BY DEF Mem, Ram, ScratchPad, Sizes, Layout
  <2>5. CASE b \notin p .. p + 3
    <3>1. b \notin p .. q /\ b \notin q .. p + 3
      BY <1>5, <2>4, <2>5
    <3>2. b \notin Part(i.op, q)
      BY <1>1, <3>1 DEF Part
    <3> QED
      BY <2>3, <2>5, <3>2
  <2>6. CASE b \in p .. p + 3
    <3> DEFINE k == b - p
    <3>1. k \in 0 .. 3 /\ b = p + k
      BY <1>5, <2>4, <2>6
    <3> HIDE DEF k
    <3>2. e.mem[b] = lane(v, k) /\ n.mem[b] = lane(l.val, k)
      <4>1. b - p = k
        BY <1>5, <3>1
      <4> HIDE DEF v
      <4> QED
        BY <1>2, <2>3, <2>6, <3>1, <4>1
    <3>3. CASE i.op = "swl"
      <4>1. First(i.op, q) = q - 3 /\ Part(i.op, q) = p .. q /\ v = join(right(arg, 3 - r), l.val, r + 1)
        BY <1>1, <3>3 DEF First, Part, Lefts
      <4>2. b \in p .. q <=> k < r + 1
        BY <1>5, <3>1
      <4>3. right(arg, 3 - r) \in Nat
        <5>1. 3 - r \in 0 .. 4
          BY <1>1
        <5> QED
          BY <1>3, <5>1, Halves
      <4>4. lane(v, k) = IF k < r + 1 THEN lane(right(arg, 3 - r), k) ELSE lane(l.val, k)
        <5>1. r + 1 \in 0 .. 4
          BY <1>1
        <5> HIDE DEF v
        <5> QED
          BY <1>2, <3>1, <4>1, <4>3, <5>1, LaneJoin
      <4>5. k < r + 1 => lane(right(arg, 3 - r), k) = lane(arg, b - (q - 3))
        <5> HAVE k < r + 1
        <5>1. 3 - r \in 0 .. 4 /\ k \in 0 .. 4 /\ k + (3 - r) <= 4 /\ k + (3 - r) = b - (q - 3)
          BY <1>5, <3>1
        <5>2. lane(right(arg, 3 - r), k) = lane(arg, k + (3 - r))
          BY <1>3, <5>1, LaneRight
        <5> QED
          BY <5>1, <5>2
      <4> HIDE DEF v
      <4> QED
        BY <3>2, <4>1, <4>2, <4>4, <4>5
    <3>4. CASE i.op = "swr"
      <4>1. First(i.op, q) = q /\ Part(i.op, q) = q .. p + 3 /\ v = join(l.val, left(arg, r), r)
        BY <1>1, <3>4 DEF First, Part, Lefts
      <4>2. b \in q .. p + 3 <=> ~(k < r)
        BY <1>5, <3>1
      <4>3. left(arg, r) \in Nat
        <5>1. 3 \in 0 .. 3 /\ r <= 3
          BY <1>1
        <5> QED
          BY <1>1, <1>3, <5>1, LaneLeft, WordIsNat
      <4>4. lane(v, k) = IF k < r THEN lane(l.val, k) ELSE lane(left(arg, r), k)
        <5>1. r \in 0 .. 4
          BY <1>1
        <5> HIDE DEF v
        <5> QED
          BY <1>2, <3>1, <4>1, <4>3, <5>1, LaneJoin
      <4>5. ~(k < r) => lane(left(arg, r), k) = lane(arg, b - q)
        <5> HAVE ~(k < r)
        <5>1. r <= k /\ k - r = b - q
          BY <1>5, <3>1
        <5>2. lane(left(arg, r), k) = lane(arg, k - r)
          BY <1>1, <1>3, <3>1, <5>1, LaneLeft
        <5> QED
          BY <5>1, <5>2
      <4> HIDE DEF v
      <4> QED
        BY <3>2, <4>1, <4>2, <4>4, <4>5
    <3> QED
      BY <3>3, <3>4
  <2> QED
    BY <2>5, <2>6
<1> QED
  BY <1>7, <1>8 DEF e, arg

\* The machine after the instruction has been executed and a line put back.
LEMMA Retired ==
  ASSUME Numbers, Sizes, NEW k \in Machine, NEW i, NEW n, n = next_pc(k), exec(n, i) \in Machine,
         fetch(n, k.pc).exc = "none"
  PROVE  LET e == exec(n, i)  after == execute_instruction(k, i)
         IN  /\ after \in Machine /\ after.mem = e.mem /\ after.cop0 = e.cop0
             /\ \A r : old_value(after, r) = old_value(e, r)
<1> DEFINE e == exec(n, i)
           f == fetch(n, k.pc)
           after == execute_instruction(k, i)
           c == [e.icache EXCEPT ![line_idx(k.pc)] = set_tag(f.line, k.pc)]
<1>1. n.last_pc = k.pc
  BY NextPc
<1>2. after = IF f.miss THEN [e EXCEPT !.icache = c] ELSE e
  BY <1>1 DEF execute_instruction
<1>3. after \in Machine /\ after.mem = e.mem
  <2> DEFINE x == IF fetch(n, k.pc).exc = "none" THEN exec(n, i) ELSE fetch_failed(n, k.pc, fetch(n, k.pc).exc)
  <2>1. x = exec(n, i) /\ x \in Machine
    OBVIOUS
  <2>2. execute_instruction(k, i) \in Machine /\ execute_instruction(k, i).mem = x.mem
    BY <2>1, Advanced
  <2> HIDE DEF x
  <2> QED
    BY <2>1, <2>2
<1> HIDE DEF f, c, e, after
<1>4. e \in Machine
  BY DEF e
<1>5. after.cop0 = e.cop0 /\ after.load_delay = e.load_delay /\ after.regs = e.regs
  BY <1>2, <1>4 DEF Machine
<1>6. \A r : old_value(after, r) = old_value(e, r)
  BY <1>5 DEF old_value
<1> QED
  BY <1>3, <1>5, <1>6 DEF e, after

\* An entry of the history, and the byte of memory its address names.
Noted(w) == w.addr \in WordValues /\ w.arg \in WordValues /\ w.reg \in Regs
At(w) == regioned_addr(w.addr)

MergeLoads == {"lwl", "lwr"}
MergeStores == {"swl", "swr"}

\* What has been moved, and whether it went between register and memory at all.
Value(n, w) == IF w.op \in MergeLoads THEN old_value(n, w.reg) ELSE w.arg
Active(n, w) ==
  /\ At(w) \in Mem
  /\ \/ w.op \in MergeLoads /\ w.reg # ZERO
     \/ w.op \in MergeStores /\ ~n.cop0.isolated

\* Of a part that was moved register and memory agree on every byte.
Moved(n, w) ==
  Active(n, w) =>
    \A b \in Part(w.op, At(w)) : lane(Value(n, w), b - First(w.op, At(w))) = n.mem[b]

\* Two entries that have moved parts of the same word of memory to or from the
\* same register.
Paired(x, w) ==
  /\ \/ x.op \in MergeLoads /\ w.op \in MergeLoads /\ x.reg = w.reg
     \/ x.op \in MergeStores /\ w.op \in MergeStores /\ x.arg = w.arg
  /\ First(x.op, At(x)) = First(w.op, At(w))

\* A part is inside the word it is a part of, and inside a word of memory.
LEMMA PartOf ==
  ASSUME Layout, NEW op, NEW q \in Mem, NEW b \in Part(op, q)
  PROVE  b \in Mem /\ b - First(op, q) \in 0 .. 3 /\ First(op, q) \in Int
         /\ First(op, q) + (b - First(op, q)) = b
<1>1. PICK x \in Nat, y \in Nat : RamSize = 4 * x /\ ScratchSize = 4 * y
  BY DEF Layout
<1>2. q \in Nat /\ q < 4 * x + 4 * y
  BY <1>1 DEF Mem, Ram, ScratchPad
<1>3. Around(q) \in Nat /\ q - Around(q) \in 0 .. 3 /\ Around(q) + 3 < 4 * x + 4 * y
  BY <1>1, <1>2 DEF Around
<1>4. b \in Around(q) .. Around(q) + 3 /\ b \in Nat
  BY <1>2, <1>3 DEF Part
<1>5. b \in Mem
  BY <1>1, <1>3, <1>4 DEF Mem, Ram, ScratchPad
<1>6. b - First(op, q) \in 0 .. 3 /\ First(op, q) \in Int
  <2>1. CASE op \in Lefts
    <3>1. b \in Around(q) .. q /\ First(op, q) = q - 3
      BY <2>1 DEF Part, First
    <3> QED
      BY <1>2, <1>3, <3>1
  <2>2. CASE op \notin Lefts
    <3>1. b \in q .. Around(q) + 3 /\ First(op, q) = q
      BY <2>2 DEF Part, First
    <3> QED
      BY <1>2, <1>3, <3>1
  <2> QED
    BY <2>1, <2>2
<1>7. First(op, q) + (b - First(op, q)) = b
  BY <1>4, <1>6
<1> QED
  BY <1>5, <1>6, <1>7

\* One of the four instructions moves its part, and leaves what the other one of
\* a pair has moved.
LEMMA Moving ==
  ASSUME Sizes, Numbers, Registers, NEW n \in Machine, NEW i, Fields_(i), Known(i),
         NEW w, w.op = i.op, w.addr = effective_addr(n, i), w.arg = n.regs[i.rt], w.reg \in {ZERO, i.rt},
         NEW e, e = exec(n, i), Active(e, w)
  PROVE  Moved(e, w) /\ \A x : Paired(x, w) /\ Moved(n, x) => Moved(e, x)
<1> DEFINE q == At(w)
<1>1. q = regioned_addr(effective_addr(n, i)) /\ q \in Mem /\ Layout
  BY DEF Active, At, Sizes
<1> HIDE DEF q
<1>2. ASSUME NEW b \in Part(w.op, q) PROVE b \in Mem /\ b - First(w.op, q) \in 0 .. 3 /\ First(w.op, q) + (b - First(w.op, q)) = b
  BY <1>1, PartOf
<1>3. ASSUME NEW x, At(x) \in Mem, NEW b \in Part(x.op, At(x)), Paired(x, w)
      PROVE  b \in Mem /\ b - First(x.op, At(x)) \in 0 .. 3 /\ First(w.op, q) + (b - First(x.op, At(x))) = b
  <2>1. First(x.op, At(x)) = First(w.op, q)
    BY <1>3 DEF Paired, q
  <2> QED
    BY <1>1, <1>3, <2>1, PartOf
<1>4. CASE w.op \in MergeLoads
  <2>1. w.reg = i.rt /\ i.rt # ZERO /\ i.op \in {"lwl", "lwr"}
    BY <1>4 DEF Active, MergeLoads, MergeStores
  <2>2. /\ e.mem = n.mem
        /\ \A k \in 0 .. 3 :
             lane(old_value(e, i.rt), k) = IF First(i.op, q) + k \in Part(i.op, q)
                                             THEN n.mem[First(i.op, q) + k] ELSE lane(old_value(n, i.rt), k)
    BY <1>1, <2>1, LoadMoves DEF Quiet
  <2>3. Moved(e, w)
    <3> SUFFICES ASSUME NEW b \in Part(w.op, q) PROVE lane(old_value(e, i.rt), b - First(w.op, q)) = e.mem[b]
      BY <1>4, <2>1 DEF Moved, Value, q
    <3> QED
      BY <1>2, <2>2
  <2>4. ASSUME NEW x, Paired(x, w), Moved(n, x) PROVE Moved(e, x)
    <3>1. x.op \in MergeLoads /\ x.reg = i.rt
      BY <1>4, <2>1, <2>4 DEF Paired, MergeLoads, MergeStores
    <3> SUFFICES ASSUME Active(e, x), NEW b \in Part(x.op, At(x))
                 PROVE  lane(old_value(e, i.rt), b - First(x.op, At(x))) = e.mem[b]
      BY <3>1 DEF Moved, Value
    <3>2. Active(n, x) /\ At(x) \in Mem
      BY <2>1, <3>1 DEF Active
    <3>3. lane(old_value(n, i.rt), b - First(x.op, At(x))) = n.mem[b]
      BY <2>4, <3>1, <3>2 DEF Moved, Value
    <3> DEFINE k == b - First(x.op, At(x))
    <3>4. k \in 0 .. 3 /\ First(w.op, q) + k = b
      BY <1>3, <2>4, <3>2
    <3> HIDE DEF k
    <3>5. lane(old_value(e, i.rt), k) = IF b \in Part(i.op, q) THEN n.mem[b] ELSE lane(old_value(n, i.rt), k)
      BY <2>2, <3>4
    <3> QED
      BY <2>2, <3>3, <3>5 DEF k
  <2> QED
    BY <2>3, <2>4
<1>5. CASE w.op \in MergeStores
  <2>1. i.op \in {"swl", "swr"} /\ ~e.cop0.isolated
    BY <1>5 DEF Active, MergeLoads, MergeStores
  <2>2. /\ e.cop0 = n.cop0
        /\ ~n.cop0.isolated =>
             \A b \in Mem : e.mem[b] = IF b \in Part(i.op, q) THEN lane(n.regs[i.rt], b - First(i.op, q)) ELSE n.mem[b]
    BY <1>1, <2>1, StoreMoves
  <2>3. \A b \in Mem : e.mem[b] = IF b \in Part(w.op, q) THEN lane(w.arg, b - First(w.op, q)) ELSE n.mem[b]
    BY <2>1, <2>2
  <2>4. Moved(e, w)
    <3> SUFFICES ASSUME NEW b \in Part(w.op, q) PROVE lane(w.arg, b - First(w.op, q)) = e.mem[b]
      BY <1>5 DEF Moved, Value, q, MergeLoads, MergeStores
    <3> QED
      BY <1>2, <2>3
  <2>5. ASSUME NEW x, Paired(x, w), Moved(n, x) PROVE Moved(e, x)
    <3>1. x.op \in MergeStores /\ x.op \notin MergeLoads /\ x.arg = w.arg /\ First(x.op, At(x)) = First(w.op, q)
      BY <1>5, <2>5 DEF Paired, MergeLoads, MergeStores, q
    <3> SUFFICES ASSUME Active(e, x), NEW b \in Part(x.op, At(x))
                 PROVE  lane(w.arg, b - First(w.op, q)) = e.mem[b]
      BY <3>1 DEF Moved, Value
    <3>2. Active(n, x) /\ At(x) \in Mem
      BY <2>1, <2>2, <3>1 DEF Active
    <3>3. lane(w.arg, b - First(w.op, q)) = n.mem[b]
      BY <2>5, <3>1, <3>2 DEF Moved, Value
    <3>4. b \in Mem
      BY <1>3, <2>5, <3>2
    <3> QED
      BY <2>3, <3>3, <3>4
  <2> QED
    BY <2>4, <2>5
<1> QED
  BY <1>4, <1>5 DEF Active

\* A step between two instructions of a pair: an interrupt or a refused
\* instruction.
Still(n, e) ==
  /\ e.mem = n.mem /\ e.cop0.isolated = n.cop0.isolated
  /\ \A r \in Regs \ {ZERO} : old_value(e, r) = old_value(n, r)

LEMMA StillMoved ==
  ASSUME NEW n, NEW e, Still(n, e), NEW w, Noted(w)
  PROVE  Active(e, w) = Active(n, w) /\ (Moved(n, w) => Moved(e, w))
<1>1. Active(e, w) = Active(n, w)
  BY DEF Still, Active
<1>2. Active(n, w) => Value(e, w) = Value(n, w)
  BY DEF Still, Active, Value, Noted, MergeLoads, MergeStores
<1> QED
  BY <1>1, <1>2 DEF Moved, Still

\* Registers after the pending load was delivered, or was left alone.
LEMMA StillRegs ==
  ASSUME NEW n, Shape(n), NEW e, NEW r \in Regs \ {ZERO},
         \/ e.regs = n.regs /\ e.load_delay = n.load_delay
         \/ e.regs = Delivered(n) /\ e.load_delay.reg = ZERO
  PROVE  old_value(e, r) = old_value(n, r)
<1>1. n.regs = [x \in Regs |-> n.regs[x]]
  BY DEF Shape
<1>2. CASE e.regs = n.regs /\ e.load_delay = n.load_delay
  BY <1>2 DEF old_value
<1>3. CASE e.regs = Delivered(n) /\ e.load_delay.reg = ZERO
  <2>1. old_value(e, r) = Delivered(n)[r]
    BY <1>3 DEF old_value
  <2>2. Delivered(n)[r] = old_value(n, r)
    BY <1>1 DEF Delivered, Put, old_value
  <2> QED
    BY <2>1, <2>2
<1> QED
  BY <1>2, <1>3

\* What is known of memory and registers after a history.
Unaligned(n, h) ==
  /\ \A k \in DOMAIN h : Noted(h[k])
  /\ \A k : LastOf(h, k) => Moved(n, h[k])
  /\ \A j, k : LastTwoOf(h, j, k) /\ Paired(h[j], h[k]) /\ Active(n, h[k]) => Moved(n, h[j])

\* The history is the same, or has an interrupt more.
LEMMA StillUnaligned ==
  ASSUME NEW n, NEW e, NEW h, Unaligned(n, h), Still(n, e) PROVE Unaligned(e, h)
<1>1. ASSUME NEW k \in DOMAIN h
      PROVE  Active(e, h[k]) = Active(n, h[k]) /\ (Moved(n, h[k]) => Moved(e, h[k]))
  BY StillMoved DEF Unaligned
<1>2. \A k : LastOf(h, k) => Moved(e, h[k])
  BY <1>1 DEF Unaligned, LastOf
<1>3. \A j, k : LastTwoOf(h, j, k) /\ Paired(h[j], h[k]) /\ Active(e, h[k]) => Moved(e, h[j])
  BY <1>1 DEF Unaligned, LastTwoOf
<1> QED
  BY <1>2, <1>3 DEF Unaligned

LEMMA PassedUnaligned ==
  ASSUME NEW n, NEW h, IsHistory(h), Unaligned(n, h), NEW w, w.op = "interrupt", Noted(w)
  PROVE  Unaligned(n, Append(h, w))
<1> DEFINE g == Append(h, w)
           L == Len(h)
<1>1. /\ L \in Nat /\ Len(g) = L + 1 /\ DOMAIN h = 1 .. L /\ DOMAIN g = 1 .. L + 1
      /\ g[L + 1] = w /\ \A k \in 1 .. L : g[k] = h[k]
  BY Longer
<1> HIDE DEF g, L
<1>2. \A k \in DOMAIN g : Noted(g[k])
  <2>1. DOMAIN g = DOMAIN h \cup {L + 1}
    BY <1>1
  <2> QED
    BY <1>1, <2>1 DEF Unaligned
<1>3. ASSUME NEW k, LastOf(g, k) PROVE LastOf(h, k) /\ g[k] = h[k]
  <2>1. k \in 1 .. L + 1 /\ k # L + 1
    BY <1>1, <1>3 DEF LastOf
  <2>2. k \in 1 .. L
    BY <1>1, <2>1
  <2>3. \A l \in k .. L : l \in k .. L + 1 /\ l \in 1 .. L
    BY <1>1, <2>2
  <2>4. \A l \in k .. L : h[l].op = "interrupt" <=> l # k
    BY <1>1, <1>3, <2>3 DEF LastOf
  <2> QED
    BY <1>1, <2>2, <2>4 DEF LastOf, L
<1>4. ASSUME NEW j, NEW k, LastTwoOf(g, j, k) PROVE LastTwoOf(h, j, k) /\ g[j] = h[j] /\ g[k] = h[k]
  <2>1. j \in 1 .. L + 1 /\ k \in 1 .. L + 1 /\ j < k /\ k # L + 1
    <3>1. L + 1 \in j .. L + 1 /\ L + 1 \in {j, k} => g[L + 1].op # "interrupt"
      BY <1>1, <1>4 DEF LastTwoOf
    <3> QED
      BY <1>1, <1>4, <3>1 DEF LastTwoOf
  <2>2. j \in 1 .. L /\ k \in 1 .. L
    BY <1>1, <2>1
  <2>3. \A l \in j .. L : l \in j .. L + 1 /\ l \in 1 .. L
    BY <1>1, <2>2
  <2>4. \A l \in j .. L : h[l].op = "interrupt" <=> l \notin {j, k}
    BY <1>1, <1>4, <2>3 DEF LastTwoOf
  <2> QED
    BY <1>1, <2>1, <2>2, <2>4 DEF LastTwoOf, L
<1> QED
  BY <1>2, <1>3, <1>4 DEF Unaligned, g

\* The history has one more instruction, which has moved its part, and has left
\* what the one before it has moved.
LEMMA NextUnaligned ==
  ASSUME NEW n, NEW e, NEW h, IsHistory(h), Unaligned(n, h), NEW w, w.op # "interrupt", Noted(w), Moved(e, w),
         \A x : Paired(x, w) /\ Active(e, w) /\ Moved(n, x) => Moved(e, x)
  PROVE  Unaligned(e, Append(h, w))
<1> DEFINE g == Append(h, w)
           L == Len(h)
<1>1. /\ L \in Nat /\ Len(g) = L + 1 /\ DOMAIN h = 1 .. L /\ DOMAIN g = 1 .. L + 1
      /\ g[L + 1] = w /\ \A k \in 1 .. L : g[k] = h[k]
  BY Longer
<1> HIDE DEF g, L
<1>2. \A k \in DOMAIN g : Noted(g[k])
  <2>1. DOMAIN g = DOMAIN h \cup {L + 1}
    BY <1>1
  <2> QED
    BY <1>1, <2>1 DEF Unaligned
<1>3. ASSUME NEW k, LastOf(g, k) PROVE k = L + 1
  <2>1. k \in 1 .. L + 1 /\ L + 1 \in k .. L + 1
    BY <1>1, <1>3 DEF LastOf
  <2> QED
    BY <1>1, <1>3, <2>1 DEF LastOf
<1>4. ASSUME NEW j, NEW k, LastTwoOf(g, j, k) PROVE k = L + 1 /\ LastOf(h, j) /\ g[j] = h[j]
  <2>1. j \in 1 .. L + 1 /\ k \in 1 .. L + 1 /\ j < k /\ L + 1 \in j .. L + 1
    BY <1>1, <1>4 DEF LastTwoOf
  <2>2. L + 1 \in {j, k}
    BY <1>1, <1>4, <2>1 DEF LastTwoOf
  <2>3. k = L + 1 /\ j \in 1 .. L
    BY <1>1, <2>1, <2>2
  <2>4. \A l \in j .. L : l \in j .. L + 1 /\ l \in 1 .. L /\ l # k
    BY <1>1, <2>3
  <2>5. \A l \in j .. L : h[l].op = "interrupt" <=> l # j
    BY <1>1, <1>4, <2>4 DEF LastTwoOf
  <2> QED
    BY <1>1, <2>3, <2>5 DEF LastOf, L
<1>5. \A k : LastOf(g, k) => Moved(e, g[k])
  BY <1>1, <1>3
<1>6. \A j, k : LastTwoOf(g, j, k) /\ Paired(g[j], g[k]) /\ Active(e, g[k]) => Moved(e, g[j])
  BY <1>1, <1>4 DEF Unaligned
<1> QED
  BY <1>2, <1>5, <1>6 DEF Unaligned, g

\* The other end of a word.
LEMMA FarEnd ==
  ASSUME Layout, Numbers, NEW addr \in WordValues, NEW p, p = regioned_addr(addr), p .. p + 3 \subseteq Mem
  PROVE  /\ p \in Nat /\ p \in Mem /\ p + 3 \in Mem /\ regioned_addr(wrap(addr + 3)) = p + 3
         /\ \A b \in p .. p + 3 : b <= Around(p + 3) - 1 => b \in Part("lwr", p) /\ b \in Part("swr", p)
         /\ \A b \in p .. p + 3 : b >= Around(p + 3) => b \in Part("lwl", p + 3) /\ b \in Part("swl", p + 3)
<1>1. addr \in Nat /\ addr < Word /\ Word = 8 * K /\ K \in Nat \ {0}
  BY DEF WordValues, Numbers, Layout
<1>2. p \in Nat /\ p = CASE Region(addr) = 4 -> addr - 4 * K [] Region(addr) = 5 -> addr - 5 * K [] OTHER -> addr
  BY <1>1, Regioned
<1>3. p \in Mem /\ p + 3 \in Mem
  BY <1>2
<1>4. p + 3 < K
  BY <1>2, <1>3 DEF Mem, Ram, ScratchPad, Layout
<1> DEFINE up == addr + 3
<1>5. Region(addr) = addr \div K
  BY DEF Region, K
<1>6. up < 6 * K /\ \/ addr = p + 4 * K
                    \/ addr = p + 5 * K
                    \/ addr = p
  BY <1>1, <1>2, <1>4
<1>7. wrap(up) = up /\ up \in Nat
  <2> HIDE DEF K
  <2> QED
    BY <1>1, <1>6 DEF wrap
<1>8. regioned_addr(up) = p + 3
  <2>1. regioned_addr(up) = CASE Region(up) = 4 -> up - 4 * K [] Region(up) = 5 -> up - 5 * K [] OTHER -> up
    BY <1>7, Regioned
  <2>2. Region(up) = up \div K
    BY DEF Region, K
  <2> HIDE DEF K
  <2>3. CASE addr = p + 4 * K
    <3>1. 4 * K <= up /\ up < 4 * K + K /\ up \in Nat
      BY <1>1, <1>2, <1>4, <1>7, <2>3
    <3>2. up \div K = 4
      BY <1>1, <3>1, Remainder
    <3> QED
      BY <1>1, <1>2, <2>1, <2>2, <2>3, <3>2
  <2>4. CASE addr = p + 5 * K
    <3>1. 5 * K <= up /\ up < 5 * K + K /\ up \in Nat
      BY <1>1, <1>2, <1>4, <1>7, <2>4
    <3>2. up \div K = 5
      BY <1>1, <3>1, Remainder
    <3> QED
      BY <1>1, <1>2, <2>1, <2>2, <2>4, <3>2
  <2>5. CASE addr = p
    <3>1. 0 * K <= up /\ up < 0 * K + K /\ up \in Nat
      BY <1>1, <1>2, <1>4, <1>7, <2>5
    <3>2. up \div K = 0
      BY <1>1, <3>1, Remainder
    <3> QED
      BY <1>1, <1>2, <2>1, <2>2, <2>5, <3>2
  <2> QED
    BY <1>6, <2>3, <2>4, <2>5
<1>9. Around(p) + 3 >= Around(p + 3) - 1
  BY <1>2 DEF Around
<1>10. Around(p) \in Int /\ Around(p + 3) \in Int
  BY <1>2 DEF Around
<1>11. \A b \in p .. p + 3 : b <= Around(p + 3) - 1 => b \in Part("lwr", p) /\ b \in Part("swr", p)
  BY <1>2, <1>9, <1>10 DEF Part, Lefts
<1>12. \A b \in p .. p + 3 : b >= Around(p + 3) => b \in Part("lwl", p + 3) /\ b \in Part("swl", p + 3)
  BY <1>2, <1>10 DEF Part, Lefts
<1> QED
  BY <1>2, <1>3, <1>7, <1>8, <1>11, <1>12

\* A value that agrees with the word in memory on every byte is that word.
LEMMA SameWord ==
  ASSUME Layout, Numbers, NEW mem \in [Mem -> ByteValues], NEW p \in Nat, p .. p + 3 \subseteq Mem,
         NEW v \in WordValues, \A b \in p .. p + 3 : lane(v, b - p) = mem[b]
  PROVE  load_unchecked(mem, 4, p) = v
<1>1. /\ p + 0 \in p .. p + 3 /\ p + 1 \in p .. p + 3 /\ p + 2 \in p .. p + 3 /\ p + 3 \in p .. p + 3
      /\ (p + 0) - p = 0 /\ (p + 1) - p = 1 /\ (p + 2) - p = 2 /\ (p + 3) - p = 3 /\ p + 0 = p
  OBVIOUS
<1>2. lane(v, 0) = mem[p] /\ lane(v, 1) = mem[p + 1] /\ lane(v, 2) = mem[p + 2] /\ lane(v, 3) = mem[p + 3]
  BY <1>1
<1>3. load_unchecked(mem, 4, p) = Made(mem[p], mem[p + 1], mem[p + 2], mem[p + 3])
  BY LoadedLane
<1> QED
  BY <1>2, <1>3, MadeFrom

LEMMA WordMoved ==
  ASSUME Layout, Numbers, NEW n \in Machine, NEW a, Noted(a), NEW b, Noted(b), NEW p, p = At(b),
         Ends(a, b, b.addr), p .. p + 3 \subseteq Mem,
         \/ a.op = "lwl" /\ b.op = "lwr"
         \/ a.op = "swl" /\ b.op = "swr",
         Active(n, a), Active(n, b), Moved(n, a), Moved(n, b),
         NEW v \in WordValues, Value(n, a) = v, Value(n, b) = v
  PROVE  load_unchecked(n.mem, 4, p) = v
<1>1. /\ p \in Nat /\ p \in Mem /\ p + 3 \in Mem /\ At(a) = p + 3
      /\ \A c \in p .. p + 3 : c <= Around(p + 3) - 1 => c \in Part("lwr", p) /\ c \in Part("swr", p)
      /\ \A c \in p .. p + 3 : c >= Around(p + 3) => c \in Part("lwl", p + 3) /\ c \in Part("swl", p + 3)
  BY FarEnd DEF Noted, At, Ends
<1>2. First(a.op, At(a)) = p /\ First(b.op, At(b)) = p
  BY <1>1 DEF First, Lefts
<1>3. ASSUME NEW c \in p .. p + 3 PROVE lane(v, c - p) = n.mem[c]
  <2>1. Around(p + 3) \in Int
    BY <1>1 DEF Around
  <2>2. CASE c <= Around(p + 3) - 1
    <3>1. c \in Part(b.op, At(b))
      BY <1>1, <2>2
    <3> QED
      BY <1>2, <3>1 DEF Moved
  <2>3. CASE c >= Around(p + 3)
    <3>1. c \in Part(a.op, At(a))
      BY <1>1, <2>3
    <3> QED
      BY <1>2, <3>1 DEF Moved
  <2> QED
    BY <1>1, <2>1, <2>2, <2>3
<1>4. n.mem \in [Mem -> ByteValues]
  BY DEF Machine
<1> QED
  BY <1>1, <1>3, <1>4, SameWord

LEMMA UnalignedMeans ==
  ASSUME Layout, Numbers, NEW n \in Machine, NEW h, IsHistory(h), Unaligned(n, h),
         NEW j, NEW k, LastTwoOf(h, j, k), NEW a \in {h[j], h[k]}, NEW b \in {h[j], h[k]}, NEW p, p = regioned_addr(b.addr),
         Ends(a, b, b.addr), p .. p + 3 \subseteq Mem
  PROVE  WordLoaded(n, a, b, p) /\ WordStored(n, a, b, p)
<1>1. Noted(a) /\ Noted(b) /\ p = At(b)
  BY DEF Unaligned, LastTwoOf, At
<1>2. p \in Nat /\ p \in Mem /\ p + 3 \in Mem /\ At(a) = p + 3
  BY <1>1, FarEnd DEF Noted, At, Ends
<1>3. LastOf(h, k)
  <2>1. j \in DOMAIN h /\ k \in DOMAIN h /\ j < k
    BY DEF LastTwoOf
  <2>2. ASSUME NEW l \in k .. Len(h) PROVE h[l].op = "interrupt" <=> l # k
    <3>1. DOMAIN h \subseteq Nat /\ Len(h) \in Nat
      BY DEF IsHistory
    <3>2. l \in j .. Len(h) /\ l # j
      BY <2>1, <2>2, <3>1
    <3> QED
      BY <3>2 DEF LastTwoOf
  <2> QED
    BY <2>1, <2>2 DEF LastOf
<1>4. ASSUME \/ a.op = "lwl" /\ b.op = "lwr"
             \/ a.op = "swl" /\ b.op = "swr",
             Active(n, a), Active(n, b), Paired(a, b), Paired(b, a)
      PROVE  Moved(n, a) /\ Moved(n, b)
  <2>1. (a = h[j] /\ b = h[k]) \/ (a = h[k] /\ b = h[j])
    BY <1>4
  <2> QED
    BY <1>3, <1>4, <2>1 DEF Unaligned
<1>5. First("lwl", p + 3) = p /\ First("swl", p + 3) = p /\ First("lwr", p) = p /\ First("swr", p) = p
  BY <1>2 DEF First, Lefts
<1>6. WordLoaded(n, a, b, p)
  <2> SUFFICES ASSUME a.op = "lwl", b.op = "lwr", a.reg # ZERO, a.reg = b.reg
               PROVE  old_value(n, a.reg) = load_unchecked(n.mem, 4, p)
    BY DEF WordLoaded
  <2>1. Active(n, a) /\ Active(n, b) /\ Paired(a, b) /\ Paired(b, a)
    BY <1>1, <1>2, <1>5 DEF Active, Paired, MergeLoads
  <2>2. Value(n, a) = old_value(n, a.reg) /\ Value(n, b) = old_value(n, a.reg)
    BY DEF Value, MergeLoads
  <2>3. old_value(n, a.reg) \in WordValues
    BY <1>1 DEF old_value, Machine, Noted
  <2> QED
    BY <1>1, <1>4, <2>1, <2>2, <2>3, WordMoved
<1>7. WordStored(n, a, b, p)
  <2> SUFFICES ASSUME a.op = "swl", b.op = "swr", a.arg = b.arg, ~n.cop0.isolated
               PROVE  load_unchecked(n.mem, 4, p) = a.arg
    BY DEF WordStored
  <2>1. Active(n, a) /\ Active(n, b) /\ Paired(a, b) /\ Paired(b, a)
    BY <1>1, <1>2, <1>5 DEF Active, Paired, MergeStores
  <2>2. Value(n, a) = a.arg /\ Value(n, b) = a.arg /\ a.arg \in WordValues
    BY <1>1 DEF Value, MergeLoads, Noted
  <2> QED
    BY <1>1, <1>4, <2>1, <2>2, WordMoved
<1> QED
  BY <1>6, <1>7

\* One instruction or interrupt of the data guest.
LEMMA ExecMachine ==
  ASSUME Numbers, Sizes, Registers, NEW n \in Machine, NEW i, Known(i), Fields_(i) PROVE exec(n, i) \in Machine
BY ExecEffect, UnalignedMachine

LEMMA ThrownStill ==
  ASSUME Numbers, NEW a \in Machine, NEW e, Refused(next_pc(a), e) \/ Trapped(next_pc(a), e) PROVE Still(a, e)
<1> DEFINE n == next_pc(a)
<1>1. Shape(a)
  BY MachineShape
<1>2. Shape(n) /\ n.regs = a.regs /\ n.load_delay = a.load_delay
  BY <1>1, Advance
<1>3. n.mem = a.mem /\ n.cop0 = a.cop0
  BY NextPc DEF Quiet
<1>4. Thrown(n, e)
  BY DEF Refused, Trapped
<1>5. Refused(n, e) \/ Trapped(n, e)
  OBVIOUS
<1> HIDE DEF n
<1>6. e.mem = a.mem /\ e.cop0.isolated = a.cop0.isolated
  BY <1>3, <1>4 DEF Thrown, Same, MachineFields
<1>7. ASSUME NEW r \in Regs \ {ZERO} PROVE old_value(e, r) = old_value(a, r)
  <2>1. \/ e.regs = n.regs /\ e.load_delay = n.load_delay
        \/ e.regs = Delivered(n) /\ e.load_delay.reg = ZERO
    BY <1>5 DEF Refused, Trapped, NoLoad
  <2>2. old_value(e, r) = old_value(n, r)
    BY <1>2, <2>1, StillRegs
  <2> QED
    BY <1>2, <2>2 DEF old_value
<1> QED
  BY <1>6, <1>7 DEF Still

\* What is noted of an instruction fits it.
LEMMA WroteNoted ==
  ASSUME Numbers, Registers, NEW n \in Machine, NEW i, Known(i), Fields_(i)
  PROVE  LET w == Wrote(n, i)
         IN  /\ w.op = i.op /\ w.op # "interrupt" /\ w.addr = effective_addr(n, i) /\ w.arg = n.regs[i.rt]
             /\ Noted(w) /\ (i.op \in MergeLoads \cup MergeStores => w.reg \in {ZERO, i.rt})
<1> DEFINE w == Wrote(n, i)
<1>1. w.op = i.op /\ w.addr = effective_addr(n, i) /\ w.arg = n.regs[i.rt] /\ w.reg \in {ZERO, Later(i), Now(i)}
  BY DEF Wrote
<1> HIDE DEF w
<1>2. w.op # "interrupt"
  BY <1>1, FormDomains DEF Known
<1>3. i.op \in MergeLoads \cup MergeStores => Later(i) \in {ZERO, i.rt} /\ Now(i) = ZERO
  BY FormDomains DEF MergeLoads, MergeStores, Later, Now
<1>4. Later(i) \in Regs
  BY DEF Later, Known, Registers
<1>5. Now(i) \in Regs
  BY FormDomains DEF Now, Known, Registers
<1>6. w.addr \in WordValues /\ w.arg \in WordValues
  BY <1>1, AddrWord DEF Machine, Fields_
<1> QED
  BY <1>1, <1>2, <1>3, <1>4, <1>5, <1>6 DEF Noted, Registers, w

LEMMA DataExecute ==
  ASSUME Parameters, Numbers, Sizes, Registers, guest.kind = "data", m \in Machine, IsHistory(log.hist),
         Unaligned(m, log.hist), Execute
  PROVE  m' \in Machine /\ Unaligned(m', log'.hist)
<1> DEFINE n == next_pc(m)
           f == fetch(n, m.pc)
<1>1. PICK i \in Meaning(f) : m' = execute_instruction(m, i) /\ log' = Logged(i)
  BY DEF Execute
<1>2. /\ n \in Machine /\ n.mem = m.mem /\ n.cop0 = m.cop0 /\ Shape(m) /\ m.pc \in WordValues /\ m.pc \in Nat
      /\ n.regs = m.regs /\ n.load_delay = m.load_delay
  BY NextPc, MachineShape, Advance, WordIsNat DEF Quiet, Machine
<1>3. \A r : old_value(n, r) = old_value(m, r)
  BY <1>2 DEF old_value
<1>4. \A x : Active(n, x) = Active(m, x) /\ Moved(n, x) = Moved(m, x)
  BY <1>2, <1>3 DEF Active, Moved, Value
<1>5. f.exc \in Codes
  BY <1>2, Fetches
<1> DEFINE e == execute_instruction(m, i)
           w == Wrote(n, i)
<1>6. CASE f.exc # "none"
  <2>1. log'.hist = log.hist
    BY <1>1, <1>6 DEF Logged
  <2> DEFINE g == fetch_failed(n, m.pc, f.exc)
  <2>2. g \in Machine
    BY <1>2, <1>5, FetchFailedQuiet DEF Quiet
  <2>3. e \in Machine
    <3>1. g = IF f.exc = "none" THEN exec(n, i) ELSE fetch_failed(n, m.pc, f.exc)
      BY <1>6
    <3> HIDE DEF g
    <3> QED
      BY <2>2, <3>1, Advanced
  <2>4. Refused(n, e)
    <3>1. Refused(n, g)
      BY <1>2, <1>6, FetchFailed, MachineShape
    <3>2. n.last_pc = m.pc
      BY NextPc
    <3> DEFINE c == [g.icache EXCEPT ![line_idx(m.pc)] = set_tag(f.line, m.pc)]
    <3>3. e = IF f.miss THEN [g EXCEPT !.icache = c] ELSE g
      BY <1>6, <3>2 DEF execute_instruction
    <3> HIDE DEF g, c, e
    <3> QED
      BY <3>1, <3>3, Filling
  <2>5. Still(m, e)
    BY <2>4, ThrownStill
  <2> HIDE DEF e
  <2> QED
    BY <1>1, <2>1, <2>3, <2>5, StillUnaligned DEF e
<1>7. CASE f.exc = "none"
  <2>1. Known(i) /\ Fields_(i)
    <3>1. i \in Repertoire
      BY <1>7 DEF Meaning
    <3> QED
      BY <3>1 DEF Parameters, Known, Fields_, WordValues
  <2> DEFINE d == exec(n, i)
  <2>2. d \in Machine
    BY <1>2, <2>1, ExecMachine
  <2>3. e \in Machine /\ e.mem = d.mem /\ e.cop0 = d.cop0 /\ \A r : old_value(e, r) = old_value(d, r)
    BY <1>7, <2>2, Retired
  <2>4. \A x : Active(e, x) = Active(d, x) /\ Moved(e, x) = Moved(d, x)
    BY <2>3 DEF Active, Moved, Value
  <2>5. /\ w.op = i.op /\ w.op # "interrupt" /\ w.addr = effective_addr(n, i) /\ w.arg = n.regs[i.rt]
        /\ Noted(w) /\ (i.op \in MergeLoads \cup MergeStores => w.reg \in {ZERO, i.rt})
    BY <1>2, <2>1, WroteNoted
  <2>6. Executed(n, e, i)
    BY <1>2, <1>7, <2>1, InstructionExecuted
  <2>7. log'.hist = IF Threw(n, i) /\ LeavesPending(i) THEN log.hist ELSE Append(log.hist, w)
    BY <1>1, <1>7 DEF Logged
  <2> HIDE DEF e, d, w
  <2>8. CASE Threw(n, i) /\ LeavesPending(i)
    <3>1. Refused(n, e) \/ Trapped(n, e)
      BY <2>6, <2>8 DEF Executed
    <3>2. Still(m, e)
      BY <3>1, ThrownStill
    <3> QED
      BY <1>1, <2>3, <2>7, <2>8, <3>2, StillUnaligned DEF e
  <2>9. CASE ~(Threw(n, i) /\ LeavesPending(i))
    <3>1. ASSUME Active(d, w) PROVE Moved(d, w) /\ \A x : Paired(x, w) /\ Moved(n, x) => Moved(d, x)
      <4>1. w.reg \in {ZERO, i.rt}
        BY <2>5, <3>1 DEF Active
      <4> QED
        BY <1>2, <2>1, <2>5, <3>1, <4>1, Moving DEF d
    <3>2. Moved(d, w)
      BY <3>1 DEF Moved
    <3>3. Moved(e, w) /\ \A x : Paired(x, w) /\ Active(e, w) /\ Moved(m, x) => Moved(e, x)
      BY <1>4, <2>4, <3>1, <3>2
    <3>4. Unaligned(e, Append(log.hist, w))
      BY <2>5, <3>3, NextUnaligned
    <3> QED
      BY <1>1, <2>3, <2>7, <2>9, <3>4 DEF e
  <2> QED
    BY <2>8, <2>9
<1> QED
  BY <1>6, <1>7

LEMMA DataInterrupt ==
  ASSUME Numbers, Registers, m \in Machine, IsHistory(log.hist), Unaligned(m, log.hist), Interrupt
  PROVE  m' \in Machine /\ Unaligned(m', log'.hist)
<1> DEFINE n == next_pc(m)
           d == fetch_load_slot(n)
           e == throw_exception(d, "Interrupt")
           w == [op |-> "interrupt", reg |-> ZERO, late |-> FALSE, val |-> 0, addr |-> 0, arg |-> 0]
<1>1. m' = e /\ log'.hist = Append(log.hist, w)
  BY DEF Interrupt, interrupt
<1>2. n \in Machine /\ d \in Machine /\ e \in Machine
  <2>1. n \in Machine
    BY NextPc DEF Quiet
  <2>2. d \in Machine
    BY <2>1, SlotQuiet DEF Quiet
  <2> QED
    BY <2>1, <2>2, ThrowQuiet DEF Quiet, Codes
<1>3. Trapped(n, e)
  <2>1. Shape(n) /\ Shape(d)
    BY <1>2, MachineShape
  <2>2. Refused(d, e)
    BY <2>1, ThrowRefused
  <2> HIDE DEF n, e
  <2> QED
    BY <2>1, <2>2, RefusedAfter
<1>4. Still(m, e)
  BY <1>3, ThrownStill
<1>5. w.op = "interrupt" /\ Noted(w)
  BY WordIsNat DEF Noted, Registers
<1> HIDE DEF n, d, e, w
<1>6. Unaligned(e, log.hist)
  BY <1>4, StillUnaligned
<1> QED
  BY <1>1, <1>2, <1>5, <1>6, PassedUnaligned

\* The invariant: types, and what the last instructions have moved.
Merged == guest.kind = "data" => m \in Machine /\ Unaligned(m, log.hist)

\* UnalignedWord, for every program of known instructions, any registers, memory
\* and width of a word, and interrupts between any two instructions: LWL and LWR
\* (`op_lwl`, `op_lwr`, with what `load_delay` still holds) and SWL and SWR
\* (`op_swl`, `op_swr`) at the two ends of a word, in either order, together move
\* exactly that word.
THEOREM UnalignedAccesses == Spec => []UnalignedWord
<1> USE PipelineAssumption
<1>1. Numbers /\ Sizes /\ Registers /\ Layout
  BY NumbersHold, SizesHold, LayoutHolds, InstructionsAssumption DEF Registers
<1>2. Init => Merged
  <2> SUFFICES ASSUME Init, guest.kind = "data" PROVE m \in Machine /\ Unaligned(m, log.hist)
    BY DEF Merged
  <2>1. PICK r \in FirstRegs : m = Boot(r, FirstMem, 0)
    BY DEF Init, InitData, InitCode, InitSource
  <2>2. r \in [Regs -> WordValues] /\ FirstMem \in [Mem -> ByteValues]
    BY <2>1 DEF Parameters, Mem, WordValues, ByteValues
  <2>3. m \in Machine
    BY <1>1, <2>1, <2>2, BootMachine
  <2>4. log.hist = <<>> /\ DOMAIN <<>> = {}
    BY EmptySeq DEF Init, NoLog
  <2> QED
    BY <2>3, <2>4 DEF Unaligned, LastOf, LastTwoOf
<1>3. Merged /\ Delay /\ [Next]_vars => Merged'
  <2> SUFFICES ASSUME Merged, Delay, [Next]_vars, guest'.kind = "data"
               PROVE  m' \in Machine /\ Unaligned(m', log'.hist)
    BY DEF Merged
  <2>1. guest' = guest
    BY DEF Next, Execute, Interrupt, vars
  <2>2. m \in Machine /\ Unaligned(m, log.hist) /\ IsHistory(log.hist) /\ guest.kind = "data"
    BY <2>1 DEF Merged, Delay
  <2>3. CASE Execute
    BY <1>1, <2>2, <2>3, DataExecute
  <2>4. CASE Interrupt
    BY <1>1, <2>2, <2>4, DataInterrupt
  <2>5. CASE UNCHANGED vars
    BY <2>2, <2>5 DEF vars
  <2> QED
    BY <2>3, <2>4, <2>5 DEF Next
<1>4. Merged /\ Delay => UnalignedWord
  <2> SUFFICES ASSUME Merged, Delay, guest.kind = "data",
                      NEW j \in DOMAIN log.hist, NEW k \in DOMAIN log.hist, LastTwoOf(log.hist, j, k),
                      NEW a \in {log.hist[j], log.hist[k]}, NEW b \in {log.hist[j], log.hist[k]},
                      NEW p, p = regioned_addr(b.addr),
                      Ends(a, b, b.addr), p .. p + 3 \subseteq DOMAIN m.mem
               PROVE  WordLoaded(m, a, b, p) /\ WordStored(m, a, b, p)
    BY DEF UnalignedWord
  <2>1. m \in Machine /\ Unaligned(m, log.hist) /\ IsHistory(log.hist)
    BY DEF Merged, Delay
  <2>2. DOMAIN m.mem = Mem
    BY <2>1 DEF Machine
  <2> QED
    BY <1>1, <2>1, <2>2, UnalignedMeans
<1>5. Init => Delay
  BY InitDelay
<1>6. Delay /\ [Next]_vars => Delay'
  BY DelayStep
<1> QED
  BY <1>2, <1>3, <1>4, <1>5, <1>6, PTL DEF Spec
=============================================================================
