------------------------------- MODULE Words -------------------------------
(***************************************************************************)
(* Machine words, scaled down: a byte has ByteBits bits, a half word two   *)
(* bytes and a word four, so that every byte lane, sign bit and carry of   *)
(* the 32 bit machine exists in a word small enough for TLC.  A word is a  *)
(* natural number below Word; memory is little endian.                     *)
(***************************************************************************)
EXTENDS Integers, FiniteSetsExt

CONSTANT ByteBits

ASSUME WordsAssumption == ByteBits \in Nat \ {0}

Byte == 2 ^ ByteBits
Half == Byte * Byte
WordBits == 4 * ByteBits
Word == Half * Half

wrap(v) == v % Word

\* Sign extension: of a word to an integer, of a byte and a half to a word.
signed(v) == IF v >= Word \div 2 THEN v - Word ELSE v
sign_byte(v) == IF v >= Byte \div 2 THEN Word - Byte + v ELSE v
sign_half(v) == IF v >= Half \div 2 THEN Word - Half + v ELSE v

bit(v, i) == (v \div 2 ^ i) % 2

\* The word whose set bits are those of S.
word_of(S) == MapThenSumSet(LAMBDA i : 2 ^ i, S)

\* What these powers and sums are, as follows from their recursive definitions.
ASSUME PowersAssumption ==
  /\ \A b \in 0 .. WordBits : 2 ^ b \in Nat \ {0}
  /\ Byte ^ 0 = 1 /\ Byte ^ 1 = Byte /\ Byte ^ 2 = Half /\ Byte ^ 3 = Half * Byte /\ Byte ^ 4 = Word
  /\ \A S \in SUBSET (0 .. WordBits - 1) : word_of(S) \in 0 .. Word - 1

\* Byte lane n of a word, and the word with lane n taken from w(n).
lane(v, n) == (v \div Byte ^ n) % Byte
lanes(w(_)) == w(0) + Byte * w(1) + Half * w(2) + Half * Byte * w(3)

\* A shift by whole bytes, as in `word << 16` and `val >> 24`.
left(v, bytes) == wrap(v * Byte ^ bytes)
right(v, bytes) == v \div Byte ^ bytes

\* A word with the low lanes of one value and the high ones of another.
join(low, high, n) == (low % Byte ^ n) + (high - (high % Byte ^ n))
=============================================================================
