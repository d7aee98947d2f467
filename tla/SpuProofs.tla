----------------------------- MODULE SpuProofs -----------------------------
(***************************************************************************)
(* Proofs about Spu, for any voices, contents of RAM and register values:  *)
(* the FIFO of every voice holds exactly the samples to be played, its     *)
(* envelope follows its key, and a disabled SPU is silent.                 *)
(***************************************************************************)
EXTENDS Spu, SequenceTheorems, TLAPS

Slot == 0 .. FifoSize - 1
FifoType == [data : [Slot -> Nat], head : Slot, tail : Slot]

\* Fields of which only their being there matters are said to be what they are.
VoiceOK(v) ==
  v \in [addr : Nat, counter : {0}, flags : {v.flags}, env : {v.env}, phase : Phases,
         target : {v.target}, vol : {v.vol}, fifo : FifoType,
         ignore_loop_addr : {v.ignore_loop_addr}, start_delay : {v.start_delay},
         rate : Nat, start : Nat, repeat : Nat, adsr : {v.adsr}]

\* The FIFO holds these samples, with room for two more.
Holds(f, s) ==
  /\ f \in FifoType /\ s \in Seq(Nat) /\ Len(s) <= FifoSize - 2
  /\ len(f) = Len(s) /\ \A n \in 1 .. Len(s) : at(f, n - 1) = s[n]

Playing(v) == v.phase \in {"Attack", "Decay", "Sustain"}

GhostOK(g) ==
  /\ g \in [fifo : {g.fifo}, mixed : {g.mixed}, keyed : {g.keyed}, stored : {g.stored},
            disabled : {g.disabled}]
  /\ \A i \in Voices : g.mixed[i] \in 4 .. FifoSize - 2

Silent(vs, g) == g.disabled => \A i \in Voices : vs[i].vol = 0 \/ i \in g.stored

VoiceInv(v, samples, keyed) == VoiceOK(v) /\ Holds(v.fifo, samples) /\ (keyed <=> Playing(v))

Inv ==
  /\ cycles \in Nat
  /\ voices \in [Voices -> {voices[i] : i \in Voices}]
  /\ GhostOK(ghost) /\ Silent(voices, ghost)
  /\ \A i \in Voices : VoiceInv(voices[i], ghost.fifo[i], ghost.keyed[i])

-----------------------------------------------------------------------------
\* The FIFO.  Its indices wrap around once at most.

\* The slot n places on from t, and how far it is from t to h.
Pos(t, n) == IF t + n < 16 THEN t + n ELSE t + n - 16
Dist(h, t) == IF h >= t THEN h - t ELSE h - t + 16

LEMMA Wraps ==
  ASSUME NEW t \in 0 .. 15, NEW n \in 0 .. 15
  PROVE  (t + n) % 16 = Pos(t, n) /\ (t - n) % 16 = Dist(t, n)
  BY DEF Pos, Dist

\* Slots up to the head are apart, and reach it in the end.
LEMMA Ring ==
  ASSUME NEW h \in 0 .. 15, NEW t \in 0 .. 15, NEW k \in 0 .. 13, Dist(h, t) = k
  PROVE  /\ Pos(h, 1) \in 0 .. 15 /\ Dist(Pos(h, 1), t) = k + 1
         /\ Pos(t, k) = h /\ \A n \in 0 .. k : Pos(t, n) \in 0 .. 15 /\ (n < k => Pos(t, n) # h)
  BY DEF Pos, Dist

LEMMA Skip ==
  ASSUME NEW h \in 0 .. 15, NEW t \in 0 .. 15, NEW k \in 0 .. 14, Dist(h, t) = k,
         NEW n \in 0 .. k
  PROVE  /\ Pos(t, n) \in 0 .. 15 /\ Dist(h, Pos(t, n)) = k - n
         /\ \A j \in 0 .. k - n : Pos(Pos(t, n), j) = Pos(t, n + j)
  BY DEF Pos, Dist

LEMMA FifoFields ==
  ASSUME NEW f \in FifoType
  PROVE  /\ f.head \in 0 .. 15 /\ f.tail \in 0 .. 15 /\ f.data \in [0 .. 15 -> Nat]
         /\ len(f) = Dist(f.head, f.tail)
         /\ \A n \in 0 .. 15 : at(f, n) = f.data[Pos(f.tail, n)]
  <1>1. f.head \in 0 .. 15 /\ f.tail \in 0 .. 15 /\ f.data \in [0 .. 15 -> Nat]
    BY DEF FifoType, Slot, FifoSize
  <1>2. len(f) = Dist(f.head, f.tail)
    BY <1>1, Wraps DEF len, FifoSize
  <1>3. ASSUME NEW n \in 0 .. 15 PROVE at(f, n) = f.data[Pos(f.tail, n)]
    BY <1>1, Wraps DEF at, FifoSize
  <1> QED
    BY <1>1, <1>2, <1>3

\* `push` appends, if there is room for one more.
LEMMA PushAppends ==
  ASSUME NEW f, NEW s, Holds(f, s), Len(s) <= 13, NEW a \in Nat
  PROVE  Holds(push(f, a), Append(s, a))
  <1> DEFINE g == push(f, a)
             h == f.head
             t == f.tail
             d == f.data
             e == [d EXCEPT ![h] = a]
             k == Len(s)
             r == Append(s, a)
  <1>1. f \in FifoType /\ s \in Seq(Nat) /\ len(f) = k
    BY DEF Holds
  <1>2. \A n \in 1 .. k : at(f, n - 1) = s[n]
    BY DEF Holds
  <1>3. k \in Nat /\ k <= 13
    BY <1>1, LenProperties
  <1>4. r \in Seq(Nat) /\ Len(r) = k + 1 /\ r[k + 1] = a /\ \A n \in 1 .. k : r[n] = s[n]
    BY <1>1, AppendProperties
  <1>5. h \in 0 .. 15 /\ t \in 0 .. 15 /\ d \in [0 .. 15 -> Nat] /\ Dist(h, t) = k
    BY <1>1, FifoFields
  <1>6. \A n \in 0 .. 15 : at(f, n) = d[Pos(t, n)]
    BY <1>1, FifoFields
  <1> HIDE DEF h, t, d, k, r
  <1>7. k \in 0 .. 13
    BY <1>3
  <1>8. Pos(h, 1) \in 0 .. 15 /\ Dist(Pos(h, 1), t) = k + 1
    BY <1>5, <1>7, Ring
  <1>9. Pos(t, k) = h /\ \A n \in 0 .. k : Pos(t, n) \in 0 .. 15 /\ (n < k => Pos(t, n) # h)
    BY <1>5, <1>7, Ring
  <1>10. Pos(h, 1) = (h + 1) % 16
    <2>1. 1 \in 0 .. 15
      OBVIOUS
    <2> QED
      BY <1>5, <2>1, Wraps
  <1>11. e \in [0 .. 15 -> Nat] /\ e[h] = a /\ \A j \in 0 .. 15 : j # h => e[j] = d[j]
    BY <1>5
  <1>12. g \in FifoType /\ g.data = e /\ g.head = Pos(h, 1) /\ g.tail = t
    BY <1>1, <1>5, <1>8, <1>10, <1>11 DEF push, FifoType, Slot, FifoSize, h, t, d
  <1> HIDE DEF g, e
  <1>13. len(g) = k + 1 /\ \A n \in 0 .. 15 : at(g, n) = e[Pos(t, n)]
    BY <1>8, <1>12, FifoFields
  <1>14. ASSUME NEW n \in 1 .. k + 1
         PROVE  at(g, n - 1) = r[n]
    <2>1. n - 1 \in 0 .. 15 /\ n - 1 \in 0 .. k
      BY <1>7
    <2> DEFINE m == n - 1
               x == Pos(t, m)
    <2>2. at(g, m) = e[x] /\ at(f, m) = d[x] /\ x \in 0 .. 15 /\ (m = k => x = h)
          /\ (m < k => x # h)
      BY <1>6, <1>9, <1>13, <2>1
    <2>3. (n = k + 1 => m = k) /\ (n # k + 1 => m < k)
      BY <1>7
    <2>4. ~(n = k + 1) => n \in 1 .. k /\ at(f, m) = s[n]
      BY <1>2, <1>7
    <2> HIDE DEF m, x
    <2>5. at(g, m) = r[n]
      BY <1>4, <1>11, <2>2, <2>3, <2>4
    <2> QED
      BY <2>5 DEF m
  <1> QED
    BY <1>4, <1>7, <1>12, <1>13, <1>14 DEF Holds, g, r, FifoSize

\* `pop_n` takes from the front.
LEMMA PopTakes ==
  ASSUME NEW f, NEW s, Holds(f, s), NEW n \in 0 .. 3, n <= Len(s)
  PROVE  Holds(pop_n(f, n), SubSeq(s, n + 1, Len(s)))
  <1> DEFINE g == pop_n(f, n)
             h == f.head
             t == f.tail
             d == f.data
             k == Len(s)
             r == SubSeq(s, n + 1, k)
  <1>1. f \in FifoType /\ s \in Seq(Nat) /\ len(f) = k /\ k <= 14
    BY DEF Holds, FifoSize
  <1>2. \A j \in 1 .. k : at(f, j - 1) = s[j]
    BY DEF Holds
  <1>3. k \in Nat /\ n <= k
    BY <1>1, LenProperties
  <1>4. \A j \in n + 1 .. k : s[j] \in Nat
    BY <1>1, ElementOfSeq
  <1>5. h \in 0 .. 15 /\ t \in 0 .. 15 /\ d \in [0 .. 15 -> Nat] /\ Dist(h, t) = k
    BY <1>1, FifoFields
  <1>6. \A j \in 0 .. 15 : at(f, j) = d[Pos(t, j)]
    BY <1>1, FifoFields
  <1> HIDE DEF h, t, d, k
  <1>7. k \in 0 .. 14 /\ n \in 0 .. k /\ n \in 0 .. 15
    BY <1>1, <1>3
  <1>8. r \in Seq(Nat) /\ Len(r) = k - n /\ \A j \in 1 .. k - n : r[j] = s[n + j]
    <2>1. n + 1 \in Int /\ k \in Int
      BY <1>7
    <2>2. /\ r \in Seq(Nat) /\ Len(r) = (IF n + 1 <= k THEN k - (n + 1) + 1 ELSE 0)
          /\ \A j \in 1 .. k - (n + 1) + 1 : r[j] = s[(n + 1) + j - 1]
      BY <1>4, <2>1, SubSeqProperties
    <2> HIDE DEF r
    <2>3. (IF n + 1 <= k THEN k - (n + 1) + 1 ELSE 0) = k - n
      BY <1>7
    <2>4. ASSUME NEW j \in 1 .. k - n PROVE r[j] = s[n + j]
      <3>1. j \in 1 .. k - (n + 1) + 1 /\ (n + 1) + j - 1 = n + j
        BY <1>7
      <3>2. r[j] = s[(n + 1) + j - 1]
        BY <2>2, <3>1
      <3> QED
        BY <3>1, <3>2
    <2>5. r \in Seq(Nat) /\ Len(r) = k - n
      BY <2>2, <2>3
    <2> QED
      BY <2>4, <2>5
  <1> HIDE DEF r
  <1>9. Pos(t, n) \in 0 .. 15 /\ Dist(h, Pos(t, n)) = k - n
    BY <1>5, <1>7, Skip
  <1>10. \A j \in 0 .. k - n : Pos(Pos(t, n), j) = Pos(t, n + j)
    BY <1>5, <1>7, Skip
  <1>11. Pos(t, n) = (t + n) % 16
    BY <1>5, <1>7, Wraps
  <1>12. g \in FifoType /\ g.data = d /\ g.head = h /\ g.tail = Pos(t, n)
    BY <1>1, <1>5, <1>9, <1>11 DEF pop_n, FifoType, Slot, FifoSize, h, t, d
  <1> HIDE DEF g
  <1>13. len(g) = k - n /\ \A j \in 0 .. 15 : at(g, j) = d[Pos(Pos(t, n), j)]
    BY <1>9, <1>12, FifoFields
  <1>14. ASSUME NEW j \in 1 .. k - n
         PROVE  at(g, j - 1) = r[j]
    <2>1. j - 1 \in 0 .. 15 /\ j - 1 \in 0 .. k - n /\ n + j \in 1 .. k
          /\ n + (j - 1) \in 0 .. 15 /\ n + (j - 1) = (n + j) - 1
      BY <1>7
    <2>2. at(g, j - 1) = d[Pos(t, n + (j - 1))]
      BY <1>10, <1>13, <2>1
    <2>3. at(f, (n + j) - 1) = d[Pos(t, n + (j - 1))]
      BY <1>6, <2>1
    <2>4. at(f, (n + j) - 1) = s[n + j]
      BY <1>2, <2>1
    <2> QED
      BY <1>8, <2>2, <2>3, <2>4
  <1>15. k - n <= 14
    BY <1>7
  <1>16. Holds(g, r)
    BY <1>8, <1>12, <1>13, <1>14, <1>15 DEF Holds, FifoSize
  <1> QED
    BY <1>16 DEF g, k, r

LEMMA ClearEmpties ==
  ASSUME NEW f \in FifoType
  PROVE  Holds(clear(f), <<>>)
  <1>1. f.head \in 0 .. 15 /\ f.tail \in 0 .. 15 /\ f.data \in [0 .. 15 -> Nat]
    BY FifoFields
  <1>2. clear(f) \in FifoType /\ clear(f).head = clear(f).tail
    BY <1>1 DEF clear, FifoType, Slot, FifoSize
  <1>3. len(clear(f)) = 0
    BY <1>2, FifoFields DEF Dist
  <1> QED
    BY <1>2, <1>3 DEF Holds, FifoSize

-----------------------------------------------------------------------------
\* Decoding.

LEMMA FourAppends ==
  ASSUME NEW s \in Seq(Nat), NEW a \in Nat
  PROVE  Append(Append(Append(Append(s, a), a), a), a) = s \o <<a, a, a, a>>
  <1> DEFINE r == Append(Append(Append(Append(s, a), a), a), a)
             c == <<a, a, a, a>>
  <1>1. c \in Seq(Nat) /\ Len(c) = 4 /\ \A j \in 1 .. 4 : c[j] = a
    OBVIOUS
  <1>2. r \in Seq(Nat) /\ Len(r) = Len(s) + 4 /\ Len(s) \in Nat
    OBVIOUS
  <1>3. \A j \in 1 .. Len(s) + 4 : r[j] = IF j <= Len(s) THEN s[j] ELSE a
    OBVIOUS
  <1> HIDE DEF r, c
  <1>4. s \o c \in Seq(Nat) /\ Len(s \o c) = Len(s) + Len(c)
    BY <1>1, ConcatProperties
  <1>5. ASSUME NEW j \in 1 .. Len(s) + 4
        PROVE  (s \o c)[j] = r[j]
    <2>1. j \in 1 .. Len(s) + Len(c)
      BY <1>1, <1>2
    <2>2. (s \o c)[j] = IF j <= Len(s) THEN s[j] ELSE c[j - Len(s)]
      BY <1>1, <2>1, ConcatProperties
    <2>3. \A k \in Nat : \A m \in 1 .. k + 4 : m <= k \/ m - k \in 1 .. 4
      OBVIOUS
    <2>4. j <= Len(s) \/ j - Len(s) \in 1 .. 4
      BY <1>2, <2>3
    <2> QED
      BY <1>1, <1>3, <2>2, <2>4
  <1> QED
    BY <1>1, <1>2, <1>4, <1>5, SeqEqual DEF r, c

\* A word is four samples, for which there must be room.
LEMMA FourPushes ==
  ASSUME NEW f, NEW s, Holds(f, s), Len(s) <= 10, NEW a \in Nat
  PROVE  Holds(push(push(push(push(f, a), a), a), a), s \o <<a, a, a, a>>)
  <1> DEFINE s1 == Append(s, a)
             s2 == Append(s1, a)
             s3 == Append(s2, a)
  <1>1. s \in Seq(Nat) /\ Len(s) \in Nat
    BY LenProperties DEF Holds
  <1>2. /\ s1 \in Seq(Nat) /\ s2 \in Seq(Nat) /\ s3 \in Seq(Nat)
        /\ Len(s1) = Len(s) + 1 /\ Len(s2) = Len(s) + 2 /\ Len(s3) = Len(s) + 3
    BY <1>1
  <1>3. Append(s3, a) = s \o <<a, a, a, a>>
    BY <1>1, FourAppends
  <1> HIDE DEF s1, s2, s3
  <1>4. Len(s) <= 13 /\ Len(s1) <= 13 /\ Len(s2) <= 13 /\ Len(s3) <= 13
    BY <1>1, <1>2
  <1>5. Holds(push(f, a), s1)
    BY <1>4, PushAppends DEF s1
  <1>6. Holds(push(push(f, a), a), s2)
    BY <1>4, <1>5, PushAppends DEF s2
  <1>7. Holds(push(push(push(f, a), a), a), s3)
    BY <1>4, <1>6, PushAppends DEF s3
  <1> QED
    BY <1>3, <1>4, <1>7, PushAppends

LEMMA AddrType ==
  ASSUME NEW a \in Nat, NEW n \in Nat
  PROVE  plus(a, n) \in Nat
  BY SpuAssumption DEF plus

\* What the steps of a cycle leave of a voice.
Like(v, w) == VoiceOK(w) /\ w.fifo = v.fifo /\ w.start_delay = v.start_delay

LEMMA DecodeAppends ==
  ASSUME NEW v, VoiceOK(v), NEW s, Holds(v.fifo, s), Len(s) <= 10, NEW a \in Nat
  PROVE  /\ VoiceOK(decode(v, a)) /\ Holds(decode(v, a).fifo, s \o <<a, a, a, a>>)
         /\ decode(v, a).phase = v.phase /\ decode(v, a).vol = v.vol
         /\ decode(v, a).start_delay = v.start_delay
  <1> DEFINE f == push(push(push(push(v.fifo, a), a), a), a)
             b == plus(a, 1)
             w == [v EXCEPT !.fifo = f, !.addr = b]
  <1>1. b \in Nat
    BY AddrType
  <1>2. Holds(f, s \o <<a, a, a, a>>)
    BY FourPushes
  <1>3. f \in FifoType
    BY <1>2 DEF Holds
  <1>4. decode(v, a) = w
    BY DEF decode, VoiceOK
  <1> HIDE DEF f, b
  <1>5. /\ VoiceOK(w) /\ w.fifo = f /\ w.phase = v.phase /\ w.vol = v.vol
        /\ w.start_delay = v.start_delay
    BY <1>1, <1>3 DEF VoiceOK
  <1> QED
    BY <1>2, <1>4, <1>5

\* The header ends a note or not, and changes nothing else of its voice.
LEMMA HeaderKeeps ==
  ASSUME NEW i, NEW v, VoiceOK(v), NEW header
  PROVE  LET over == "end" \in v.flags /\ "repeat" \notin v.flags /\ i \notin regs.noise_on
             w == next_block(i, v, header)
         IN  /\ Like(v, w) /\ w.addr = plus(block_addr(v), 1)
             /\ w.phase = IF over THEN "Release" ELSE v.phase
             /\ w.vol = IF over THEN 0 ELSE v.vol
  <1> DEFINE over == "end" \in v.flags /\ "repeat" \notin v.flags /\ i \notin regs.noise_on
             a == plus(block_addr(v), 1)
             u == IF over THEN [v EXCEPT !.phase = "Release", !.vol = 0] ELSE v
             r == IF "start" \in header /\ ~v.ignore_loop_addr THEN a ELSE u.repeat
             w == [u EXCEPT !.addr = a, !.flags = header, !.repeat = r]
  <1>1. block_addr(v) \in Nat
    BY DEF VoiceOK, block_addr
  <1>2. a \in Nat
    BY <1>1, AddrType
  <1>3. /\ VoiceOK(u) /\ u.fifo = v.fifo /\ u.start_delay = v.start_delay
        /\ u.phase = (IF over THEN "Release" ELSE v.phase)
        /\ u.vol = (IF over THEN 0 ELSE v.vol)
    BY DEF VoiceOK, Phases
  <1>4. r \in Nat
    BY <1>2, <1>3 DEF VoiceOK
  <1>5. next_block(i, v, header) = w
    BY <1>3 DEF next_block, VoiceOK
  <1> HIDE DEF over, a, u, r
  <1>6. /\ VoiceOK(w) /\ w.fifo = u.fifo /\ w.start_delay = u.start_delay /\ w.addr = a
        /\ w.phase = u.phase /\ w.vol = u.vol
    BY <1>2, <1>3, <1>4 DEF VoiceOK
  <1> QED
    BY <1>3, <1>5, <1>6 DEF Like, over, a

\* The address a block's word is read from when the decoder runs.
WordAddr(v) == IF v.addr % 8 = 0 THEN plus(block_addr(v), 1) ELSE v.addr

Ends(i, v) ==
  /\ ~decoder_waits(v) /\ v.addr % 8 = 0
  /\ "end" \in v.flags /\ "repeat" \notin v.flags /\ i \notin regs.noise_on

Words4(v) == IF decoder_waits(v) THEN <<>> ELSE <<WordAddr(v), WordAddr(v), WordAddr(v), WordAddr(v)>>

\* Enough samples to mix one.
Mixable(s) == Len(s) \in 4 .. 14

SameDelay(v, w) == w.start_delay = v.start_delay

LEMMA DecoderFills ==
  ASSUME NEW i, NEW v, VoiceOK(v), NEW s, Holds(v.fifo, s), NEW header
  PROVE  LET w == run_decoder(i, v, header).voice
         IN  /\ VoiceOK(w) /\ Holds(w.fifo, s \o Words4(v)) /\ SameDelay(v, w)
             /\ Mixable(s \o Words4(v))
             /\ w.phase = IF Ends(i, v) THEN "Release" ELSE v.phase
             /\ w.vol = v.vol \/ w.vol = 0
  <1> DEFINE w == run_decoder(i, v, header).voice
             a == WordAddr(v)
             b == IF v.addr % 8 = 0 THEN next_block(i, v, header) ELSE v
  <1>1. s \in Seq(Nat) /\ Len(s) \in Nat /\ Len(s) <= 14 /\ len(v.fifo) = Len(s)
    BY LenProperties DEF Holds, FifoSize
  <1>2. CASE decoder_waits(v)
    <2>1. w = v /\ ~Ends(i, v)
      BY <1>2 DEF run_decoder, Ends
    <2>2. s \o Words4(v) = s
      BY <1>1, <1>2 DEF Words4
    <2>3. Len(s) > 10
      BY <1>1, <1>2 DEF decoder_waits
    <2>4. \A k \in Nat : k > 10 /\ k <= 14 => k \in 4 .. 14
      OBVIOUS
    <2>5. Len(s) \in 4 .. 14
      BY <1>1, <2>3, <2>4
    <2> QED
      BY <2>1, <2>2, <2>5 DEF Mixable, SameDelay
  <1>3. CASE ~decoder_waits(v)
    <2>1. Len(s) <= 10
      BY <1>1, <1>3 DEF decoder_waits
    <2>2. w = decode(b, b.addr)
      BY <1>3 DEF run_decoder
    <2>3. /\ VoiceOK(b) /\ b.fifo = v.fifo /\ b.start_delay = v.start_delay /\ b.addr = a
          /\ b.phase = (IF Ends(i, v) THEN "Release" ELSE v.phase)
          /\ b.vol = v.vol \/ b.vol = 0
      <3>1. CASE v.addr % 8 = 0
        <4>1. b = next_block(i, v, header) /\ a = plus(block_addr(v), 1)
          BY <3>1 DEF WordAddr
        <4> DEFINE n == next_block(i, v, header)
                   over == "end" \in v.flags /\ "repeat" \notin v.flags /\ i \notin regs.noise_on
        <4>2. /\ Like(v, n) /\ n.addr = plus(block_addr(v), 1)
              /\ n.phase = (IF over THEN "Release" ELSE v.phase)
              /\ n.vol = (IF over THEN 0 ELSE v.vol)
          BY HeaderKeeps
        <4>3. over <=> Ends(i, v)
          BY <1>3, <3>1 DEF Ends
        <4> HIDE DEF n, over
        <4>4. n.vol = v.vol \/ n.vol = 0
          BY <4>2
        <4>5. b = n
          BY <4>1 DEF n
        <4> HIDE DEF b
        <4> QED
          BY <4>1, <4>2, <4>3, <4>4, <4>5 DEF Like
      <3>2. CASE v.addr % 8 # 0
        BY <3>2 DEF WordAddr, Ends
      <3> QED
        BY <3>1, <3>2
    <2>4. a \in Nat
      BY <2>3 DEF VoiceOK
    <2> HIDE DEF b, a
    <2>5. /\ VoiceOK(decode(b, a)) /\ Holds(decode(b, a).fifo, s \o <<a, a, a, a>>)
          /\ decode(b, a).phase = b.phase /\ decode(b, a).vol = b.vol
          /\ decode(b, a).start_delay = b.start_delay
      BY <2>1, <2>3, <2>4, DecodeAppends
    <2>6. Words4(v) = <<a, a, a, a>>
      BY <1>3 DEF Words4, a
    <2>7. <<a, a, a, a>> \in Seq(Nat) /\ Len(<<a, a, a, a>>) = 4
      BY <2>4
    <2>8. Len(s \o Words4(v)) = Len(s) + 4
      BY <1>1, <2>6, <2>7, ConcatProperties
    <2>a. \A k \in Nat : k <= 10 => k + 4 \in 4 .. 14
      OBVIOUS
    <2>9. Len(s \o Words4(v)) \in 4 .. 14
      BY <1>1, <2>1, <2>8, <2>a
    <2>10. w = decode(b, a)
      BY <2>2, <2>3
    <2> HIDE DEF w
    <2>11. /\ VoiceOK(w) /\ Holds(w.fifo, s \o Words4(v)) /\ w.start_delay = v.start_delay
           /\ w.phase = (IF Ends(i, v) THEN "Release" ELSE v.phase)
           /\ w.vol = v.vol \/ w.vol = 0
      BY <2>3, <2>5, <2>6, <2>10
    <2> QED
      BY <2>9, <2>11 DEF w, Mixable, SameDelay
  <1> QED
    BY <1>2, <1>3

-----------------------------------------------------------------------------
\* Playing.

\* Attack, decay and sustain follow each other; a voice that is off stays off.
PhaseGoesOn(p, q) == p \in Phases /\ q \in Phases
                     /\ (p \in {"Attack", "Decay", "Sustain"} <=> q \in {"Attack", "Decay", "Sustain"})

LEMMA EnvelopeKeeps ==
  ASSUME NEW v, VoiceOK(v)
  PROVE  Like(v, update_adsr_envelope(v)) /\ update_adsr_envelope(v).phase = v.phase
  <1> DEFINE u(t, e) == [v EXCEPT !.target = t, !.env = e]
  <1>1. ASSUME NEW t, NEW e
        PROVE  Like(v, u(t, e)) /\ u(t, e).phase = v.phase
    BY DEF VoiceOK, Like
  <1>2. v.phase \in Phases
    BY DEF VoiceOK
  <1> HIDE DEF u
  <1>3. \E t, e : update_adsr_envelope(v) = u(t, e)
    <2>1. CASE v.phase = "Off"
      <3>1. update_adsr_envelope(v) = u(0, Envelope(0, "Increase", "Linear"))
        BY <2>1 DEF update_adsr_envelope, u
      <3> QED
        BY <3>1
    <2>2. CASE v.phase = "Attack"
      <3>1. update_adsr_envelope(v) = u(32767, Envelope(v.adsr.attack_rate, "Increase", v.adsr.attack_mode))
        BY <2>2 DEF update_adsr_envelope, u
      <3> QED
        BY <3>1
    <2>3. CASE v.phase = "Decay"
      <3>1. update_adsr_envelope(v) = u(sustain_lvl(v.adsr), Envelope(v.adsr.decay_rate, "Decrease", "Exponential"))
        BY <2>3 DEF update_adsr_envelope, u
      <3> QED
        BY <3>1
    <2>4. CASE v.phase = "Sustain"
      <3>1. update_adsr_envelope(v) = u(0, Envelope(v.adsr.sustain_rate, v.adsr.sustain_dir, v.adsr.sustain_mode))
        BY <2>4 DEF update_adsr_envelope, u
      <3> QED
        BY <3>1
    <2>5. CASE v.phase = "Release"
      <3>1. update_adsr_envelope(v) = u(0, Envelope(v.adsr.release_rate, "Decrease", v.adsr.release_mode))
        BY <2>5 DEF update_adsr_envelope, u
      <3> QED
        BY <3>1
    <2> QED
      BY <1>2, <2>1, <2>2, <2>3, <2>4, <2>5 DEF Phases
  <1> QED
    BY <1>1, <1>3

LEMMA NextPhase ==
  ASSUME NEW p \in Phases
  PROVE  PhaseGoesOn(p, next_phase(p))
  BY DEF Phases, next_phase, PhaseGoesOn

LEMMA CycleKeeps ==
  ASSUME NEW v, VoiceOK(v)
  PROVE  LET w == adsr_envelope_cycle(v) IN Like(v, w) /\ PhaseGoesOn(v.phase, w.phase)
  <1> DEFINE e == envelope_cycle(v.env, v.vol)
             w == [v EXCEPT !.env = e.env, !.vol = e.level]
             n == [w EXCEPT !.phase = next_phase(w.phase)]
  <1>1. v.phase \in Phases
    BY DEF VoiceOK
  <1>2. PhaseGoesOn(v.phase, v.phase) /\ PhaseGoesOn(v.phase, next_phase(v.phase))
    BY <1>1, NextPhase DEF PhaseGoesOn
  <1> HIDE DEF e
  <1>3. Like(v, w) /\ w.phase = v.phase
    BY DEF VoiceOK, Like
  <1>4. adsr_envelope_cycle(v) = w \/ adsr_envelope_cycle(v) = update_adsr_envelope(n)
    BY DEF adsr_envelope_cycle, e
  <1> HIDE DEF w
  <1>5. Like(w, n) /\ n.phase = next_phase(w.phase)
    BY <1>2, <1>3 DEF VoiceOK, Like, PhaseGoesOn
  <1> HIDE DEF n
  <1>6. Like(n, update_adsr_envelope(n)) /\ update_adsr_envelope(n).phase = n.phase
    BY <1>5, EnvelopeKeeps DEF Like
  <1> QED
    BY <1>2, <1>3, <1>4, <1>5, <1>6 DEF Like

LEMMA Enough ==
  ASSUME NEW s \in Seq(Nat), Mixable(s), NEW n \in 0 .. 3
  PROVE  n <= Len(s)
  <1>1. \A k \in 4 .. 14, m \in 0 .. 3 : m <= k
    OBVIOUS
  <1> QED
    BY <1>1 DEF Mixable

\* At any rate, three samples are played at most.
StepRange == 0 .. 16383
Whole(step) == step \div 4096

LEMMA StepsAreShort == \A step \in StepRange : Whole(step) \in 0 .. 3
  BY DEF Whole, StepRange

LEMMA CounterIsZero ==
  ASSUME NEW v, VoiceOK(v), NEW step \in StepRange
  PROVE  v.counter % 4096 = 0 /\ (v.counter + step) \div 4096 = Whole(step)
  <1>1. v.counter = 0
    BY DEF VoiceOK
  <1>2. \A c : c = 0 => c % 4096 = 0 /\ (c + step) \div 4096 = step \div 4096
    BY DEF StepRange
  <1> QED
    BY <1>1, <1>2 DEF Whole

Taken(v, c, n) == [v EXCEPT !.counter = c, !.fifo = pop_n(@, n)]

LEMMA ConsumeTakes ==
  ASSUME NEW v, VoiceOK(v), NEW s, Holds(v.fifo, s), Mixable(s), NEW step \in StepRange
  PROVE  LET w == consume_samples(v, step)
         IN  /\ VoiceOK(w) /\ w.phase = v.phase
             /\ Holds(w.fifo, SubSeq(s, Whole(step) + 1, Len(s)))
  <1> DEFINE n == Whole(step)
             f == pop_n(v.fifo, n)
             u == [v EXCEPT !.counter = 0]
             w == [u EXCEPT !.fifo = f]
  <1>1. n \in 0 .. 3
    BY StepsAreShort
  <1>2. v.counter % 4096 = 0 /\ (v.counter + step) \div 4096 = n
    BY CounterIsZero
  <1> HIDE DEF n
  <1>3. consume_samples(v, step) = w
    <2>1. consume_samples(v, step) = Taken(v, v.counter % 4096, (v.counter + step) \div 4096)
      BY DEF consume_samples, Taken
    <2>2. consume_samples(v, step) = Taken(v, 0, n)
      BY <1>2, <2>1
    <2> QED
      BY <2>2 DEF Taken, VoiceOK
  <1>4. n <= Len(s)
    BY <1>1, Enough DEF Holds
  <1>5. Holds(f, SubSeq(s, n + 1, Len(s)))
    BY <1>1, <1>4, PopTakes
  <1>6. f \in FifoType
    BY <1>5 DEF Holds
  <1> HIDE DEF f
  <1>7. VoiceOK(u) /\ u.phase = v.phase
    BY DEF VoiceOK
  <1> HIDE DEF u
  <1>8. VoiceOK(w) /\ w.phase = u.phase /\ w.fifo = f
    BY <1>6, <1>7 DEF VoiceOK
  <1> QED
    BY <1>3, <1>5, <1>7, <1>8 DEF n

LEMMA ReleaseKeeps ==
  ASSUME NEW v, VoiceOK(v)
  PROVE  LET w == start_release_phase(v) IN Like(v, w) /\ w.phase = "Release"
  BY DEF start_release_phase, Like, VoiceOK, Phases

LEMMA DisabledKeeps ==
  ASSUME NEW v, VoiceOK(v)
  PROVE  LET w == disabled(v) IN Like(v, w) /\ w.phase = "Release" /\ w.vol = 0
  <1> DEFINE r == start_release_phase(v)
  <1>1. Like(v, r) /\ r.phase = "Release"
    BY ReleaseKeeps
  <1> HIDE DEF r
  <1>2. Like(r, mute(r)) /\ mute(r).phase = r.phase /\ mute(r).vol = 0
    BY <1>1 DEF mute, Like, VoiceOK
  <1> QED
    BY <1>1, <1>2 DEF disabled, r, Like

LEMMA ResetStarts ==
  ASSUME NEW v, VoiceOK(v)
  PROVE  LET w == reset(v) IN VoiceOK(w) /\ Holds(w.fifo, <<>>) /\ w.phase = "Attack"
  <1> DEFINE a == start_attack_phase(v)
             f == clear(a.fifo)
             w == [a EXCEPT !.counter = 0, !.addr = v.start, !.flags = {}, !.fifo = f,
                            !.start_delay = 4, !.ignore_loop_addr = FALSE]
  <1>1. Like(v, a) /\ a.phase = "Attack" /\ v.start \in Nat
    BY DEF start_attack_phase, Like, VoiceOK, Phases
  <1>2. reset(v) = w
    BY <1>1 DEF reset, Like, VoiceOK
  <1> HIDE DEF a
  <1>3. Holds(f, <<>>)
    BY <1>1, ClearEmpties DEF Like, VoiceOK
  <1>4. f \in FifoType
    BY <1>3 DEF Holds
  <1> HIDE DEF f
  <1>5. VoiceOK(w) /\ w.fifo = f /\ w.phase = a.phase
    BY <1>1, <1>4 DEF Like, VoiceOK
  <1> QED
    BY <1>1, <1>2, <1>3, <1>5

\* A voice after the guest's key stores.
LEMMA KeyFollows ==
  ASSUME NEW i, NEW v, VoiceOK(v), NEW s, Holds(v.fifo, s)
  PROVE  LET w == key(i, v)
         IN  /\ VoiceOK(w) /\ Holds(w.fifo, IF i \in regs.voice_on THEN <<>> ELSE s)
             /\ Playing(w) <=> i \in regs.voice_on \/ (Playing(v) /\ i \notin regs.voice_off)
  <1> DEFINE off == IF i \in regs.voice_off THEN start_release_phase(v) ELSE v
             w == key(i, v)
  <1>1. /\ Like(v, off)
        /\ Playing(off) <=> Playing(v) /\ i \notin regs.voice_off
    <2>1. CASE i \in regs.voice_off
      BY <2>1, ReleaseKeeps DEF Playing
    <2>2. CASE i \notin regs.voice_off
      BY <2>2 DEF Like
    <2> QED
      BY <2>1, <2>2
  <1>2. w = IF i \in regs.voice_on THEN reset(off) ELSE off
    BY DEF key
  <1> HIDE DEF off, w
  <1>3. CASE i \in regs.voice_on
    <2>1. w = reset(off)
      BY <1>2, <1>3
    <2>2. VoiceOK(w) /\ Holds(w.fifo, <<>>) /\ w.phase = "Attack"
      BY <1>1, <2>1, ResetStarts DEF Like
    <2> QED
      BY <1>3, <2>2 DEF Playing, w
  <1>4. CASE i \notin regs.voice_on
    BY <1>1, <1>2, <1>4 DEF Like, w
  <1> QED
    BY <1>3, <1>4

\* The samples played in a cycle.
Played(v, step) == IF v.start_delay # 0 THEN 0 ELSE Whole(step)

\* A voice after its sample is mixed.
LEMMA RunPlays ==
  ASSUME NEW i, NEW v, VoiceOK(v), NEW s, Holds(v.fifo, s), Mixable(s), NEW step \in StepRange
  PROVE  LET w == run(i, v, step)
         IN  /\ VoiceOK(w)
             /\ Holds(w.fifo, IF i \in regs.voice_on THEN <<>>
                              ELSE SubSeq(s, Played(v, step) + 1, Len(s)))
             /\ Playing(w) <=> /\ "enable" \in regs.control
                               /\ i \in regs.voice_on \/ (Playing(v) /\ i \notin regs.voice_off)
             /\ "enable" \notin regs.control => w.vol = 0
  <1> DEFINE p == IF v.start_delay # 0 THEN [v EXCEPT !.start_delay = @ - 1]
                  ELSE consume_samples(adsr_envelope_cycle(v), step)
             r == SubSeq(s, Played(v, step) + 1, Len(s))
             k == key(i, p)
             w == run(i, v, step)
             q == IF i \in regs.voice_on THEN <<>> ELSE r
  <1>1. VoiceOK(p) /\ Holds(p.fifo, r) /\ (Playing(p) <=> Playing(v))
    <2>1. CASE v.start_delay # 0
      <3> DEFINE d == v.start_delay - 1
                 u == [v EXCEPT !.start_delay = d]
      <3>1. p = u
        BY <2>1
      <3> HIDE DEF d
      <3>2. VoiceOK(u) /\ u.fifo = v.fifo /\ u.phase = v.phase
        BY DEF VoiceOK
      <3>3. r = SubSeq(s, 1, Len(s))
        BY <2>1 DEF Played
      <3>4. r = s
        BY <3>3, SubSeqFull DEF Holds
      <3> HIDE DEF p, r, u
      <3> QED
        BY <3>1, <3>2, <3>4 DEF Playing
    <2>2. CASE v.start_delay = 0
      <3> DEFINE e == adsr_envelope_cycle(v)
                 c == consume_samples(e, step)
      <3>1. Like(v, e) /\ PhaseGoesOn(v.phase, e.phase)
        BY CycleKeeps
      <3>2. p = c /\ Played(v, step) = Whole(step)
        BY <2>2 DEF Played
      <3> HIDE DEF e
      <3>3. VoiceOK(e) /\ Holds(e.fifo, s)
        BY <3>1 DEF Like
      <3>4. VoiceOK(c) /\ c.phase = e.phase /\ Holds(c.fifo, SubSeq(s, Whole(step) + 1, Len(s)))
        BY <3>3, ConsumeTakes
      <3> HIDE DEF c, p
      <3> QED
        BY <3>1, <3>2, <3>4 DEF Playing, PhaseGoesOn
    <2> QED
      BY <2>1, <2>2
  <1>2. w = IF "enable" \in regs.control THEN k ELSE disabled(k)
    BY DEF run
  <1> HIDE DEF p, r
  <1>3. /\ VoiceOK(k) /\ Holds(k.fifo, q)
        /\ Playing(k) <=> i \in regs.voice_on \/ (Playing(p) /\ i \notin regs.voice_off)
    BY <1>1, KeyFollows
  <1> HIDE DEF k, w, q
  <1>4. CASE "enable" \in regs.control
    BY <1>1, <1>2, <1>3, <1>4 DEF w, q, r
  <1>5. CASE "enable" \notin regs.control
    <2>1. w = disabled(k)
      BY <1>2, <1>5
    <2>2. Like(k, w) /\ w.phase = "Release" /\ w.vol = 0
      BY <1>3, <2>1, DisabledKeeps
    <2>3. VoiceOK(w) /\ Holds(w.fifo, q) /\ ~Playing(w) /\ w.vol = 0
      BY <1>3, <2>2 DEF Like, Playing
    <2> QED
      BY <1>5, <2>3 DEF w, q, r
  <1> QED
    BY <1>4, <1>5

\* The step of a voice is never longer than the machine's highest pitch.
LEMMA StepType ==
  ASSUME NEW i, VoiceOK(voices[i]), NEW step \in Steps(i)
  PROVE  step \in StepRange
  <1> DEFINE r == voices[i].rate
  <1>1. r \in Nat
    BY DEF VoiceOK
  <1> HIDE DEF r
  <1>2. (IF r > 16383 THEN 16383 ELSE r) \in 0 .. 16383
    BY <1>1
  <1>3. \A n \in 0 .. 3 : 4096 * n \in 0 .. 16383
    OBVIOUS
  <1>4. {4096 * n : n \in 0 .. 3} \subseteq StepRange
    BY <1>3 DEF StepRange
  <1>5. (IF r > 16383 THEN 16383 ELSE r) \in StepRange
    BY <1>2 DEF StepRange
  <1> QED
    BY <1>4, <1>5 DEF Steps, r

-----------------------------------------------------------------------------
\* What the history of a voice says of a cycle is what its lemmas say.
LEMMA History ==
  ASSUME NEW i, NEW step
  PROVE  /\ Decoded(i) = Words4(voices[i])
         /\ NoteEnds(i) <=> Ends(i, voices[i])
         /\ Left(i, step) = IF i \in regs.voice_on THEN <<>>
                            ELSE SubSeq(ghost.fifo[i] \o Decoded(i), Played(voices[i], step) + 1,
                                        Len(ghost.fifo[i] \o Decoded(i)))
  <1>1. Decoded(i) = Words4(voices[i])
    BY DEF Decoded, Words4, WordAddr
  <1>2. NoteEnds(i) <=> Ends(i, voices[i])
    BY DEF NoteEnds, Ends
  <1> QED
    BY <1>1, <1>2 DEF Left, Played, Whole

LEMMA VoiceRuns ==
  ASSUME NEW i \in Voices, Inv, NEW step \in Steps(i), NEW header
  PROVE  LET d == run_decoder(i, voices[i], header).voice
             w == run(i, d, step)
         IN  /\ VoiceInv(w, Left(i, step), Keyed(i))
             /\ Mixable(ghost.fifo[i] \o Decoded(i))
             /\ "enable" \notin regs.control => w.vol = 0
             /\ d.vol = voices[i].vol \/ d.vol = 0
  <1> DEFINE v == voices[i]
             s == ghost.fifo[i]
             d == run_decoder(i, v, header).voice
             w == run(i, d, step)
             all == s \o Words4(v)
             on == "enable" \in regs.control
  <1>1. VoiceOK(v) /\ Holds(v.fifo, s) /\ (ghost.keyed[i] <=> Playing(v))
    BY DEF Inv, VoiceInv
  <1>2. step \in StepRange
    BY <1>1, StepType
  <1>4. Decoded(i) = Words4(v) /\ (NoteEnds(i) <=> Ends(i, v))
    BY History
  <1>5. Left(i, step) = IF i \in regs.voice_on THEN <<>> ELSE SubSeq(all, Played(v, step) + 1, Len(all))
    BY <1>4, History
  <1> HIDE DEF v, s
  <1>3. /\ VoiceOK(d) /\ Holds(d.fifo, all) /\ SameDelay(v, d)
        /\ Mixable(all)
        /\ d.phase = (IF Ends(i, v) THEN "Release" ELSE v.phase)
        /\ d.vol = v.vol \/ d.vol = 0
    <2>1. VoiceOK(d) /\ SameDelay(v, d)
      BY <1>1, DecoderFills
    <2>5. Holds(d.fifo, all)
      BY <1>1, DecoderFills
    <2>2. Mixable(all)
      BY <1>1, DecoderFills
    <2>3. d.phase = (IF Ends(i, v) THEN "Release" ELSE v.phase)
      BY <1>1, DecoderFills
    <2>4. d.vol = v.vol \/ d.vol = 0
      BY <1>1, DecoderFills
    <2> QED
      BY <2>1, <2>2, <2>3, <2>4, <2>5
  <1> HIDE DEF d, all
  <1>7. Played(d, step) = Played(v, step)
    BY <1>3 DEF Played, SameDelay
  <1>8. Playing(d) <=> Playing(v) /\ ~NoteEnds(i)
    BY <1>3, <1>4 DEF Playing
  <1>9. /\ VoiceOK(w)
        /\ Holds(w.fifo, IF i \in regs.voice_on THEN <<>>
                         ELSE SubSeq(all, Played(d, step) + 1, Len(all)))
        /\ Playing(w) <=> on /\ (i \in regs.voice_on \/ (Playing(d) /\ i \notin regs.voice_off))
        /\ ~on => w.vol = 0
    BY <1>2, <1>3, RunPlays
  <1> HIDE DEF w
  <1>10. Keyed(i) <=> Playing(w)
    BY <1>1, <1>8, <1>9 DEF Keyed
  <1>11. VoiceInv(w, Left(i, step), Keyed(i))
    BY <1>5, <1>7, <1>9, <1>10 DEF VoiceInv
  <1>12. ghost.fifo[i] \o Decoded(i) = all
    BY <1>4 DEF all, s
  <1> QED
    BY <1>3, <1>9, <1>11, <1>12 DEF w, d, v

LEMMA InitHolds == Init => Inv
  <1> SUFFICES ASSUME Init PROVE Inv
    OBVIOUS
  <1>1. PICK r \in Rates, a \in Starts, adsr \in AdsrRegs :
          voices = [i \in Voices |-> [NewVoice EXCEPT !.rate = r, !.start = a, !.adsr = adsr]]
    BY DEF Init
  <1> DEFINE v == [NewVoice EXCEPT !.rate = r, !.start = a, !.adsr = adsr]
  <1>2. r \in Nat /\ a \in Nat
    BY SpuAssumption
  <1>3. NewFifo(0) \in FifoType /\ NewFifo(0).head = 0 /\ NewFifo(0).tail = 0
    BY DEF NewFifo, FifoType, Slot, FifoSize
  <1>4. len(NewFifo(0)) = 0
    BY <1>3, FifoFields DEF Dist
  <1>5. Holds(NewFifo(0), <<>>)
    BY <1>3, <1>4 DEF Holds, FifoSize
  <1>6. VoiceOK(v) /\ v.fifo = NewFifo(0) /\ v.phase = "Off" /\ v.vol = 0
    BY <1>2, <1>3 DEF NewVoice, VoiceOK, Phases
  <1> HIDE DEF v
  <1>7. VoiceInv(v, <<>>, FALSE)
    BY <1>5, <1>6 DEF VoiceInv, Playing
  <1>8. \A i \in Voices : voices[i] = v /\ ghost.fifo[i] = <<>> /\ ghost.keyed[i] = FALSE
    BY <1>1 DEF Init, v
  <1>9. \A i \in Voices : VoiceInv(voices[i], ghost.fifo[i], ghost.keyed[i])
    BY <1>7, <1>8
  <1>10. GhostOK(ghost)
    BY DEF GhostOK, Init, FifoSize
  <1>11. Silent(voices, ghost)
    BY <1>6, <1>8 DEF Silent
  <1>12. voices \in [Voices -> {voices[i] : i \in Voices}] /\ cycles \in Nat
    BY <1>1 DEF Init
  <1> QED
    BY <1>9, <1>10, <1>11, <1>12 DEF Inv

LEMMA RunCycleStep == Inv /\ RunCycle => Inv'
  <1> SUFFICES ASSUME Inv, RunCycle PROVE Inv'
    OBVIOUS
  <1>1. PICK step \in [Voices -> UNION {Steps(i) : i \in Voices}],
             header \in [Voices -> UNION {Headers(voices[i]) : i \in Voices}] :
          /\ \A i \in Voices : step[i] \in Steps(i)
          /\ cycles' = cycles + 1
          /\ voices' = [i \in Voices |-> run(i, run_decoder(i, voices[i], header[i]).voice, step[i])]
          /\ ghost' = [fifo |-> [i \in Voices |-> Left(i, step[i])],
                       mixed |-> [i \in Voices |-> Len(ghost.fifo[i] \o Decoded(i))],
                       keyed |-> [i \in Voices |-> Keyed(i)],
                       stored |-> {}, disabled |-> "enable" \notin regs.control]
    BY DEF RunCycle
  <1>2. /\ DOMAIN ghost' = {"fifo", "mixed", "keyed", "stored", "disabled"}
        /\ ghost'.disabled = ("enable" \notin regs.control)
    BY <1>1
  <1>3. ASSUME NEW i \in Voices
        PROVE  /\ VoiceInv(voices'[i], ghost'.fifo[i], ghost'.keyed[i])
               /\ ghost'.mixed[i] \in 4 .. 14
               /\ ghost'.disabled => voices'[i].vol = 0
    <2> DEFINE w == run(i, run_decoder(i, voices[i], header[i]).voice, step[i])
    <2>1. /\ VoiceInv(w, Left(i, step[i]), Keyed(i))
          /\ Mixable(ghost.fifo[i] \o Decoded(i))
          /\ "enable" \notin regs.control => w.vol = 0
      BY <1>1, VoiceRuns
    <2>2. voices'[i] = w
      BY <1>1
    <2>3. ghost'.fifo[i] = Left(i, step[i])
      BY <1>1
    <2>4. ghost'.keyed[i] = Keyed(i)
      BY <1>1
    <2>5. ghost'.mixed[i] = Len(ghost.fifo[i] \o Decoded(i))
      BY <1>1
    <2> HIDE DEF w
    <2>6. VoiceInv(voices'[i], ghost'.fifo[i], ghost'.keyed[i])
      BY <2>1, <2>2, <2>3, <2>4
    <2>7. ghost'.mixed[i] \in 4 .. 14
      BY <2>1, <2>5 DEF Mixable
    <2> QED
      BY <1>2, <2>1, <2>2, <2>6, <2>7
  <1>4. GhostOK(ghost')
    BY <1>1, <1>3 DEF GhostOK, FifoSize
  <1>5. Silent(voices', ghost')
    BY <1>3 DEF Silent
  <1>6. voices' \in [Voices -> {voices'[i] : i \in Voices}]
    BY <1>1
  <1>7. cycles' \in Nat
    BY <1>1 DEF Inv
  <1> QED
    BY <1>3, <1>4, <1>5, <1>6, <1>7 DEF Inv

\* A step that changes one voice, and neither its samples nor its phase.
LEMMA OneVoice ==
  ASSUME Inv, NEW i \in Voices, NEW w, Like(voices[i], w), w.phase = voices[i].phase,
         voices' = [voices EXCEPT ![i] = w], UNCHANGED cycles,
         \/ w.vol = voices[i].vol /\ UNCHANGED ghost
         \/ ghost' = [ghost EXCEPT !.stored = @ \cup {i}]
  PROVE  Inv'
  <1>1. /\ cycles \in Nat /\ GhostOK(ghost) /\ Silent(voices, ghost)
        /\ voices \in [Voices -> {voices[j] : j \in Voices}]
    BY DEF Inv
  <1>2. /\ ghost'.fifo = ghost.fifo /\ ghost'.mixed = ghost.mixed /\ ghost'.keyed = ghost.keyed
        /\ ghost'.disabled = ghost.disabled
        /\ (w.vol = voices[i].vol /\ ghost'.stored = ghost.stored)
           \/ ghost'.stored = ghost.stored \cup {i}
        /\ GhostOK(ghost')
    BY <1>1 DEF GhostOK
  <1>3. voices'[i] = w /\ \A j \in Voices : j # i => voices'[j] = voices[j]
    BY <1>1
  <1>4. Silent(voices', ghost')
    BY <1>1, <1>2, <1>3 DEF Silent
  <1>5. voices' \in [Voices -> {voices'[j] : j \in Voices}]
    BY <1>1
  <1>6. ASSUME NEW j \in Voices
        PROVE  VoiceInv(voices'[j], ghost'.fifo[j], ghost'.keyed[j])
    <2>1. VoiceInv(voices[j], ghost.fifo[j], ghost.keyed[j])
      BY DEF Inv
    <2>2. CASE j = i
      <3>1. Playing(w) <=> Playing(voices[i])
        BY DEF Playing
      <3> QED
        BY <1>2, <1>3, <2>1, <2>2, <3>1 DEF VoiceInv, Like
    <2>3. CASE j # i
      BY <1>2, <1>3, <2>1, <2>3
    <2> QED
      BY <2>2, <2>3
  <1> QED
    BY <1>1, <1>2, <1>4, <1>5, <1>6 DEF Inv

LEMMA StoreVoiceStep == Inv /\ StoreVoice => Inv'
  <1> SUFFICES ASSUME Inv, StoreVoice PROVE Inv'
    OBVIOUS
  <1>1. PICK i \in Voices :
          /\ \/ \E r \in Rates : voices' = [voices EXCEPT ![i].rate = r] /\ UNCHANGED ghost
             \/ \E a \in Starts : voices' = [voices EXCEPT ![i].start = a] /\ UNCHANGED ghost
             \/ \E a \in AdsrRegs : voices' = [voices EXCEPT ![i].adsr = a] /\ UNCHANGED ghost
             \/ /\ voices' = [voices EXCEPT ![i].vol = 32767]
                /\ ghost' = [ghost EXCEPT !.stored = @ \cup {i}]
             \/ \E a \in Starts :
                  /\ voices' = [voices EXCEPT ![i].repeat = a, ![i].ignore_loop_addr = TRUE]
                  /\ UNCHANGED ghost
          /\ UNCHANGED cycles
    BY DEF StoreVoice
  <1> DEFINE v == voices[i]
             Stored(w) == Like(v, w) /\ w.phase = v.phase
  <1>2. VoiceOK(v) /\ DOMAIN voices = Voices
    BY DEF Inv, VoiceInv
  <1>3. Rates \subseteq Nat /\ Starts \subseteq Nat
    BY SpuAssumption
  <1>4. UNCHANGED cycles
    BY <1>1
  <1>5. ASSUME NEW w, Stored(w), w.vol = v.vol, voices' = [voices EXCEPT ![i] = w], UNCHANGED ghost
        PROVE  Inv'
    BY <1>4, <1>5, OneVoice
  <1>a. ASSUME NEW w, Stored(w), voices' = [voices EXCEPT ![i] = w],
               ghost' = [ghost EXCEPT !.stored = @ \cup {i}]
        PROVE  Inv'
    BY <1>4, <1>a, OneVoice
  <1>6. CASE \E r \in Rates : voices' = [voices EXCEPT ![i].rate = r] /\ UNCHANGED ghost
    <2>1. PICK r \in Rates : voices' = [voices EXCEPT ![i] = [v EXCEPT !.rate = r]] /\ UNCHANGED ghost
      BY <1>6
    <2> DEFINE w == [v EXCEPT !.rate = r]
    <2> HIDE DEF v
    <2>2. Stored(w) /\ w.vol = v.vol
      BY <1>2, <1>3 DEF VoiceOK, Like
    <2> HIDE DEF w, Stored
    <2>3. voices' = [voices EXCEPT ![i] = w]
      BY <2>1 DEF w
    <2> QED
      BY <1>5, <2>1, <2>2, <2>3
  <1>7. CASE \E a \in Starts : voices' = [voices EXCEPT ![i].start = a] /\ UNCHANGED ghost
    <2>1. PICK a \in Starts : voices' = [voices EXCEPT ![i] = [v EXCEPT !.start = a]] /\ UNCHANGED ghost
      BY <1>7
    <2> DEFINE w == [v EXCEPT !.start = a]
    <2> HIDE DEF v
    <2>2. Stored(w) /\ w.vol = v.vol
      BY <1>2, <1>3 DEF VoiceOK, Like
    <2> HIDE DEF w, Stored
    <2>3. voices' = [voices EXCEPT ![i] = w]
      BY <2>1 DEF w
    <2> QED
      BY <1>5, <2>1, <2>2, <2>3
  <1>8. CASE \E a \in AdsrRegs : voices' = [voices EXCEPT ![i].adsr = a] /\ UNCHANGED ghost
    <2>1. PICK a \in AdsrRegs : voices' = [voices EXCEPT ![i] = [v EXCEPT !.adsr = a]] /\ UNCHANGED ghost
      BY <1>8
    <2> DEFINE w == [v EXCEPT !.adsr = a]
    <2> HIDE DEF v
    <2>2. Stored(w) /\ w.vol = v.vol
      BY <1>2, <1>3 DEF VoiceOK, Like
    <2> HIDE DEF w, Stored
    <2>3. voices' = [voices EXCEPT ![i] = w]
      BY <2>1 DEF w
    <2> QED
      BY <1>5, <2>1, <2>2, <2>3
  <1>9. CASE /\ voices' = [voices EXCEPT ![i].vol = 32767]
             /\ ghost' = [ghost EXCEPT !.stored = @ \cup {i}]
    <2> DEFINE w == [v EXCEPT !.vol = 32767]
    <2>1. voices' = [voices EXCEPT ![i] = w]
      BY <1>9
    <2> HIDE DEF v
    <2>2. Stored(w)
      BY <1>2 DEF VoiceOK, Like
    <2>3. ghost' = [ghost EXCEPT !.stored = @ \cup {i}]
      BY <1>9
    <2> HIDE DEF w, Stored
    <2> QED
      BY <1>a, <2>1, <2>2, <2>3
  <1>10. CASE \E a \in Starts :
               /\ voices' = [voices EXCEPT ![i].repeat = a, ![i].ignore_loop_addr = TRUE]
               /\ UNCHANGED ghost
    <2>1. PICK a \in Starts :
            /\ voices' = [voices EXCEPT ![i].repeat = a, ![i].ignore_loop_addr = TRUE]
            /\ UNCHANGED ghost
      BY <1>10
    <2> DEFINE u == [v EXCEPT !.repeat = a]
               w == [u EXCEPT !.ignore_loop_addr = TRUE]
    <2>2. voices' = [voices EXCEPT ![i] = w]
      BY <1>2, <2>1
    <2> HIDE DEF v
    <2>3. Stored(u) /\ u.vol = v.vol
      BY <1>2, <1>3 DEF VoiceOK, Like
    <2> HIDE DEF u
    <2>4. Stored(w) /\ w.vol = v.vol
      BY <2>3 DEF VoiceOK, Like
    <2> HIDE DEF w, Stored
    <2> QED
      BY <1>5, <2>1, <2>2, <2>4
  <1> QED
    BY <1>1, <1>6, <1>7, <1>8, <1>9, <1>10

-----------------------------------------------------------------------------
\* In every state the voices agree with their history.
THEOREM Invariance == Spec => []Inv
  <1>1. Inv /\ [Next]_vars => Inv'
    <2> SUFFICES ASSUME Inv, [Next]_vars PROVE Inv'
      OBVIOUS
    <2>1. CASE RunCycle
      BY <2>1, RunCycleStep
    <2>2. CASE StoreVoice
      BY <2>2, StoreVoiceStep
    <2>3. CASE StoreReg \/ DmaStore \/ DmaLoad \/ UNCHANGED vars
      BY <2>3 DEF StoreReg, DmaStore, DmaLoad, Inv, vars
    <2> QED
      BY <2>1, <2>2, <2>3 DEF Next
  <1> QED
    BY <1>1, InitHolds, PTL DEF Spec

\* Every voice's FIFO of four bit indices holds exactly the samples decoded and
\* not yet played, four of them or more whenever one is mixed (`run_decoder` and
\* `consume_samples`), at any sample rate and for any number of cycles.
THEOREM FifoIsExact == Spec => []FifoExact
  <1>1. Inv => FifoExact
    <2> SUFFICES ASSUME Inv, NEW i \in Voices
                 PROVE  /\ len(voices[i].fifo) = Len(ghost.fifo[i])
                        /\ \A n \in 1 .. Len(ghost.fifo[i]) : at(voices[i].fifo, n - 1) = ghost.fifo[i][n]
                        /\ ghost.mixed[i] \in 4 .. FifoSize - 1
      BY DEF FifoExact
    <2>1. Holds(voices[i].fifo, ghost.fifo[i])
      BY DEF Inv, VoiceInv
    <2>2. ghost.mixed[i] \in 4 .. 14
      BY DEF Inv, GhostOK, FifoSize
    <2>3. ghost.mixed[i] \in 4 .. FifoSize - 1
      BY <2>2 DEF FifoSize
    <2> QED
      BY <2>1, <2>3 DEF Holds
  <1> QED
    BY <1>1, Invariance, PTL

\* A voice is in attack, decay or sustain exactly while it is keyed on.
THEOREM EnvelopeFollowsKey == Spec => []PlayingIffKeyed
  <1>1. Inv => PlayingIffKeyed
    BY DEF Inv, VoiceInv, Playing, PlayingIffKeyed
  <1> QED
    BY <1>1, Invariance, PTL

\* No voice is heard in the sample after a cycle with the SPU disabled, but one
\* whose volume the guest stored to since.
THEOREM DisabledMeansSilent == Spec => DisabledIsSilent
  <1>1. Inv /\ [Next]_vars
        => [cycles' > cycles /\ ghost.disabled => heard' \subseteq ghost.stored]_vars
    <2> SUFFICES ASSUME Inv, Next, cycles' > cycles, ghost.disabled
                 PROVE  heard' \subseteq ghost.stored
      BY DEF vars
    <2>1. cycles \in Nat
      BY DEF Inv
    <2>2. RunCycle
      BY <2>1 DEF Next, StoreVoice, StoreReg, DmaStore, DmaLoad
    <2>3. PICK step \in [Voices -> UNION {Steps(i) : i \in Voices}],
               header \in [Voices -> UNION {Headers(voices[i]) : i \in Voices}] :
            /\ \A i \in Voices : step[i] \in Steps(i)
            /\ heard' \subseteq {i \in Voices : run_decoder(i, voices[i], header[i]).voice.vol # 0}
      BY <2>2 DEF RunCycle
    <2>4. ASSUME NEW i \in Voices, run_decoder(i, voices[i], header[i]).voice.vol # 0
          PROVE  i \in ghost.stored
      <3>1. \/ run_decoder(i, voices[i], header[i]).voice.vol = voices[i].vol
            \/ run_decoder(i, voices[i], header[i]).voice.vol = 0
        BY <2>3, VoiceRuns
      <3> QED
        BY <2>4, <3>1 DEF Inv, Silent
    <2> QED
      BY <2>3, <2>4
  <1> QED
    BY <1>1, Invariance, PTL DEF Spec, DisabledIsSilent

=============================================================================
